------------------------------ MODULE MCBalances ------------------------------
(* Values for model checking Balances. *)
EXTENDS Balances, TLC

CONSTANTS c1, c2, c3

MCOpening == {[available |-> 2, locked |-> 1]}
=============================================================================
