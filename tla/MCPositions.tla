------------------------------ MODULE MCPositions ------------------------------
(* Values for model checking Positions. *)
EXTENDS Positions

CONSTANTS k1, k2, p1, p2
=============================================================================
