---------------------------- MODULE MCSettlement -----------------------------
(* Values for model checking Settlement. *)
EXTENDS Settlement

CONSTANTS a, a2, b, c, d, q, alice, bob, lp

MCOrder == {a, a2, b, d, q}
MCUser  == {alice, bob}

\* a2 is a, sent once more by the outbox worker.
MCIdOf  == [o \in MCOrder |-> IF o = a2 THEN a ELSE o]

Terms(owner, side, price, quantity) ==
    [owner |-> owner, side |-> side, type |-> "limit", price |-> price, quantity |-> quantity,
     tif |-> "GTC", postOnly |-> FALSE]

\* A post-only bid and a market order of one user, and two asks, one of them the
\* market maker's: either ask may fill the bid, and the market order pays for one
\* less, for the other more than it has locked.
MCTermsOf ==
    (a :> [Terms(alice, "buy", 3, 2) EXCEPT !.postOnly = TRUE])
    @@ (a2 :> [Terms(alice, "buy", 3, 2) EXCEPT !.postOnly = TRUE])
    @@ (d :> [Terms(alice, "buy", 2, 1) EXCEPT !.type = "market", !.tif = "IOC"])
    @@ (b :> Terms(bob, "sell", 3, 1))
    @@ (q :> Terms(lp, "sell", 1, 2))

\* A market order and a limit order for which there is nothing in the book.
MCOutsideOrder == {a, d}
MCOutsideIdOf  == [o \in MCOutsideOrder |-> o]
MCOutsideTerms == [o \in MCOutsideOrder |-> MCTermsOf[o]]

\* One user on both sides, and another one.
MCFewOrders == {a, b, c}
MCFewIdOf   == [o \in MCFewOrders |-> o]
MCSelfTerms ==
    (a :> Terms(alice, "buy", 1, 1)) @@ (b :> Terms(alice, "sell", 1, 1))
    @@ (c :> Terms(bob, "sell", 1, 1))
=============================================================================
