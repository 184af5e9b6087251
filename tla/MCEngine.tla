------------------------------ MODULE MCEngine -------------------------------
(* Values for model checking Engine. *)
EXTENDS Engine

CONSTANTS o1, o2, o3

MCOrderId == {o1, o2, o3}
MCTwoOrders == {o1, o2}
MCDeliveries    == [o \in MCOrderId |-> IF o = o1 THEN 2 ELSE 1]
MCTwoDeliveries == [o \in MCTwoOrders |-> 1]

\* Every order is placed once, or one of them twice; that one is cancelled as well.
Entries(op, orders) == [op: {op}, order: orders, entry: {1}]

Again == [op |-> "place", order |-> o1, entry |-> 2]

MCTwoCommands == Entries("place", MCTwoOrders) \union Entries("cancel", {o1})
MCCommand     == Entries("place", MCOrderId) \union Entries("cancel", {o1})
                 \union {Again}

Limit(side, price, qty) ==
    [side |-> side, type |-> "limit", price |-> price, quantity |-> qty,
     tif |-> "GTC", postOnly |-> FALSE]

\* A bid that one market order or two asks consume, an ask that rests or trades
\* in part, and a market order whose remainder is dropped.
Bid    == Limit("buy", 2, 2)
Ask    == Limit("sell", 1, 1)
Market == [Limit("sell", 1, 2) EXCEPT !.type = "market", !.tif = "IOC"]

MCTerms == {Bid, Ask, Market}

\* One order of each kind; any of them is the one that is cancelled.
MCInit ==
    /\ EngineInit
    /\ <<terms[o1], terms[o2], terms[o3]>> \in
          {<<Bid, Ask, Market>>, <<Ask, Bid, Market>>, <<Market, Bid, Ask>>}

\* A behaviour has a snapshot and a fault, or a PLACE that is read twice.
MCNext == EngineNext /\ (saves' + faults' > 0 => fate'[Again] = "new")

MCSpec == MCInit /\ [][MCNext]_allVars /\ EngineFairness
=============================================================================
