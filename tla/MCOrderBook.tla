----------------------------- MODULE MCOrderBook -----------------------------
(* Values for model checking OrderBook. *)
EXTENDS OrderBook

CONSTANTS o1, o2, o3

MCOrderId == {o1, o2, o3}

\* The command of o1 may be delivered twice, as the outbox worker may do.
MCMaxDeliveries == o1 :> 2 @@ o2 :> 1 @@ o3 :> 1

Limits(prices, qs, tifs, post) ==
    [side: Side, type: {"limit"}, price: prices, quantity: qs, tif: tifs, postOnly: post]

\* Every instruction the code tells apart; price, time in force and post-only
\* have no effect on a market order.  Fill-or-kill at price 1 may buy from one
\* level only and sell to both.
MCTerms ==
    Limits(Price, Qty, {"GTC"}, {FALSE}) \union Limits({1}, {1}, {"GTC"}, {TRUE})
    \union Limits({1}, {2}, {"FOK"}, {FALSE}) \union Limits({1}, {2}, {"IOC"}, {FALSE})
    \union [side: Side, type: {"market"}, price: {1}, quantity: {2},
            tif: {"IOC"}, postOnly: {FALSE}]
=============================================================================
