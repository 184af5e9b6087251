------------------------------ MODULE OrderBook ------------------------------
(***************************************************************************)
(* The limit order book of one market (Engine/src/orderbook.cpp), driven   *)
(* by the engine's command thread.  The two std::maps bids_ and asks_ are  *)
(* book["buy"] and book["sell"]: a queue of resting orders per price, the  *)
(* empty queue standing for a level that has been erased.  The matching    *)
(* loop is cut at every write to the book, because the snapshot thread     *)
(* reads the book without taking part in any lock of match().              *)
(***************************************************************************)
EXTENDS Integers, Sequences, FiniteSets, SequencesExt

CONSTANTS
    OrderId,        \* identities of orders
    MaxPrice,       \* prices are 1..MaxPrice (ticks)
    MaxQty,         \* quantities are 1..MaxQty (lots)
    Terms,          \* the order terms a client may ask for
    MaxDeliveries   \* bound: how often the PLACE_ORDER of each order may be delivered

Side  == {"buy", "sell"}
Price == 1..MaxPrice
Qty   == 1..MaxQty

OrderTerms == [side: Side, type: {"limit", "market"}, price: Price, quantity: Qty,
               tif: {"GTC", "IOC", "FOK"}, postOnly: BOOLEAN]

ASSUME BoundsAssumption ==
    MaxPrice \in Nat /\ MaxQty \in Nat /\ MaxDeliveries \in [OrderId -> Nat]
ASSUME TermsAssumption == Terms \subseteq OrderTerms

VARIABLES
    terms,       \* what each order asks for, fixed by its payload
    deliveries,  \* how often each order has reached match()
    book,        \* bids_ and asks_
    index,       \* orderIndex_: where cancelResting looks for an order
    taker,       \* the incoming order match() works on
    trades,      \* the trades match() has collected for it
    pc           \* where the command thread is inside match()

vars == <<terms, deliveries, book, index, taker, trades, pc>>

Entry   == [id: OrderId, quantity: Qty, filled: 0..MaxQty]
Place   == [side: Side, price: Price]
Trade   == [maker: OrderId, taker: OrderId, price: Price, quantity: Qty]
Status  == {"open", "partially_filled", "filled", "canceled", "rejected"}
Nowhere == [side |-> "none", price |-> 0]
NoOrder == [id |-> "none", filled |-> 0, status |-> "none"]

-----------------------------------------------------------------------------
(* Reading the book. *)

Opposite(s) == IF s = "buy" THEN "sell" ELSE "buy"
Left(e)     == e.quantity - e.filled
Levels(s)   == {p \in Price : book[s][p] # <<>>}
Asked       == terms[taker.id]

\* Mutant: the maps iterated from the wrong end.
WorstLevel(s, p) ==
    p \in Levels(s) /\ \A q \in Levels(s) : IF s = "buy" THEN p <= q ELSE q <= p

\* bestBid() is the first key of a map sorted by descending price, bestAsk()
\* of one sorted by ascending price.
IsBest(s, p) ==
    /\ p \in Levels(s)
    /\ \A q \in Levels(s) : IF s = "buy" THEN q <= p ELSE p <= q

\* Mutant: a price equal to the limit does not cross.
CrossesStrictly(t, p) ==
    t.type = "market" \/ (IF t.side = "buy" THEN p < t.price ELSE t.price < p)

\* May an order with terms t trade against an opposite level at price p?
Crosses(t, p) ==
    \/ t.type = "market"
    \/ t.side = "buy" /\ p <= t.price
    \/ t.side = "sell" /\ t.price <= p

\* Mutant: a partly filled maker goes to the back of its queue.
RequeueFront(q, n) == Append(Tail(q), [q[1] EXCEPT !.filled = @ + n])

\* n more lots of an order, and of the first order of a queue, are executed.
Fill(e, n)      == [e EXCEPT !.filled = @ + n]
FillFront(q, n) == [q EXCEPT ![1] = Fill(q[1], n)]

LevelQuantity(s, p) == SumFunction([i \in 1..Len(book[s][p]) |-> Left(book[s][p][i])])
SideQuantity(s, ps) == SumFunctionOnSet([p \in Price |-> LevelQuantity(s, p)], ps)

\* Mutant: the fill-or-kill check ignores the price limit.
WholeSideQuantity(t) == SideQuantity(Opposite(t.side), Levels(Opposite(t.side)))

CrossingQuantity(t) ==
    SideQuantity(Opposite(t.side), {p \in Levels(Opposite(t.side)) : Crosses(t, p)})

PostOnlyWouldCross(t) ==
    t.postOnly /\ \E p \in Price : IsBest(Opposite(t.side), p) /\ Crosses(t, p)

Unfillable(t) == t.tif = "FOK" /\ CrossingQuantity(t) < t.quantity

Refused(t) == t.type = "limit" /\ (PostOnlyWouldCross(t) \/ Unfillable(t))

Rests(t) == t.type = "limit" /\ t.tif = "GTC"

\* Mutant: remaining >= 0 where the code says remaining > 0.
UnfilledOrFull == taker.filled <= Asked.quantity

Unfilled == taker.filled < Asked.quantity

\* The loop goes on while the taker wants more and the best level crosses.
CanTrade(p) ==
    /\ Unfilled
    /\ IsBest(Opposite(Asked.side), p)
    /\ Crosses(Asked, p)

\* Mutants: an index entry that outlives its order, and one for the wrong side.
ForgetNothing(o)      == index
LocateOpposite(o, t)  == [index EXCEPT ![o] = [side |-> Opposite(t.side), price |-> t.price]]

\* orderIndex_.erase(id), and the entry of an order that comes to rest.
Forget(o)    == [index EXCEPT ![o] = Nowhere]
Locate(o, t) == [index EXCEPT ![o] = [side |-> t.side, price |-> t.price]]

-----------------------------------------------------------------------------
TypeOK ==
    /\ terms \in [OrderId -> Terms]
    /\ deliveries \in [OrderId -> Nat]
    /\ book \in [Side -> [Price -> Seq(Entry)]]
    /\ index \in [OrderId -> Place \union {Nowhere}]
    /\ taker \in [id: OrderId, filled: 0..MaxQty, status: Status] \union {NoOrder}
    /\ trades \in Seq(Trade)
    /\ pc \in {"idle", "match", "pop", "done"}
    /\ pc # "idle" => taker \in [id: OrderId, filled: 0..MaxQty, status: Status]

Init ==
    /\ terms \in [OrderId -> Terms]
    /\ deliveries = [o \in OrderId |-> 0]
    /\ book = [s \in Side |-> [p \in Price |-> <<>>]]
    /\ index = [o \in OrderId |-> Nowhere]
    /\ taker = NoOrder
    /\ trades = <<>>
    /\ pc = "idle"

\* match() is entered: the post-only and the fill-or-kill checks come first
\* and only read the book.  The engine keeps no record of the ids it has seen.
Receive(o) ==
    /\ pc = "idle"
    /\ deliveries[o] < MaxDeliveries[o]
    /\ deliveries' = [deliveries EXCEPT ![o] = @ + 1]
    /\ taker' = [id |-> o, filled |-> 0,
                 status |-> IF Refused(terms[o]) THEN "rejected" ELSE "open"]
    /\ pc' = IF Refused(terms[o]) THEN "done" ELSE "match"
    /\ UNCHANGED <<terms, book, index, trades>>

\* One turn of the inner loop: the oldest order of the best level is filled
\* at the maker's price.
Execute(p) ==
    LET s     == Opposite(Asked.side)
        maker == Head(book[s][p])
        want  == Asked.quantity - taker.filled
        qty   == IF want < Left(maker) THEN want ELSE Left(maker)
    IN  /\ pc = "match"
        /\ CanTrade(p)
        /\ Left(maker) > 0
        /\ book' = [book EXCEPT ![s][p] = FillFront(@, qty)]
        /\ taker' = [taker EXCEPT !.filled = @ + qty]
        /\ trades' = Append(trades, [maker |-> maker.id, taker |-> taker.id,
                                     price |-> p, quantity |-> qty])
        /\ pc' = IF qty = Left(maker) THEN "pop" ELSE "match"
        /\ UNCHANGED <<terms, deliveries, index>>

\* Mutant: the filled maker is not popped from its queue.
ForgetFilled(p) ==
    LET s == Opposite(Asked.side)
    IN  /\ pc = "pop"
        /\ IsBest(s, p)
        /\ index' = Forget(Head(book[s][p]).id)
        /\ pc' = "match"
        /\ UNCHANGED <<terms, deliveries, book, taker, trades>>

\* The filled maker leaves the index and the queue.
PopFilled(p) ==
    LET s == Opposite(Asked.side)
    IN  /\ pc = "pop"
        /\ IsBest(s, p)
        /\ index' = Forget(Head(book[s][p]).id)
        /\ book' = [book EXCEPT ![s][p] = Tail(@)]
        /\ pc' = "match"
        /\ UNCHANGED <<terms, deliveries, taker, trades>>

\* After the loop: a GTC limit order leaves a copy of its remainder behind
\* the other orders of its price ...
Rest ==
    LET t == Asked
    IN  /\ pc = "match"
        /\ ~ \E p \in Price : CanTrade(p)
        /\ Unfilled
        /\ Rests(t)
        /\ book' = [book EXCEPT ![t.side][t.price] =
                        Append(@, [id |-> taker.id, quantity |-> t.quantity,
                                   filled |-> taker.filled])]
        /\ index' = Locate(taker.id, t)
        /\ taker' = [taker EXCEPT !.status =
                        IF taker.filled > 0 THEN "partially_filled" ELSE "open"]
        /\ pc' = "done"
        /\ UNCHANGED <<terms, deliveries, trades>>

\* ... the remainder of any other order is dropped ...
Discard ==
    /\ pc = "match"
    /\ ~ \E p \in Price : CanTrade(p)
    /\ Unfilled
    /\ ~ Rests(Asked)
    /\ taker' = [taker EXCEPT !.status =
                    IF taker.filled > 0 THEN "partially_filled" ELSE "canceled"]
    /\ pc' = "done"
    /\ UNCHANGED <<terms, deliveries, book, index, trades>>

\* ... and an order with nothing left is filled.
Complete ==
    /\ pc = "match"
    /\ taker.filled = Asked.quantity
    /\ taker' = [taker EXCEPT !.status = "filled"]
    /\ pc' = "done"
    /\ UNCHANGED <<terms, deliveries, book, index, trades>>

\* match() hands order and trades to its caller.
Return ==
    /\ pc = "done"
    /\ taker' = NoOrder
    /\ trades' = <<>>
    /\ pc' = "idle"
    /\ UNCHANGED <<terms, deliveries, book, index>>

\* cancelResting(): the first entry of that id in the level the index names.
\* An order the index does not know is left alone: the call returns false.
Cancel(o) ==
    /\ pc = "idle"
    /\ index[o] # Nowhere
    /\ LET q == book[index[o].side][index[o].price]
       IN  \E i \in 1..Len(q) :
             /\ q[i].id = o
             /\ \A j \in 1..(i - 1) : q[j].id # o
             /\ book' = [book EXCEPT ![index[o].side][index[o].price] = RemoveAt(q, i)]
    /\ index' = Forget(o)
    /\ UNCHANGED <<terms, deliveries, taker, trades, pc>>

Next ==
    \/ \E o \in OrderId : Receive(o) \/ Cancel(o)
    \/ \E p \in Price : Execute(p) \/ PopFilled(p)
    \/ Rest
    \/ Discard
    \/ Complete
    \/ Return

\* The command thread does not stop in the middle of an order; that commands
\* keep arriving is not assumed.
Matching == (\E p \in Price : Execute(p) \/ PopFilled(p)) \/ Rest \/ Discard
            \/ Complete \/ Return

Spec == Init /\ [][Next]_vars
FairSpec == Spec /\ WF_vars(Matching)
-----------------------------------------------------------------------------
(* Safety. *)

\* The book is never crossed: whatever was executed, cancelled or rested, and
\* also half way through an order, each resting bid is below each resting ask.
Uncrossed ==
    \A b, a \in Price :
        book["buy"][b] # <<>> /\ book["sell"][a] # <<>> => b < a

\* Every resting order can still trade.  The one exception is the maker that
\* has just been filled and is about to leave.  The branch of match() marked
\* "Should not happen" (available <= 0) is therefore never taken.
AllLive ==
    \A s \in Side, p \in Price : \A i \in 1..Len(book[s][p]) :
        \/ Left(book[s][p][i]) > 0
        \/ pc = "pop" /\ i = 1 /\ s = Opposite(Asked.side) /\ IsBest(s, p)

\* What the index promises, the queue holds: a cancel that finds its order in
\* orderIndex_ finds it in the book as well, even when a command is delivered
\* more than once.
IndexSound ==
    \A o \in OrderId : index[o] # Nowhere =>
        \E i \in 1..Len(book[index[o].side][index[o].price]) :
            book[index[o].side][index[o].price][i].id = o

\* A resting order is where the index says, so that it can be cancelled: true
\* of every order that has been delivered once.
Cancellable ==
    \A s \in Side, p \in Price : \A i \in 1..Len(book[s][p]) :
        deliveries[book[s][p][i].id] = 1 =>
            index[book[s][p][i].id] = [side |-> s, price |-> p]

\* The trades of one order are as good for it as the book allowed: none is
\* outside its limit, and a later trade is never at a better price.
BestPriceFirst ==
    \A i \in 1..Len(trades) :
        /\ Crosses(Asked, trades[i].price)
        /\ \A j \in 1..(i - 1) :
              IF Asked.side = "buy" THEN trades[j].price <= trades[i].price
                                    ELSE trades[i].price <= trades[j].price

\* Fill-or-kill is all or nothing, post-only takes no liquidity, and a
\* remainder is in the book just when the order is good till cancelled.
AllOrNothing ==
    pc = "done" /\ Asked.type = "limit" /\ Asked.tif = "FOK" =>
        taker.filled \in {0, Asked.quantity}

PostOnlyTakesNothing ==
    pc = "done" /\ Asked.type = "limit" /\ Asked.postOnly => trades = <<>>

InBook(o, s) == \E p \in Price : \E i \in 1..Len(book[s][p]) : book[s][p][i].id = o

RemainderRests ==
    pc = "done" /\ deliveries[taker.id] = 1 =>
        (InBook(taker.id, Asked.side) <=>
            taker.status \in {"open", "partially_filled"} /\ Rests(Asked))

\* A finished order got what its instructions say, whatever was in the book.
InstructionsHonoured == AllOrNothing /\ PostOnlyTakesNothing /\ RemainderRests

\* While an order is matched, a resting order leaves the book only when it has
\* nothing left; between orders only the one that is cancelled leaves.  Those
\* that stay keep their place in the queue: nobody loses time priority.
OnlyTheFilledLeave ==
    [][\A s \in Side, p \in Price :
         LET q == book[s][p]
             r == book'[s][p]
         IN  \/ \E e \in Entry : r = Append(q, e)
             \/ /\ Len(r) = Len(q)
                /\ \A i \in 1..Len(q) : r[i].id = q[i].id /\ r[i].filled >= q[i].filled
             \/ \E i \in 1..Len(q) :
                   /\ r = RemoveAt(q, i)
                   /\ IF pc = "idle" THEN index'[q[i].id] = Nowhere
                                     ELSE i = 1 /\ Left(q[i]) = 0]_vars

\* The command thread always comes back from match(): the while (true) loop
\* ends for every book and every order.
MatchReturns == pc # "idle" ~> pc = "idle"
=============================================================================
