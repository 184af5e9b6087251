------------------------------ MODULE OrderPath -------------------------------
(***************************************************************************)
(* How orders and cancels of one user reach the command stream: the order  *)
(* service (Server/src/services/orderService.ts) and the outbox worker     *)
(* (Server/src/workers/outboxWorker.ts).  Both run in one Node process, so *)
(* that an action is what happens between two awaits: one statement in     *)
(* PostgreSQL or one XADD.  What the DB writer makes of the orders once    *)
(* the engine has seen them is not part of this module.                    *)
(***************************************************************************)
EXTENDS Integers, Sequences, FiniteSets, SequencesExt

CONSTANTS
    Request,     \* calls of POST /orders
    NoKey,       \* the missing clientOrderId
    KeyOf,       \* the clientOrderId of each request
    Canceller,   \* calls that cancel: DELETE /orders/:id, DELETE /orders
    CancelAll,   \* those that are DELETE /orders: they ask for all orders of a market
    TargetOf,    \* the order, or the orders of that market, each canceller asks for
    Funds,       \* how many orders the available balance can back
    BatchLimit,  \* rows the outbox worker takes at a time
    MaxFaults    \* bound: statements that fail, and crashes of the process

ASSUME PathAssumption ==
    /\ CancelAll \subseteq Canceller
    /\ TargetOf \in [Canceller -> SUBSET Request]
    /\ Funds \in Nat /\ MaxFaults \in Nat
    /\ BatchLimit \in Nat \ {0}

VARIABLES
    at,        \* the next statement of each request
    locked,    \* requests that have locked margin
    orders,    \* the orders table: an order is named by the request that inserts it
    outbox,    \* the outbox table
    stream,    \* the Redis stream of commands
    worker,    \* the outbox worker: its list of pending rows, and where it is in it
    cancel,    \* each canceller: orders still to do, the one in hand, next statement
    faults,    \* failed statements and crashes so far
    crashed    \* has the process crashed?

vars == <<at, locked, orders, outbox, stream, worker, cancel, faults, crashed>>

Begun(r)     == at[r] \notin {"new", "done", "known", "refused", "failed"}
Resting      == [pending |-> <<>>, at |-> "asleep"]
Place(r)     == [op |-> "place", order |-> r]
CancelOf(r)  == [op |-> "cancel", order |-> r]
InStream(c)  == c \in ToSet(stream)
Times(c)     == Cardinality({i \in 1..Len(stream) : stream[i] = c})

PathTypeOK ==
    /\ at \in [Request -> {"new", "lock", "insert", "record", "publish", "mark",
                           "done", "known", "refused", "failed"}]
    /\ locked \subseteq Request
    /\ orders \in [Request -> {"none", "open", "canceled"}]
    /\ outbox \in [Request -> {"none", "pending", "published"}]
    /\ stream \in Seq([op: {"place", "cancel"}, order: Request])
    /\ worker.pending \in Seq(Request) /\ worker.at \in {"asleep", "send", "mark"}
    /\ \A k \in Canceller : cancel[k].todo \subseteq Request
                            /\ cancel[k].at \in {"new", "read", "send", "mark", "gone"}
    /\ faults \in 0..MaxFaults
    /\ crashed \in BOOLEAN

Init ==
    /\ at = [r \in Request |-> "new"]
    /\ locked = {}
    /\ orders = [r \in Request |-> "none"]
    /\ outbox = [r \in Request |-> "none"]
    /\ stream = <<>>
    /\ worker = Resting
    /\ cancel = [k \in Canceller |-> [todo |-> {}, order |-> NoKey, at |-> "new"]]
    /\ faults = 0
    /\ crashed = FALSE

-----------------------------------------------------------------------------
(* placeOrder(). *)

Goto(r, place) == at' = [at EXCEPT ![r] = place]

SameKey(r, q) == KeyOf[r] # NoKey /\ KeyOf[r] = KeyOf[q]

\* Mutant: the unique index is missing.
NoIndex(r) == FALSE

\* The unique index on (user_id, client_order_id).
KeyTaken(r) == \E q \in Request : orders[q] # "none" /\ SameKey(r, q)

\* Is there an order of that clientOrderId already?  Then it is the answer.
Check(r) ==
    /\ at[r] = "new"
    /\ Goto(r, IF \E q \in Request : orders[q] # "none" /\ SameKey(r, q)
               THEN "known" ELSE "lock")
    /\ UNCHANGED <<locked, orders, outbox, stream, worker, cancel, faults, crashed>>

\* Mutant: the balance is not looked at.
NeverShort == TRUE

Affordable == Cardinality(locked) < Funds

\* lockBalance(): one transaction that holds the row.
Lock(r) ==
    /\ at[r] = "lock"
    /\ IF Affordable THEN locked' = locked \union {r} /\ Goto(r, "insert")
                     ELSE locked' = locked /\ Goto(r, "refused")
    /\ UNCHANGED <<orders, outbox, stream, worker, cancel, faults, crashed>>

\* The order is inserted with status "open", unless its clientOrderId has been
\* taken since Check: that request fails, and its margin stays locked.
Insert(r) ==
    /\ at[r] = "insert"
    /\ IF KeyTaken(r)
         THEN orders' = orders /\ Goto(r, "failed")
         ELSE /\ orders' = [orders EXCEPT ![r] = "open"]
              /\ Goto(r, "record")
    /\ UNCHANGED <<locked, outbox, stream, worker, cancel, faults, crashed>>

\* The outbox row.
Record(r) ==
    /\ at[r] = "record"
    /\ outbox' = [outbox EXCEPT ![r] = "pending"]
    /\ Goto(r, "publish")
    /\ UNCHANGED <<locked, orders, stream, worker, cancel, faults, crashed>>

Publish(r) ==
    /\ at[r] = "publish"
    /\ stream' = Append(stream, Place(r))
    /\ Goto(r, "mark")
    /\ UNCHANGED <<locked, orders, outbox, worker, cancel, faults, crashed>>

Mark(r) ==
    /\ at[r] = "mark"
    /\ outbox' = [outbox EXCEPT ![r] = "published"]
    /\ Goto(r, "done")
    /\ UNCHANGED <<locked, orders, stream, worker, cancel, faults, crashed>>

\* A statement throws; whatever the earlier ones have done stays.
FailRequest(r) ==
    /\ faults < MaxFaults /\ Begun(r)
    /\ faults' = faults + 1
    /\ Goto(r, "failed")
    /\ UNCHANGED <<locked, orders, outbox, stream, worker, cancel, crashed>>

-----------------------------------------------------------------------------
(* The outbox worker: a list of unpublished rows is read once, then each row *)
(* is sent and marked, whatever has become of it in the meantime.            *)

Pending == {r \in Request : outbox[r] = "pending"}

\* Mutant: the worker waits until there is a full batch.
ReadFullBatch ==
    /\ worker.at = "asleep"
    /\ \E rows \in SetToAllKPermutations(Pending) :
         /\ Len(rows) = BatchLimit
         /\ worker' = [pending |-> rows, at |-> "send"]
    /\ UNCHANGED <<at, locked, orders, outbox, stream, cancel, faults, crashed>>

ReadOutbox ==
    /\ worker.at = "asleep"
    /\ \E rows \in SetToAllKPermutations(Pending) :
         /\ rows # <<>> /\ Len(rows) <= BatchLimit
         /\ Len(rows) < BatchLimit => Len(rows) = Cardinality(Pending)
         /\ worker' = [pending |-> rows, at |-> "send"]
    /\ UNCHANGED <<at, locked, orders, outbox, stream, cancel, faults, crashed>>

NextRow ==
    IF Len(worker.pending) = 1 THEN Resting
    ELSE [pending |-> Tail(worker.pending), at |-> "send"]

\* Mutant: the row is marked published before it is sent.
MarkThenSkip ==
    /\ worker.at = "send"
    /\ outbox' = [outbox EXCEPT ![Head(worker.pending)] = "published"]
    /\ worker' = NextRow
    /\ UNCHANGED <<at, locked, orders, stream, cancel, faults, crashed>>

SendRow ==
    /\ worker.at = "send"
    /\ stream' = Append(stream, Place(Head(worker.pending)))
    /\ worker' = [worker EXCEPT !.at = "mark"]
    /\ UNCHANGED <<at, locked, orders, outbox, cancel, faults, crashed>>

\* Mutant: the row stays pending.
ForgetToMark ==
    /\ worker.at = "mark"
    /\ worker' = NextRow
    /\ UNCHANGED <<at, locked, orders, outbox, stream, cancel, faults, crashed>>

MarkRow ==
    /\ worker.at = "mark"
    /\ outbox' = [outbox EXCEPT ![Head(worker.pending)] = "published"]
    /\ worker' = NextRow
    /\ UNCHANGED <<at, locked, orders, stream, cancel, faults, crashed>>

\* The error of one row is logged; the row stays pending and the next is tried.
FailRow ==
    /\ faults < MaxFaults /\ worker.at # "asleep"
    /\ faults' = faults + 1
    /\ worker' = NextRow
    /\ UNCHANGED <<at, locked, orders, outbox, stream, cancel, crashed>>

-----------------------------------------------------------------------------
(* cancelOrder() and cancelAllOpenOrders(). *)

\* The list of open orders is read once; the orders are cancelled one by one.
BeginCancel(k) ==
    /\ cancel[k].at = "new"
    /\ cancel' = [cancel EXCEPT ![k].at = "read",
                    ![k].todo = IF k \in CancelAll
                                THEN {r \in TargetOf[k] : orders[r] = "open"}
                                ELSE TargetOf[k]]
    /\ UNCHANGED <<at, locked, orders, outbox, stream, worker, faults, crashed>>

\* An order that does not exist or is terminal is refused: 404 or 400 from
\* DELETE /orders/:id, ignored by DELETE /orders.
ReadOrder(k, r) ==
    /\ cancel[k].at = "read" /\ r \in cancel[k].todo
    /\ cancel' = [cancel EXCEPT ![k] = [todo |-> cancel[k].todo \ {r}, order |-> r,
                    at |-> IF orders[r] = "open" THEN "send" ELSE "read"]]
    /\ UNCHANGED <<at, locked, orders, outbox, stream, worker, faults, crashed>>

SendCancel(k) ==
    /\ cancel[k].at = "send"
    /\ stream' = Append(stream, CancelOf(cancel[k].order))
    /\ cancel' = [cancel EXCEPT ![k].at = "mark"]
    /\ UNCHANGED <<at, locked, orders, outbox, worker, faults, crashed>>

\* Mutant: a status that is none of the order_status enumeration.
Misspelt(k) ==
    /\ cancel[k].at = "mark"
    /\ orders' = [orders EXCEPT ![cancel[k].order] = "cancelled"]
    /\ cancel' = [cancel EXCEPT ![k].at = "read"]
    /\ UNCHANGED <<at, locked, outbox, stream, worker, faults, crashed>>

\* "Mark canceled optimistically", without a look at the status.
MarkCanceled(k) ==
    /\ cancel[k].at = "mark"
    /\ orders' = [orders EXCEPT ![cancel[k].order] = "canceled"]
    /\ cancel' = [cancel EXCEPT ![k].at = "read"]
    /\ UNCHANGED <<at, locked, outbox, stream, worker, faults, crashed>>

\* cancelAllOpenOrders() goes on with the next order.
FailCancel(k) ==
    /\ faults < MaxFaults /\ cancel[k].at \in {"send", "mark"}
    /\ faults' = faults + 1
    /\ cancel' = [cancel EXCEPT ![k].at = "read"]
    /\ UNCHANGED <<at, locked, orders, outbox, stream, worker, crashed>>

-----------------------------------------------------------------------------
\* The process dies with every call in it and is started again.
Crash ==
    /\ faults < MaxFaults
    /\ faults' = faults + 1
    /\ crashed' = TRUE
    /\ at' = [r \in Request |-> IF Begun(r) THEN "failed" ELSE at[r]]
    /\ worker' = Resting
    /\ cancel' = [k \in Canceller |-> IF cancel[k].at = "new" THEN cancel[k]
                                      ELSE [cancel[k] EXCEPT !.at = "gone"]]
    /\ UNCHANGED <<locked, orders, outbox, stream>>

-----------------------------------------------------------------------------
Serve(r) == Lock(r) \/ Insert(r) \/ Record(r) \/ Publish(r) \/ Mark(r)
Worker   == ReadOutbox \/ SendRow \/ MarkRow
CancelStep(k) == (\E r \in Request : ReadOrder(k, r)) \/ SendCancel(k) \/ MarkCanceled(k)

Next ==
    \/ \E r \in Request : Check(r) \/ Serve(r) \/ FailRequest(r)
    \/ Worker \/ FailRow
    \/ \E k \in Canceller : BeginCancel(k) \/ CancelStep(k) \/ FailCancel(k)
    \/ Crash

\* The event loop runs every call that has begun, and the timer of the worker.
Spec ==
    /\ Init /\ [][Next]_vars
    /\ \A r \in Request : WF_vars(Serve(r))
    /\ WF_vars(Worker)
    /\ \A k \in Canceller : WF_vars(CancelStep(k))

-----------------------------------------------------------------------------
(* What the order path promises. *)

\* A clientOrderId names at most one order, however the requests that carry it
\* overlap, and an idempotent answer has an order to return.
KeyNamesOneOrder ==
    /\ \A r, q \in Request :
         orders[r] # "none" /\ orders[q] # "none" /\ SameKey(r, q) => r = q
    /\ \A r \in Request : at[r] = "known" => KeyTaken(r)

\* The engine never sees an order without margin behind it, and all orders
\* together stay within the balance.
MarginBehindEveryOrder ==
    /\ \A r \in Request : InStream(Place(r)) => r \in locked
    /\ Cardinality(locked) <= Funds

\* What has been answered with 201, or is ticked off in the outbox, cannot be
\* lost by a crash: its command is in the stream.
AnsweredIsPlaced ==
    \A r \in Request :
        at[r] = "done" \/ outbox[r] = "published" => orders[r] # "none" /\ InStream(Place(r))

\* As long as nothing fails the engine gets a PLACE_ORDER at most twice: from
\* the service, and from a worker that read the row before it was marked.
PlacedAtMostTwice ==
    faults = 0 => \A r \in Request : Times(Place(r)) <= 2

\* "Publish the command synchronously so it always precedes any subsequent
\* CANCEL_ORDER in the stream" (orderService.ts:137-138): whoever finds the order
\* in the table and cancels it, the engine sees the PLACE_ORDER first.
PlaceBeforeCancel ==
    \A i \in 1..Len(stream) :
        stream[i].op = "cancel" =>
            \E j \in 1..(i - 1) : stream[j] = Place(stream[i].order)

\* The outbox drains: no row stays unpublished for good, through every fault.
OutboxDrains == []<>(Pending = {})

\* "Outbox pattern - ensures no events are lost during order placement"
\* (README.md:40): an order of a request that has ended will be published.
NoOrderLost ==
    \A r \in Request :
        orders[r] # "none" /\ ~ Begun(r) => InStream(Place(r)) \/ outbox[r] = "pending"
=============================================================================
