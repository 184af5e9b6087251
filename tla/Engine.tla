------------------------------- MODULE Engine --------------------------------
(***************************************************************************)
(* The matching engine process (Engine/src/engine.cpp, main.cpp,           *)
(* snapshot.cpp, redis_client.cpp) around one order book.  Its command     *)
(* thread reads commands from the Redis stream in batches, runs match() or *)
(* cancel(), publishes the events and acknowledges each command.  A second *)
(* thread saves snapshots; the process may crash and restart from the      *)
(* snapshot file, and the connection to Redis may lose a reply.            *)
(***************************************************************************)
EXTENDS OrderBook

CONSTANTS
    Command,            \* the entries that may be in the stream, with what each says
    ExternalLiquidity,  \* is redisForExternal_ set?
    BatchSize,          \* XREADGROUP COUNT
    MaxSaves,           \* bound: how often the snapshot file is written
    MaxFaults           \* bound: how many crashes and lost replies

ASSUME EngineAssumption ==
    /\ Command \subseteq [op: {"place", "cancel"}, order: OrderId, entry: Nat]
    /\ MaxSaves \in Nat
    /\ ExternalLiquidity \in BOOLEAN
    /\ BatchSize \in Nat \ {0}
    /\ MaxFaults \in Nat

NoBook  == [s \in Side |-> [p \in Price |-> <<>>]]

VARIABLES
    fate,       \* of each entry of the stream, as its consumer group sees it
    handled,    \* history: how often each entry was taken up
    batch,      \* what readGroup() returned and is not acknowledged yet
    stage,      \* where the command thread is in processCommand()
    external,   \* quantity of the synthetic trade with Binance
    sent,       \* how many trades of the order in hand are published
    published,  \* history: what the events say about each order
    snap,       \* the snapshot thread, and what it has read so far
    disk,       \* the snapshot file
    saves,      \* snapshots begun so far
    faults      \* crashes and lost replies so far

engineVars == <<fate, handled, batch, stage, external, sent, published, snap, disk, saves, faults>>
allVars    == <<vars, engineVars>>

Stage     == {"loop", "match", "accept", "trades", "cancel", "canceled", "ack"}
Outcome   == {"filled", "rejected", "canceled"}
Silence   == [accepted |-> FALSE, traded |-> 0, outside |-> FALSE, outcomes |-> <<>>]
Asleep    == [phase |-> "asleep", book |-> NoBook]
NoFile    == [state |-> "none", book |-> NoBook]

EngineTypeOK ==
    /\ TypeOK
    /\ fate \in [Command -> {"new", "delivered", "acked", "lost"}]
    /\ handled \in [Command -> Nat]
    /\ batch \in Seq(Command)
    /\ stage \in Stage
    /\ external \in 0..MaxQty
    /\ sent \in 0..Len(trades)
    /\ published \in [OrderId -> [accepted: BOOLEAN, traded: Nat, outside: BOOLEAN,
                                 outcomes: Seq(Outcome)]]
    /\ snap.phase \in {"asleep", "bids", "copied", "truncated"}
    /\ disk.state \in {"none", "empty", "whole"}
    /\ saves \in 0..MaxSaves
    /\ faults \in 0..MaxFaults

EngineInit ==
    /\ Init
    /\ fate = [c \in Command |-> "new"]
    /\ handled = [c \in Command |-> 0]
    /\ batch = <<>>
    /\ stage = "loop"
    /\ external = 0
    /\ sent = 0
    /\ published = [o \in OrderId |-> Silence]
    /\ snap = Asleep
    /\ disk = NoFile
    /\ saves = 0
    /\ faults = 0

-----------------------------------------------------------------------------
(* The command thread. *)

\* mu_ is held by snapshotState() until both sides are copied; a command
\* takes it to look its book up, but match() and cancel() run without it.
MutexFree == snap.phase # "bids"

InHandCommand == Head(batch)

\* XREADGROUP ... ">": entries never delivered before, oldest first.  Any
\* sequence may be waiting: a cancel ahead of its order, and the same PLACE in
\* two entries, since request and outbox worker may both send it.
Waiting ==
    {cmds \in BoundedSeq({c \in Command : fate[c] = "new"}, BatchSize) :
        cmds # <<>> /\ IsInjective(cmds)}

Mark(cmds, f) == [c \in Command |-> IF c \in Range(cmds) THEN f ELSE fate[c]]

ReadGroup ==
    /\ stage = "loop"
    /\ batch = <<>>
    /\ \E cmds \in Waiting :
         /\ batch' = cmds
         /\ fate' = Mark(cmds, "delivered")
    /\ UNCHANGED <<vars, handled, stage, external, sent, published, snap, disk, saves, faults>>

TakeUp(c) == handled' = [handled EXCEPT ![c] = @ + 1]

\* placeOrder(): the book is looked up under mu_, then match() starts.
BeginPlace ==
    /\ stage = "loop"
    /\ batch # <<>> /\ InHandCommand.op = "place"
    /\ MutexFree
    /\ Receive(InHandCommand.order)
    /\ TakeUp(InHandCommand)
    /\ stage' = "match"
    /\ UNCHANGED <<fate, batch, external, sent, published, snap, disk, saves, faults>>

Match ==
    /\ stage = "match"
    /\ (\E p \in Price : Execute(p) \/ PopFilled(p)) \/ Rest \/ Discard \/ Complete
    /\ UNCHANGED engineVars

\* A maker with nothing available, as only a restored book can hold: it is
\* popped, and then its id is read through the dangling reference - the entry
\* of that id may or may not leave the index.
DropExhausted ==
    /\ stage = "match" /\ pc = "match"
    /\ \E p \in Price :
         LET s == Opposite(Asked.side) IN
         /\ CanTrade(p)
         /\ Left(Head(book[s][p])) <= 0
         /\ book' = [book EXCEPT ![s][p] = Tail(@)]
         /\ index' \in {index, Forget(Head(book[s][p]).id)}
    /\ UNCHANGED <<terms, deliveries, taker, trades, pc, engineVars>>

\* The mark price is fresh and good enough for what is left of the order; it
\* is not asked whether the remainder already rests in the book.
FilledOutside(m) ==
    /\ ExternalLiquidity
    /\ taker.filled < Asked.quantity
    /\ taker.status # "rejected"
    /\ Crosses(Asked, m)

Reported == taker.filled + external

AskMarkPrice ==
    /\ stage = "match" /\ pc = "done"
    /\ \/ external' = 0
       \/ \E m \in Price : FilledOutside(m) /\ external' = Asked.quantity - taker.filled
    /\ stage' = "accept"
    /\ UNCHANGED <<vars, fate, handled, batch, sent, published, snap, disk, saves, faults>>

\* ORDER_ACCEPTED, for rejected orders as well.
PublishAccepted ==
    /\ stage = "accept"
    /\ published' = [published EXCEPT ![taker.id].accepted = TRUE]
    /\ stage' = "trades"
    /\ UNCHANGED <<vars, fate, handled, batch, external, sent, snap, disk, saves, faults>>

Traded(o, n, pub) == [pub EXCEPT ![o].traded = @ + n]

\* TRADE_EXECUTED, one event per trade.
PublishTrade ==
    /\ stage = "trades"
    /\ sent < Len(trades)
    /\ LET tr == trades[sent + 1]
       IN  published' = Traded(tr.maker, tr.quantity,
                               Traded(tr.taker, tr.quantity, published))
    /\ sent' = sent + 1
    /\ UNCHANGED <<vars, fate, handled, batch, stage, external, snap, disk, saves, faults>>

\* Mutant: an order that rests is reported canceled.
CanceledIfNotFilled ==
    IF Reported >= Asked.quantity     THEN <<"filled">>
    ELSE IF taker.status = "rejected" THEN <<"rejected">>
    ELSE <<"canceled">>

\* The outcome of the order: ORDER_FILLED, ORDER_REJECTED, ORDER_CANCELED, or
\* nothing when it rests.
OutcomeOf ==
    IF Reported >= Asked.quantity     THEN <<"filled">>
    ELSE IF taker.status = "rejected" THEN <<"rejected">>
    ELSE IF Rests(Asked)              THEN <<>>
    ELSE <<"canceled">>

\* The last trade, if there is an external one, and the outcome.
PublishOutcome ==
    /\ stage = "trades"
    /\ sent = Len(trades)
    /\ published' = Traded(taker.id, external,
                      [published EXCEPT ![taker.id].outcomes = @ \o OutcomeOf,
                                        ![taker.id].outside = external > 0])
    /\ Return
    /\ external' = 0
    /\ sent' = 0
    /\ stage' = "ack"
    /\ UNCHANGED <<fate, handled, batch, snap, disk, saves, faults>>

BeginCancel ==
    /\ stage = "loop"
    /\ batch # <<>> /\ InHandCommand.op = "cancel"
    /\ MutexFree
    /\ TakeUp(InHandCommand)
    /\ stage' = "cancel"
    /\ UNCHANGED <<vars, fate, batch, external, sent, published, snap, disk, saves, faults>>

Found(o) ==
    /\ index[o] # Nowhere
    /\ \E i \in 1..Len(book[index[o].side][index[o].price]) :
          book[index[o].side][index[o].price][i].id = o

\* cancel() found the order ...
RemoveResting ==
    /\ stage = "cancel"
    /\ Cancel(InHandCommand.order)
    /\ stage' = "canceled"
    /\ UNCHANGED <<fate, handled, batch, external, sent, published, snap, disk, saves, faults>>

\* ... or did not, and nothing is published.
NothingToCancel ==
    /\ stage = "cancel"
    /\ ~ Found(InHandCommand.order)
    /\ stage' = "ack"
    /\ UNCHANGED <<vars, fate, handled, batch, external, sent, published, snap, disk, saves, faults>>

PublishCanceled ==
    /\ stage = "canceled"
    /\ published' = [published EXCEPT ![InHandCommand.order].outcomes =
                                          Append(@, "canceled")]
    /\ stage' = "ack"
    /\ UNCHANGED <<vars, fate, handled, batch, external, sent, snap, disk, saves, faults>>

\* Mutant: the acknowledged command stays at the head of the batch.
AcknowledgeOnly ==
    /\ stage = "ack"
    /\ fate' = [fate EXCEPT ![InHandCommand] = "acked"]
    /\ stage' = "loop"
    /\ UNCHANGED <<vars, handled, batch, external, sent, published, snap, disk, saves, faults>>

\* XACK, whatever became of the command.
Acknowledge ==
    /\ stage = "ack"
    /\ fate' = [fate EXCEPT ![InHandCommand] = "acked"]
    /\ batch' = Tail(batch)
    /\ stage' = "loop"
    /\ UNCHANGED <<vars, handled, external, sent, published, snap, disk, saves, faults>>

-----------------------------------------------------------------------------
(* The snapshot thread. *)

\* snapshotState() under mu_: serializeState() walks the bids, then the asks,
\* while the command thread may be inside match().
CopyBids ==
    /\ snap.phase = "asleep" /\ saves < MaxSaves
    /\ saves' = saves + 1
    /\ snap' = [phase |-> "bids", book |-> [NoBook EXCEPT !["buy"] = book["buy"]]]
    /\ UNCHANGED <<vars, fate, handled, batch, stage, external, sent, published, disk, faults>>

CopyAsks ==
    /\ snap.phase = "bids"
    /\ snap' = [phase |-> "copied", book |-> [snap.book EXCEPT !["sell"] = book["sell"]]]
    /\ UNCHANGED <<vars, fate, handled, batch, stage, external, sent, published, disk, saves, faults>>

\* saveNow() opens the one snapshot file with ios::trunc ...
Truncate ==
    /\ snap.phase = "copied"
    /\ disk' = [state |-> "empty", book |-> NoBook]
    /\ snap' = [snap EXCEPT !.phase = "truncated"]
    /\ UNCHANGED <<vars, fate, handled, batch, stage, external, sent, published, saves, faults>>

\* ... and writes the new contents.
Write ==
    /\ snap.phase = "truncated"
    /\ disk' = [state |-> "whole", book |-> snap.book]
    /\ snap' = Asleep
    /\ UNCHANGED <<vars, fate, handled, batch, stage, external, sent, published, saves, faults>>

-----------------------------------------------------------------------------
(* Crash and restart. *)

\* Mutant: restoreState() fills the queues and forgets the index.
NoIndex(bk) == [o \in OrderId |-> Nowhere]

\* restoreState() files every order it reads under its side and price.
IndexOf(bk) ==
    [o \in OrderId |->
        LET places == {x \in Place : \E i \in 1..Len(bk[x.side][x.price]) :
                                        bk[x.side][x.price][i].id = o}
        IN  IF places = {} THEN Nowhere ELSE CHOOSE x \in places : TRUE]

\* Mutant: after a restart the unacknowledged commands are read again.
RereadPending(c) == IF fate[c] = "delivered" THEN "new" ELSE fate[c]

\* What was delivered and not acknowledged stays in the pending list of the
\* group, which ">" never reads.
AfterRestart(c) == IF fate[c] = "delivered" THEN "lost" ELSE fate[c]

\* The process starts with this book and an empty command thread.
StartWith(bk) ==
    /\ book' = bk
    /\ index' = IndexOf(bk)
    /\ taker' = NoOrder /\ trades' = <<>> /\ pc' = "idle"
    /\ batch' = <<>> /\ stage' = "loop" /\ external' = 0 /\ sent' = 0
    /\ snap' = Asleep
    /\ UNCHANGED <<terms, deliveries, handled, published>>

\* loadLatest(): no file, or one cut off in the middle, gives an empty book.
CrashRestart ==
    /\ faults < MaxFaults
    /\ faults' = faults + 1
    /\ fate' = [c \in Command |-> AfterRestart(c)]
    /\ StartWith(disk.book)
    /\ UNCHANGED <<disk, saves>>

\* SIGTERM between two batches: the book is saved and read back.
Shutdown ==
    /\ stage = "loop" /\ batch = <<>> /\ snap.phase = "asleep" /\ saves < MaxSaves
    /\ saves' = saves + 1
    /\ disk' = [state |-> "whole", book |-> book]
    /\ StartWith(book)
    /\ UNCHANGED <<fate, faults>>

\* The connection drops after Redis has delivered a batch: executeWithRetry()
\* reconnects and sends XREADGROUP again, which returns later commands.
LoseReply ==
    /\ faults < MaxFaults
    /\ faults' = faults + 1
    /\ stage = "loop" /\ batch = <<>>
    /\ \E cmds \in Waiting : fate' = Mark(cmds, "lost")
    /\ UNCHANGED <<vars, handled, batch, stage, external, sent, published, snap, disk, saves>>

-----------------------------------------------------------------------------
CommandThread ==
    \/ BeginPlace \/ Match \/ DropExhausted \/ AskMarkPrice
    \/ PublishAccepted \/ PublishTrade \/ PublishOutcome
    \/ BeginCancel \/ RemoveResting \/ NothingToCancel \/ PublishCanceled
    \/ Acknowledge

SnapshotThread == CopyBids \/ CopyAsks \/ Truncate \/ Write

EngineNext ==
    \/ ReadGroup
    \/ CommandThread
    \/ SnapshotThread
    \/ CrashRestart
    \/ Shutdown
    \/ LoseReply

\* Both threads run; commands need not come and the next snapshot need not
\* start, but one that has started is finished.  Strong fairness, because mu_
\* is taken by the snapshot thread now and then: it sleeps 900 seconds between
\* two snapshots, and the command thread gets the mutex in between.
EngineFairness ==
    /\ SF_allVars(CommandThread)
    /\ WF_allVars(CopyAsks \/ Truncate \/ Write)

EngineSpec == EngineInit /\ [][EngineNext]_allVars /\ EngineFairness

-----------------------------------------------------------------------------
(* What the engine promises. *)

\* What the events published so far say about an order: does it rest?
SaidToRest(o) ==
    /\ published[o].accepted
    /\ Rests(terms[o])
    /\ published[o].outcomes = <<>>
    /\ published[o].traded < terms[o].quantity

BookAgrees(o) ==
    /\ SaidToRest(o) <=> Found(o)
    /\ \A s \in Side, p \in Price : \A i \in 1..Len(book[s][p]) :
         book[s][p][i].id = o => book[s][p][i].filled = published[o].traded

\* Between two commands, the events published so far describe the book: an
\* order is in it just when they say so, filled as far as the trades say -
\* whatever other orders arrived twice and rest, trade and leave twice.
\* (Until the process crashes; not for an order filled by Binance, nor for one
\* whose own PLACE arrived twice, which the engine takes for two orders.)
EventsTellTheBook ==
    stage = "loop" /\ faults = 0 =>
        \A o \in OrderId :
            deliveries[o] <= 1 /\ ~ published[o].outside => BookAgrees(o)

\* "Engine will fallback to Binance mark price when book empty" (main.cpp:76).
ExternalOnlyWhenBookEmpty == external > 0 => book = NoBook

\* An order whose outcome has been announced is never traded or reported
\* again - fills that arrive later would be booked on a closed order.  (Under
\* the same three provisos: the second arrival of a PLACE starts it anew.)
OutcomesAreFinal ==
    [][\A o \in OrderId :
         deliveries[o] <= 1 /\ published[o].outcomes # <<>>
         /\ ~ published[o].outside /\ faults = 0 =>
            /\ published'[o].traded = published[o].traded
            /\ published'[o].outcomes = published[o].outcomes]_allVars

\* No entry of the stream is carried out twice, also across crashes: a place
\* repeated would put a second order in the book, a cancel repeated is not
\* harmless to those who count ORDER_CANCELED events.
NeverTwice == \A c \in Command : handled[c] <= 1

\* The command thread comes back for more: every batch it has read is answered
\* to the end, unless a crash takes the batch away.
EveryBatchAnswered == batch # <<>> ~> batch = <<>>
=============================================================================
