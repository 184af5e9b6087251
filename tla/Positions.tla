------------------------------- MODULE Positions -------------------------------
(***************************************************************************)
(* The position of one user in one market: the DB writer's upsertPosition()*)
(* applies fills to it, the mark price updater (markPriceUpdater.ts) puts  *)
(* the reference price of module PriceFeed on it, and the close call       *)
(* (routes/positions.ts) sends a market order for what it has read.  The   *)
(* engine does not look at reduceOnly.                                     *)
(***************************************************************************)
EXTENDS PriceFeed, Sequences, FiniteSets, SequencesExt

CONSTANTS
    Closer,      \* bound: calls that close the position, each once
    Poll,        \* bound: polls of the updater that may run at a time
    MaxLots, MaxFills,  \* bounds: fills of the user's other orders
    MaxFaults    \* bound: restarts of the API process and failing polls

Other == "other"   \* the order of a fill that is not of a close call

ASSUME PositionsAssumption ==
    MaxLots \in Nat \ {0} /\ MaxFills \in Nat /\ MaxFaults \in Nat /\ Other \notin Closer

VARIABLES
    position,   \* the open position; its mark price, 0 if that is of a trade
    closes,     \* the close calls and their orders
    fills,      \* published and not applied yet; left is history
    polls,      \* what each poll of the updater has found
    since,      \* history: the sums of the signed fills since the position was opened
    disturbed,  \* history: close calls beside which another fill was applied
    overshot,   \* history: close calls whose order did more than close
    others, faults

calls == <<closes, others>>
vars  == <<feed, position, closes, fills, polls, since, disturbed, overshot, others, faults>>

Net == IF since = <<>> THEN 0 ELSE Last(since)

NoPosition == [side |-> "none", lots |-> 0, mark |-> 0]
NoClose    == [at |-> "idle", side |-> "none", lots |-> 0]
NoPoll     == [at |-> "idle", price |-> 0]

Signed(side, n) == IF side \in {"buy", "long"} THEN n ELSE -n
Opens(side)     == IF side = "buy" THEN "long" ELSE "short"

Position == [side: {"long", "short"}, lots: Nat \ {0}, mark: 0..now]
Closing  == [at: {"idle", "send", "sent", "done"}, side: {"none", "buy", "sell"}, lots: Nat]
FillOf   == [of: Closer \union {Other}, side: {"buy", "sell"}, lots: Nat \ {0}, left: Nat]

PositionsTypeOK ==
    /\ FeedTypeOK
    /\ position \in Position \union {NoPosition}
    /\ closes \in [Closer -> Closing]
    /\ \A k \in Closer :
          closes[k].at \in {"send", "sent"} => closes[k].side # "none" /\ closes[k].lots > 0
    /\ fills \in Seq(FillOf)
    /\ polls \in [Poll -> [at: {"idle", "select", "write"}, price: 0..now]]
    /\ since \in Seq(Int)
    /\ disturbed \union overshot \subseteq Closer
    /\ others \in 0..MaxFills /\ faults \in 0..MaxFaults

Init ==
    /\ FeedInit
    /\ position = NoPosition
    /\ closes = [k \in Closer |-> NoClose]
    /\ fills = <<>>
    /\ polls = [t \in Poll |-> NoPoll]
    /\ since = <<>> /\ disturbed = {} /\ overshot = {}
    /\ others = 0 /\ faults = 0

\* A close call whose order is over, or was never sent.
Over(c) == [at |-> "done", side |-> c.side, lots |-> 0]

-----------------------------------------------------------------------------
(* POST /positions/:id/close *)

\* The position is read; it must be open.
ReadForClose(k) ==
    /\ closes[k] = NoClose /\ position # NoPosition
    /\ closes' = [closes EXCEPT ![k] =
                     [at |-> "send", side |-> IF position.side = "long" THEN "sell" ELSE "buy",
                      lots |-> position.lots]]
    /\ UNCHANGED <<feed, position, fills, polls, since, disturbed, overshot, others, faults>>

\* Mutant: the command is sent again after a late answer.
SendTwice(k) ==
    /\ closes[k].at = "send"
    /\ closes' = [closes EXCEPT ![k].at = "sent", ![k].lots = 2 * closes[k].lots]
    /\ UNCHANGED <<feed, position, fills, polls, since, disturbed, overshot, others, faults>>

\* The order is inserted and its command sent.
SendClose(k) ==
    /\ closes[k].at = "send"
    /\ closes' = [closes EXCEPT ![k].at = "sent"]
    /\ UNCHANGED <<feed, position, fills, polls, since, disturbed, overshot, others, faults>>

\* A statement fails between the insert and the command: no one sends it later.
LoseClose(k) ==
    /\ closes[k].at = "send"
    /\ closes' = [closes EXCEPT ![k] = Over(@)]
    /\ UNCHANGED <<feed, position, fills, polls, since, disturbed, overshot, others, faults>>

-----------------------------------------------------------------------------
(* The engine, seen from outside. *)

\* A close order that traded n lots, or none because there is no one to trade
\* with.
Traded(c, n) == IF n \in {0, c.lots} THEN Over(c) ELSE [c EXCEPT !.lots = @ - n]

\* A trade of a close order; the order is over with its last lot, or when the
\* engine finds no one to trade with.
FillClose(k) ==
    /\ closes[k].at = "sent"
    /\ \E n \in 0..closes[k].lots :
          /\ fills' = IF n = 0 THEN fills
                      ELSE Append(fills, [of |-> k, side |-> closes[k].side, lots |-> n,
                                            left |-> closes[k].lots - n])
          /\ closes' = [closes EXCEPT ![k] = Traded(@, n)]
    /\ UNCHANGED <<feed, position, polls, since, disturbed, overshot, others, faults>>

\* A trade of another order of the user.
FillOther ==
    /\ others < MaxFills /\ others' = others + 1
    /\ \E side \in {"buy", "sell"}, n \in 1..MaxLots :
          fills' = Append(fills, [of |-> Other, side |-> side, lots |-> n, left |-> 0])
    /\ UNCHANGED <<feed, position, closes, polls, since, disturbed, overshot, faults>>

-----------------------------------------------------------------------------
(* The DB writer: upsertPosition(), whose transaction no other writer of the *)
(* quantity disturbs. *)

\* Mutant: a fill of the other side is added as well.
Added(fill) == [side |-> IF position = NoPosition THEN Opens(fill.side) ELSE position.side,
                lots |-> position.lots + fill.lots, mark |-> 0]

\* Mutant: a position of no lots stays open.
Emptied(fill) ==
    IF position = NoPosition \/ position.side = Opens(fill.side)
    THEN [side |-> Opens(fill.side), lots |-> position.lots + fill.lots, mark |-> 0]
    ELSE IF position.lots < fill.lots THEN NoPosition
    ELSE [side |-> position.side, lots |-> position.lots - fill.lots, mark |-> 0]

\* An opposite fill reduces; one that is larger than the position closes it,
\* and what is too much is dropped.
Updated(fill) ==
    IF position = NoPosition \/ position.side = Opens(fill.side)
    THEN [side |-> Opens(fill.side), lots |-> position.lots + fill.lots, mark |-> 0]
    ELSE IF position.lots <= fill.lots THEN NoPosition
    ELSE [side |-> position.side, lots |-> position.lots - fill.lots, mark |-> 0]

ApplyFill ==
    /\ fills # <<>>
    /\ fills' = Tail(fills)
    /\ LET fill == Head(fills)
           opposes == position # NoPosition /\ position.side # Opens(fill.side)
       IN  /\ position' = Updated(fill)
           /\ since' = IF position' = NoPosition THEN <<>>
                       ELSE Append(since, Net + Signed(fill.side, fill.lots))
           /\ disturbed' = disturbed \union {k \in Closer \ {fill.of} : closes[k] # NoClose}
           /\ overshot' = IF fill.of \in Closer /\ ~(opposes /\ fill.lots <= position.lots)
                          THEN overshot \union {fill.of} ELSE overshot
    /\ UNCHANGED <<feed, calls, polls, faults>>

\* A fill at the mark price is lost with its transaction (module Settlement).
DropFill ==
    /\ fills # <<>>
    /\ fills' = Tail(fills)
    /\ UNCHANGED <<feed, calls, position, polls, since, disturbed, overshot, faults>>

-----------------------------------------------------------------------------
(* The mark price updater: a timer starts polls, whether or not the one      *)
(* before has ended. *)

\* Redis is asked; a missing or stale price is skipped.
ReadKey(t) ==
    /\ polls[t].at = "idle"
    /\ Fresh(key.price)
    /\ polls' = [polls EXCEPT ![t] = [at |-> "select", price |-> key.price]]
    /\ UNCHANGED <<feed, calls, position, fills, since, disturbed, overshot, faults>>

\* Are there open positions?
SelectOpen(t) ==
    /\ polls[t].at = "select"
    /\ polls' = [polls EXCEPT ![t] = IF position = NoPosition THEN NoPoll ELSE [@ EXCEPT !.at = "write"]]
    /\ UNCHANGED <<feed, calls, position, fills, since, disturbed, overshot, faults>>

\* Mutant: only a position without a mark price gets one.
WriteFirst(t) ==
    /\ polls[t].at = "write"
    /\ position' = IF position = NoPosition \/ position.mark # 0 THEN position
                   ELSE [position EXCEPT !.mark = polls[t].price]
    /\ polls' = [polls EXCEPT ![t] = NoPoll]
    /\ UNCHANGED <<feed, calls, fills, since, disturbed, overshot, faults>>

\* The price that was read before is written on what is open now.
WriteMark(t) ==
    /\ polls[t].at = "write"
    /\ position' = IF position = NoPosition THEN position
                   ELSE [position EXCEPT !.mark = polls[t].price]
    /\ polls' = [polls EXCEPT ![t] = NoPoll]
    /\ UNCHANGED <<feed, calls, fills, since, disturbed, overshot, faults>>

\* A statement of a poll fails: the error is logged.
FailPoll(t) ==
    /\ polls[t].at # "idle"
    /\ faults < MaxFaults /\ faults' = faults + 1
    /\ polls' = [polls EXCEPT ![t] = NoPoll]
    /\ UNCHANGED <<feed, calls, position, fills, since, disturbed, overshot>>

\* The API process restarts: close calls and polls die, events are lost.
Crash ==
    /\ faults < MaxFaults /\ faults' = faults + 1
    /\ closes' = [k \in Closer |-> IF closes[k].at = "send" THEN Over(closes[k])
                                          ELSE closes[k]]
    /\ fills' = <<>>
    /\ polls' = [t \in Poll |-> NoPoll]
    /\ UNCHANGED <<feed, position, since, disturbed, overshot, others>>

-----------------------------------------------------------------------------
Updater(t) == ReadKey(t) \/ SelectOpen(t) \/ WriteMark(t)

Next ==
    \/ FeedNext /\ UNCHANGED <<position, closes, fills, polls, since, disturbed, overshot, others, faults>>
    \/ \E k \in Closer : ReadForClose(k) \/ SendClose(k) \/ LoseClose(k) \/ FillClose(k)
    \/ FillOther
    \/ ApplyFill \/ DropFill
    \/ \E t \in Poll : Updater(t) \/ FailPoll(t)
    \/ Crash

\* The timer fires again and again and the promises of a poll are settled, so
\* are those of the writer.
Spec == Init /\ [][Next]_vars /\ WF_vars(ApplyFill \/ DropFill) /\ \A t \in Poll : WF_vars(Updater(t))

-----------------------------------------------------------------------------
(* What a position promises. *)

\* An open position is the sum of the fills since it was opened, none of which
\* has turned it over on the way: the sum was never on another side.
PositionIsNet ==
    /\ position = NoPosition <=> since = <<>>
    /\ position # NoPosition => Net = Signed(position.side, position.lots)
    /\ \A i \in 1..Len(since) : IF position.side = "long" THEN since[i] > 0 ELSE since[i] < 0

\* Closing a position does no more than that: the order of a close call never
\* opens an opposite position or trades more than there is, unless another
\* fill of the user - a second close call's, say - is applied after it has read
\* the position.
CloseOnlyCloses == overshot \subseteq disturbed

\* However polls overlap and write older prices over newer ones, a price that
\* stays in Redis ends up on the position that stays open.
MarkCatchesUp ==
    \A p \in 1..MaxClock :
        <>[](key.price = p /\ Fresh(p) /\ position # NoPosition) => <>[](position.mark = p)
=============================================================================
