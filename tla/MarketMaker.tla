------------------------------ MODULE MarketMaker ------------------------------
(***************************************************************************)
(* The market maker (market_maker/src): quote cycles that write straight   *)
(* into the engine's command stream, and a shutdown that cancels what the  *)
(* maps of active quotes name.  A timer starts the cycles whether or not   *)
(* the one before has ended.  The engine carries commands out in the order *)
(* in which Redis takes them; users fill quotes, which the market maker is *)
(* never told.  The price feed is in module PriceFeed.                     *)
(***************************************************************************)
EXTENDS Integers, Sequences, FiniteSets, SequencesExt, FiniteSetsExt

CONSTANTS
    Reference,   \* reference prices the feed may deliver
    SpreadBps, LevelBps, Levels,
    TickSize,
    Slot,        \* bound: quote cycles that may run at a time
    RestOrder,   \* orders of the account that were placed over REST
    RestAt,      \* the side and price of each, under which orderManager keeps it
    MaxQuotes,   \* bounds: quotes made,
    MaxFaults    \*   calls that throw, processes that are killed, overlapping cycles

Stop == "stop"      \* the task that shutdown() is

ASSUME MarketMakerAssumption ==
    /\ Reference \subseteq Nat \ {0}
    /\ SpreadBps \in Nat /\ LevelBps \in Nat /\ Levels \in Nat /\ TickSize \in Nat \ {0}
    /\ MaxQuotes \in Nat /\ MaxFaults \in Nat /\ Stop \notin Slot

VARIABLES
    stage,      \* how far start() has come
    stopping,   \* how far shutdown() has come
    price,      \* the reference price; NoPrice if there is none or it is stale
    active,     \* activeBids and activeAsks: quote -> id of its order
    tasks,      \* the quote cycles, and shutdown: what is left to do, the call awaited
    made,       \* made[id] is the quote of order id
    book,       \* ids of the market maker's orders in the engine's book
    rest,       \* the orders of RestOrder that are open; those this process was
                \*   shown; those in the maps of orderManager
    faults, overlapped, lost, selfTraded,   \* history; lost: see Lose
    caught      \*   was a cycle running when the signal came?

vars == <<stage, stopping, price, active, tasks, made, book, rest,
          faults, overlapped, lost, selfTraded, caught>>

process == <<stage, stopping, price>>
history == <<faults, overlapped, lost, selfTraded, caught>>

Task    == Slot \union {Stop}
NoPrice == 0
NoCall  == [kind |-> "none", id |-> 0, state |-> "none"]
Idle    == [at |-> "idle", ref |-> NoPrice, todo |-> <<>>, call |-> NoCall]
NoMap   == [k \in {} |-> 0]
Quote   == [side: {"buy", "sell"}, price: Int]
Call    == [kind: {"place", "cancel"}, id: 1..Len(made), state: {"sent", "done", "failed"}]
Cycle   == [at: {"buy", "sell", "place"}, ref: Reference, todo: Seq(Quote), call: Call]
Drop    == [at: {"idle", "drop"}, ref: {NoPrice}, todo: Seq(1..Len(made)),
            call: Call \union {NoCall}]

\* Types, and every entry of the maps stands at the price and side of its order.
MakerTypeOK ==
    /\ stage \in {"down", "login", "reconcile", "waiting", "quoting"}
    /\ stopping \in {"no", "injector", "rest", "exit", "stopped"}
    /\ price \in Reference \union {NoPrice}
    /\ made \in Seq(Quote) /\ book \union lost \subseteq 1..Len(made)
    /\ active \in [DOMAIN active -> 1..Len(made)]
    /\ \A q \in DOMAIN active : made[active[q]] = q
    /\ DOMAIN tasks = Task
    /\ \A t \in Slot : tasks[t] \in Cycle \union {Idle}
    /\ tasks[Stop] \in Drop
    /\ rest \in [open: SUBSET RestOrder, shown: SUBSET RestOrder, known: SUBSET RestOrder]
    /\ faults \in 0..MaxFaults
    /\ overlapped \in BOOLEAN /\ selfTraded \in BOOLEAN /\ caught \in BOOLEAN

-----------------------------------------------------------------------------
(* Quotes.  Prices are exact here, in units of 1/20000. *)

RoundToTick(x) == ((2 * x + TickSize * 20000) \div (2 * TickSize * 20000)) * TickSize

BidPrice(ref, i) == RoundToTick(ref * 20000 - ref * SpreadBps - 2 * ref * LevelBps * i)
AskPrice(ref, i) == RoundToTick(ref * 20000 + ref * SpreadBps + 2 * ref * LevelBps * i)

\* calculateQuotes(): the bids, then the asks, level by level ...
CalculateQuotes(ref) ==
    [i \in 1..Levels |-> [side |-> "buy", price |-> BidPrice(ref, i)]]
        \o [i \in 1..Levels |-> [side |-> "sell", price |-> AskPrice(ref, i)]]

\* ... of which a price that rounds to nothing is no quote.
Valid(q) == q.price > 0

Wanted(ref) == {q \in Range(CalculateQuotes(ref)) : Valid(q)}

-----------------------------------------------------------------------------
(* updateQuotes(): cancel stale bids, stale asks, then place what the maps  *)
(* do not name.  Between two awaits it runs alone.                          *)

\* Mutant: stale asks are left where they are.
StaleBids(side, ref, map) == {q \in DOMAIN map : q.side = "buy" /\ side = "buy" /\ q \notin Wanted(ref)}

Stale(side, ref, map) == {q \in DOMAIN map : q.side = side /\ q \notin Wanted(ref)}

\* What is left to place from the first quote on that map does not name.
Unnamed(todo, map) ==
    LET missing == {i \in 1..Len(todo) : Valid(todo[i]) /\ todo[i] \notin DOMAIN map}
    IN  IF missing = {} THEN <<>> ELSE SubSeq(todo, Min(missing), Len(todo))

Await(kind, id) == [kind |-> kind, id |-> id, state |-> "sent"]

\* The cycle t in phase at, with these maps, up to its next await.
Proceed(t, at, ref, todo, map) ==
    LET stale(side) == Stale(side, ref, map)
        cancelling(side) == /\ \E q \in stale(side) :
                                  tasks' = [tasks EXCEPT ![t] =
                                      [at |-> side, ref |-> ref, todo |-> todo,
                                       call |-> Await("cancel", map[q])]]
                            /\ UNCHANGED made
        left == Unnamed(todo, map)
    IN  \/ at = "buy" /\ cancelling("buy")
        \/ /\ at = "sell" \/ (at = "buy" /\ stale("buy") = {})
           /\ cancelling("sell")
        \/ /\ at = "buy" => stale("buy") = {}
           /\ at \in {"buy", "sell"} => stale("sell") = {}
           /\ IF left = <<>>
              THEN tasks' = [tasks EXCEPT ![t] = Idle] /\ UNCHANGED made
              ELSE /\ Len(made) < MaxQuotes
                   /\ made' = Append(made, Head(left))
                   /\ tasks' = [tasks EXCEPT ![t] =
                          [at |-> "place", ref |-> ref, todo |-> Tail(left),
                           call |-> Await("place", Len(made) + 1)]]

\* The bound on what goes wrong, overlapping counted as one.
MayFail == faults + (IF overlapped THEN 1 ELSE 0) < MaxFaults

\* The timer starts a cycle, also while another one waits.
Tick(t) ==
    /\ stage = "quoting" /\ stopping = "no"
    /\ price # NoPrice
    /\ t \in Slot /\ tasks[t] = Idle
    /\ Proceed(t, "buy", price, CalculateQuotes(price), active)
    /\ IF \E s \in Slot : tasks[s] # Idle THEN (overlapped \/ MayFail) /\ overlapped' = TRUE
                                          ELSE UNCHANGED overlapped
    /\ UNCHANGED <<process, active, book, rest, faults, lost, selfTraded, caught>>

\* The engine matches a quote with one of the market maker's own when it
\* meets one; else the quote rests.
Rest(id) ==
    LET q == made[id]
        crossed == {m \in book : /\ made[m].side # q.side
                                 /\ IF q.side = "buy" THEN made[m].price <= q.price
                                                      ELSE made[m].price >= q.price}
    IN  IF crossed = {}
        THEN book' = book \union {id} /\ UNCHANGED selfTraded
        ELSE book' \in {book \ {m} : m \in crossed} /\ selfTraded' = TRUE

\* Redis takes the command of task t ...
Deliver(t) ==
    /\ tasks[t].call.state = "sent"
    /\ tasks' = [tasks EXCEPT ![t].call.state = "done"]
    /\ IF tasks[t].call.kind = "place"
       THEN Rest(tasks[t].call.id)
       ELSE book' = book \ {tasks[t].call.id} /\ UNCHANGED selfTraded
    /\ UNCHANGED <<process, active, made, rest, faults, overlapped, lost, caught>>

\* The market maker loses sight of these orders: nothing names them any more.
Lose(ids) == lost' = lost \union ids

\* ... or throws: the injector logs it and goes on.  An order that was to be
\* cancelled is lost.
Throw(t) ==
    /\ tasks[t].call.state = "sent" /\ MayFail
    /\ faults' = faults + 1
    /\ tasks' = [tasks EXCEPT ![t].call.state = "failed"]
    /\ Lose(IF tasks[t].call.kind = "cancel" THEN {tasks[t].call.id} ELSE {})
    /\ UNCHANGED <<process, active, made, book, rest, overlapped, selfTraded, caught>>

Without(q)  == Restrict(active, DOMAIN active \ {q})
With(q, id) == [k \in DOMAIN active \union {q} |-> IF k = q THEN id ELSE active[k]]

\* Mutant: the order that was just placed is not entered.
EnterNothing(call) == IF call.kind = "cancel" THEN Without(made[call.id]) ELSE active

\* Mutant: an ask is entered among the bids.
EnterAsBid(call) ==
    IF call.kind = "cancel" THEN Without(made[call.id])
    ELSE IF call.state = "done" THEN With([made[call.id] EXCEPT !.side = "buy"], call.id)
    ELSE active

\* The maps after the await: a cancelled quote is deleted by its price, even
\* if the cancel failed; a placed one is entered.
Entered(call) ==
    IF call.kind = "cancel" THEN Without(made[call.id])
    ELSE IF call.state = "done" THEN With(made[call.id], call.id)
    ELSE active

\* A cycle goes on.  The entry it writes or deletes may by then be that of
\* another cycle's order, which is lost; so is what it places from now on, if
\* the copy that shutdown cancels has been made.
Continue(t) ==
    /\ t \in Slot /\ tasks[t].call.state \in {"done", "failed"}
    /\ active' = Entered(tasks[t].call)
    /\ Proceed(t, tasks[t].at, tasks[t].ref, tasks[t].todo, active')
    /\ Lose((Range(active) \ (Range(active') \union {tasks[t].call.id}))
              \union {id \in 1..Len(made') : id > Len(made) /\ stopping # "no"})
    /\ UNCHANGED <<process, book, rest, faults, overlapped, selfTraded, caught>>

-----------------------------------------------------------------------------
(* start() *)

Boot ==
    /\ stage = "down"
    /\ stage' = "login"
    /\ UNCHANGED <<stopping, price, active, tasks, made, book, rest, history>>

\* What a process leaves when it ends: its maps and calls are gone, the
\* orders are not.
Gone ==
    /\ stage' = "down" /\ price' = NoPrice
    /\ active' = NoMap
    /\ tasks' = [t \in Task |-> Idle]
    /\ rest' = [rest EXCEPT !.shown = {}, !.known = {}]
    /\ Lose(book)
    /\ UNCHANGED <<made, book, overlapped, selfTraded, caught>>

\* authenticate() and getMarket().
Login ==
    /\ stage = "login"
    /\ stage' = "reconcile"
    /\ UNCHANGED <<stopping, price, active, tasks, made, book, rest, history>>

\* If either throws - an error status, no answer, ten seconds - main() exits.
LoginFails ==
    /\ stage = "login" /\ MayFail
    /\ faults' = faults + 1
    /\ Gone
    /\ stopping' = "no"

\* One order of rows for each side and price there is among them.
OneAtEach(kept, rows) ==
    /\ \A o \in rows : \E q \in kept : RestAt[q] = RestAt[o]
    /\ \A o, q \in kept : RestAt[q] = RestAt[o] => q = o

\* reconcile(): the API lists the newest hundred orders of the account, of every
\* status and market, and an open order may not be among them.  A map has one
\* entry for a price, and a later row overwrites it.  An error is logged.  Then
\* the feed starts.
Reconcile ==
    /\ stage = "reconcile"
    /\ stage' = "waiting"
    /\ \/ /\ \E rows \in SUBSET rest.open : \E kept \in SUBSET rows :
               /\ OneAtEach(kept, rows)
               /\ rest' = [rest EXCEPT !.shown = rows, !.known = kept]
          /\ UNCHANGED faults
       \/ MayFail /\ faults' = faults + 1 /\ UNCHANGED rest
    /\ UNCHANGED <<stopping, price, active, tasks, made, book,
                   overlapped, lost, selfTraded, caught>>

\* checkPrice(), every second until there is a fresh price.
CheckPrice ==
    /\ stage = "waiting" /\ stopping = "no"
    /\ price # NoPrice
    /\ stage' = "quoting"
    /\ UNCHANGED <<stopping, price, active, tasks, made, book, rest, history>>

\* The feed's callback sets the price of the market.
SetPrice ==
    /\ stage \in {"waiting", "quoting"}
    /\ price' \in Reference
    /\ UNCHANGED <<stage, stopping, active, tasks, made, book, rest, history>>

\* isPriceStaleFor(): nothing has come for priceStaleMs.
GetStale ==
    /\ price # NoPrice
    /\ price' = NoPrice
    /\ UNCHANGED <<stage, stopping, active, tasks, made, book, rest, history>>

-----------------------------------------------------------------------------
(* shutdown() *)

NextDrop(ids) ==
    IF ids = <<>> THEN [Idle EXCEPT !.at = "drop"]
    ELSE [at |-> "drop", ref |-> NoPrice, todo |-> Tail(ids), call |-> Await("cancel", Head(ids))]

\* Mutant: cancelAll() takes the bids only.
BidsOnly == {active[q] : q \in {k \in DOMAIN active : k.side = "buy"}}

ToCancel == Range(active)

\* Orders a cycle is placing, not in the maps yet.
Placing == {tasks[t].call.id : t \in {s \in Task : tasks[s].call.kind = "place"}}

\* The first signal: cancelAll() starts with a copy of the maps.
Signal ==
    /\ stage # "down" /\ stopping = "no"
    /\ stopping' = "injector"
    /\ tasks' = [tasks EXCEPT ![Stop] = NextDrop(SetToSeq(ToCancel))]
    /\ Lose(Placing)
    /\ caught' = (\E t \in Slot : tasks[t] # Idle)
    /\ UNCHANGED <<stage, price, active, made, book, rest,
                   faults, overlapped, selfTraded>>

\* Mutant: a failed cancel is tried again for ever.
DropAgain ==
    /\ tasks[Stop].call.state \in {"done", "failed"}
    /\ tasks' = [tasks EXCEPT ![Stop].call.state = "sent"]
    /\ UNCHANGED <<process, active, made, book, rest, history>>

DropNext ==
    /\ tasks[Stop].call.state \in {"done", "failed"}
    /\ tasks' = [tasks EXCEPT ![Stop] = NextDrop(tasks[Stop].todo)]
    /\ UNCHANGED <<process, active, made, book, rest, history>>

\* The maps are cleared, whatever a running cycle has entered since the signal.
ClearMaps ==
    /\ stopping = "injector" /\ tasks[Stop].call = NoCall
    /\ stopping' = "rest"
    /\ active' = NoMap
    /\ UNCHANGED <<stage, price, tasks, made, book, rest, history>>

\* orderManager.cancelAll(): what the maps name, all at once, errors logged.
CancelRest ==
    /\ stopping = "rest"
    /\ stopping' = "exit"
    /\ \/ /\ rest' = [rest EXCEPT !.open = rest.open \ rest.known, !.known = {}]
          /\ UNCHANGED faults
       \/ /\ MayFail /\ faults' = faults + 1
          /\ \E failed \in SUBSET rest.known \ {{}} :
                rest' = [rest EXCEPT !.open = rest.open \ (rest.known \ failed),
                                     !.known = {}]
    /\ UNCHANGED <<stage, price, active, tasks, made, book,
                   overlapped, lost, selfTraded, caught>>

\* Feed and health server are closed and the process exits, running cycles with it.
Exit ==
    /\ stopping = "exit"
    /\ stopping' = "stopped"
    /\ tasks' = [t \in Task |-> Idle]
    /\ UNCHANGED <<stage, price, active, made, book, rest, history>>

\* A crash, or a second signal: shutdown() returns at once then, and the
\* process exits in the middle of the first.
Kill ==
    /\ stage # "down" /\ stopping # "stopped" /\ MayFail
    /\ faults' = faults + 1
    /\ stopping' = "no"
    /\ Gone

\* A quote is consumed by a user's order.
Fill ==
    /\ \E id \in book : book' = book \ {id}
    /\ UNCHANGED <<process, active, tasks, made, rest, history>>

\* So is an order placed over REST.
FillRest ==
    /\ \E o \in rest.open : rest' = [rest EXCEPT !.open = rest.open \ {o}]
    /\ UNCHANGED <<process, active, tasks, made, book, history>>

-----------------------------------------------------------------------------
Init ==
    /\ stage = "down" /\ stopping = "no" /\ price = NoPrice
    /\ active = NoMap
    /\ tasks = [t \in Task |-> Idle]
    /\ made = <<>> /\ book = {}
    /\ rest \in [open: SUBSET RestOrder, shown: {{}}, known: {{}}]
    /\ faults = 0 /\ overlapped = FALSE /\ lost = {} /\ selfTraded = FALSE /\ caught = FALSE

Startup  == Boot \/ Login \/ LoginFails \/ Reconcile \/ CheckPrice
Shutdown == Deliver(Stop) \/ Throw(Stop) \/ DropNext \/ ClearMaps \/ CancelRest \/ Exit

Next ==
    \/ stopping # "stopped" /\ (Startup \/ SetPrice \/ GetStale)
    \/ \E t \in Slot : Tick(t) \/ Deliver(t) \/ Throw(t) \/ Continue(t)
    \/ Signal \/ Shutdown \/ Kill
    \/ Fill \/ FillRest

\* Promises are settled: Redis answers in the end (the client waits for it),
\* and so does a REST call, with its timeout.
Spec == Init /\ [][Next]_vars /\ WF_vars(Shutdown)

-----------------------------------------------------------------------------
(* What a market maker promises. *)

\* Every quote in the engine's book is named by the maps, or about to be, so
\* that the next cycle or the shutdown can cancel it.  It is lost only if its
\* cancel threw, the process died, or overlapping cycles shared its entry.
EveryQuoteKnown ==
    stopping = "no" =>
        /\ book \subseteq Range(active) \union Placing \union lost
        /\ faults = 0 /\ ~overlapped => lost = {}

\* "No self-trading" (market_maker/README.md:244): however the reference price
\* jumps, stale quotes have left the book before new ones reach it, so that
\* none meets one of the market maker's own - for a tick no coarser than the
\* spread, cycles that do not overlap, and quotes that are not lost.
FineTick == \A ref \in Reference : TickSize * 10000 <= ref * (SpreadBps + 2 * LevelBps)

NoSelfTrade == FineTick /\ selfTraded => overlapped \/ lost # {}

\* A shutdown leaves no quote in the book but those that are lost, and loses
\* none when no cycle was running at the signal: a cycle that was is not stopped
\* and places the rest of its quotes behind the cancels.  (No cycle ran beside
\* another before, and no call failed.)  Of the orders that reconcile() was shown, once
\* quoting has begun, it leaves none that had its side and price to itself, and
\* not all of those that shared them.
ShutdownLeavesNothing ==
    stopping = "stopped" =>
        /\ book \subseteq lost
        /\ faults = 0 /\ ~overlapped /\ ~caught => lost = {}
        /\ faults = 0 /\ stage = "quoting" =>
              \A o \in rest.shown \intersect rest.open :
                  \E q \in rest.shown \ rest.open : RestAt[q] = RestAt[o]

\* A shutdown comes to its end, whatever the cycles still do beside it.
ShutdownEnds == stopping = "injector" ~> stopping \in {"stopped", "no"}
=============================================================================
