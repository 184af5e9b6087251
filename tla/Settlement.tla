------------------------------ MODULE Settlement ------------------------------
(***************************************************************************)
(* What becomes of balances and order rows once the engine has spoken: the *)
(* DB writer (Server/src/workers/dbWriter.ts) with the balance service     *)
(* (services/balanceService.ts), running beside the API calls that place   *)
(* and cancel orders (services/orderService.ts) and the outbox worker.  An *)
(* action is one statement or one transaction of the API and of the        *)
(* writer, or one command of the engine, which is here only what its       *)
(* events say it is: module Engine has its details, module OrderPath those *)
(* of keys and outbox.  Orders have leverage 1.                            *)
(*                                                                         *)
(* Liquidity from outside comes in two ways: the market maker's quotes are *)
(* orders of the user External that have no row and no margin, and the     *)
(* engine fills what is left of an order at the mark price.                *)
(***************************************************************************)
EXTENDS Integers, Sequences, FiniteSets, SequencesExt

CONSTANTS
    Order,       \* orders as the engine gets them: a PLACE sent again counts as one more
    IdOf,        \* the order that is meant: another one for a PLACE sent again
    User,
    External,    \* the liquidity user
    TermsOf,     \* what each order asks for
    MaxOrders,   \* bound: orders that are placed
    MayCancel,   \* bound: the orders a cancel call is made for
    MayFillOutside, \* bound: the orders the mark price is good enough for
    Funds,       \* the available balance each user starts with, of each asset
    TakerFee,    \* fees per lot and unit of price
    MakerFee,
    MaxCrashes   \* bound: restarts of the API process

Asset == {"base", "quote"}

\* The tables are finite.
ASSUME TablesAssumption == IsFiniteSet(Order) /\ IsFiniteSet(User)
ASSUME SettlementAssumption ==
    /\ External \notin User
    /\ TermsOf \in [Order -> [owner: User \union {External}, side: {"buy", "sell"},
                              type: {"limit", "market"}, price: Nat \ {0}, quantity: Nat \ {0},
                              tif: {"GTC", "IOC", "FOK"}, postOnly: BOOLEAN]]
    /\ IdOf \in [Order -> Order]
    /\ \A o \in Order : /\ TermsOf[IdOf[o]] = TermsOf[o] /\ IdOf[IdOf[o]] = IdOf[o]
                        /\ TermsOf[o].owner = External => IdOf[o] = o
    /\ MaxOrders \in Nat
    /\ MayCancel \subseteq {o \in Order : IdOf[o] = o} /\ MayFillOutside \subseteq Order
    /\ Funds \in Nat /\ TakerFee \in Nat /\ MakerFee \in Nat /\ MaxCrashes \in Nat

VARIABLES
    orders,     \* the orders table
    balance,    \* the balances table; External has no row before it is credited
    placing,    \* the POST /orders of each order: its next statement
    calls,      \* the cancel call of each order: its next statement
    commands,   \* the stream of commands
    left,       \* what the engine has left of each order
    resting,    \* orders in the engine's book
    events,     \* published and not applied yet; the head is in hand
    writer,     \* the DB writer: next step, and the row it has read
    tx,         \* its open transaction: what it will add to available balances
    held,       \* the balance rows that transaction holds
    fees,       \* the fees of the fills table
    abroad,     \* history: what External's side of the fills has gained
    outside,    \* history: orders filled at the mark price,
    dear,       \*   bought above the price their margin was locked for,
    overtaken,  \*   or cancelled ahead of their PLACE
    crashes

vars == <<orders, balance, placing, calls, commands, left, resting, events, writer, tx, held,
          fees, abroad, outside, dear, overtaken, crashes>>

engine  == <<left, resting, outside, dear>>
api     == <<placing, calls, overtaken>>
money   == <<balance, tx, held, fees, abroad>>

Row     == User \X Asset
AnyRow  == (User \union {External}) \X Asset
NoTx    == [r \in AnyRow |-> 0]
Idle    == [at |-> "idle", seen |-> [status |-> "none", filled |-> 0]]
T(o)    == TermsOf[o]
Id(o)   == IdOf[o]
Again   == {o \in Order : Id(o) # o}
IsExternal(o) == T(o).owner = External
Event   == Head(events)

\* What a buyer pays with and a seller pays with.
Pays(o)      == <<T(o).owner, IF T(o).side = "buy" THEN "quote" ELSE "base">>
Gets(o)      == <<T(o).owner, IF T(o).side = "buy" THEN "base" ELSE "quote">>
Quote(o)     == <<T(o).owner, "quote">>

\* price * quantity for a buy order, the quantity for a sell order.
Cost(o, price, lots) == IF T(o).side = "buy" THEN price * lots ELSE lots

Margin(o, lots) == Cost(o, T(o).price, lots)

SettlementTypeOK ==
    /\ orders \in [Order -> [status: {"none", "open", "partially_filled", "filled",
                                      "canceled", "rejected"}, filled: Nat]]
    /\ Row \subseteq DOMAIN balance
    /\ balance \in [DOMAIN balance -> [available: Int, locked: Nat]]
    /\ placing \in [Order -> {"new", "insert", "record", "send", "done", "gone", "owed"}]
    /\ calls \in [Order -> {"new", "send", "mark", "done"}]
    /\ commands \in Seq([op: {"place", "cancel"}, order: Order])
    /\ left \in [Order -> Nat]
    /\ resting \subseteq Order
    /\ writer.at \in {"idle", "unlock", "close", "maker", "fillMaker", "fillTaker", "commit",
                      "writeMaker", "writeTaker"}
    /\ tx \in [AnyRow -> Int] /\ held \subseteq AnyRow /\ fees \in Nat
    /\ abroad \in [Asset -> Int] /\ outside \subseteq MayFillOutside
    /\ dear \subseteq Order /\ overtaken \subseteq MayCancel
    /\ crashes \in 0..MaxCrashes

Init ==
    /\ orders = [o \in Order |-> [status |-> "none", filled |-> 0]]
    /\ balance = [r \in Row |-> [available |-> Funds, locked |-> 0]]
    /\ placing = [o \in Order |-> "new"]
    /\ calls = [o \in Order |-> "new"]
    /\ commands = <<>>
    /\ left = [o \in Order |-> 0]
    /\ resting = {}
    /\ events = <<>>
    /\ writer = Idle
    /\ tx = NoTx
    /\ held = {}
    /\ fees = 0
    /\ abroad = [asset \in Asset |-> 0] /\ outside = {}
    /\ dear = {} /\ overtaken = {}
    /\ crashes = 0

-----------------------------------------------------------------------------
(* The API. *)

LockedFor(o) == Margin(o, T(o).quantity)

Goto(o, place) == placing' = [placing EXCEPT ![o] = place]

\* POST /orders: lockBalance(), which waits for the row, ...
Lock(o) ==
    /\ placing[o] = "new" /\ ~IsExternal(o) /\ o \notin Again
    /\ Cardinality({p \in Order \ Again : placing[p] # "new"}) < MaxOrders
    /\ Pays(o) \notin held
    /\ balance[Pays(o)].available >= LockedFor(o)
    /\ balance' = [balance EXCEPT ![Pays(o)].available = @ - LockedFor(o),
                                  ![Pays(o)].locked = @ + LockedFor(o)]
    /\ Goto(o, "insert")
    /\ UNCHANGED <<engine, orders, calls, overtaken, commands, events, writer, tx, held, fees,
                   abroad, crashes>>

\* ... the order, which can be seen and cancelled from here, ...
Insert(o) ==
    /\ placing[o] = "insert"
    /\ orders' = [orders EXCEPT ![o].status = "open"]
    /\ Goto(o, "record")
    /\ UNCHANGED <<engine, money, calls, overtaken, commands, events, writer, crashes>>

\* ... its outbox row, ...
Record(o) ==
    /\ placing[o] = "record"
    /\ Goto(o, "send")
    /\ UNCHANGED <<engine, money, orders, calls, overtaken, commands, events, writer, crashes>>

Send(op, o) == commands' = Append(commands, [op |-> op, order |-> o])

\* ... and its command.
Publish(o) ==
    /\ placing[o] = "send"
    /\ Send("place", o)
    /\ Goto(o, "done")
    /\ UNCHANGED <<engine, money, orders, calls, overtaken, events, writer, crashes>>

\* The outbox worker has read the row before it was ticked off, or the request
\* died, and sends the command as well: at any time from then on.
SendAgain(o) ==
    /\ o \in Again /\ placing[o] = "new" /\ placing[Id(o)] \in {"send", "done", "owed"}
    /\ Send("place", o)
    /\ Goto(o, "done")
    /\ UNCHANGED <<engine, money, orders, calls, overtaken, events, writer, crashes>>

\* The market maker writes a quote into the stream, past the API.
Inject(o) ==
    /\ IsExternal(o) /\ placing[o] = "new"
    /\ Cardinality({p \in Order \ Again : placing[p] # "new"}) < MaxOrders
    /\ Send("place", o)
    /\ Goto(o, "done")
    /\ calls' = [calls EXCEPT ![o] = IF o \in MayCancel THEN "send" ELSE "done"]
    /\ UNCHANGED <<engine, money, orders, overtaken, events, writer, crashes>>

\* DELETE /orders/:id or DELETE /orders: the order is read ...
ReadForCancel(o) ==
    /\ ~IsExternal(o) /\ calls[o] = "new" /\ o \in MayCancel
    /\ orders[o].status \in {"open", "partially_filled"}
    /\ calls' = [calls EXCEPT ![o] = "send"]
    /\ UNCHANGED <<engine, money, orders, placing, overtaken, commands, events, writer, crashes>>

SendCancel(o) ==
    /\ calls[o] = "send"
    /\ Send("cancel", o)
    /\ calls' = [calls EXCEPT ![o] = IF IsExternal(o) THEN "done" ELSE "mark"]
    /\ overtaken' = IF placing[o] = "done" THEN overtaken ELSE overtaken \union {o}
    /\ UNCHANGED <<engine, money, orders, placing, events, writer, crashes>>

\* ... and marked canceled, whatever has become of it.
MarkCanceled(o) ==
    /\ calls[o] = "mark"
    /\ orders' = [orders EXCEPT ![o].status = "canceled"]
    /\ calls' = [calls EXCEPT ![o] = "done"]
    /\ UNCHANGED <<engine, money, placing, overtaken, commands, events, writer, crashes>>

-----------------------------------------------------------------------------
(* The engine, seen from outside. *)

\* The makers an order may trade with; a market order asks for no price.
Crossing(o) ==
    {m \in resting : /\ T(m).side # T(o).side
                     /\ \/ T(o).type = "market"
                        \/ T(o).side = "buy" /\ T(m).price <= T(o).price
                        \/ T(o).side = "sell" /\ T(o).price <= T(m).price}

Rests(o) == T(o).type = "limit" /\ T(o).tif = "GTC"

\* Post-only that would cross, or fill-or-kill that cannot be filled.
Refused(o) ==
    /\ T(o).type = "limit"
    /\ \/ T(o).postOnly /\ Crossing(o) # {}
       \/ T(o).tif = "FOK" /\ SumFunctionOnSet(left, Crossing(o)) < T(o).quantity

\* What is left of o after it has met the first i of the makers ms.
LeftAfter(o, ms, i) ==
    LET offered == SumFunctionOnSet([j \in 1..Len(ms) |-> left[ms[j]]], 1..i)
    IN  IF offered < T(o).quantity THEN T(o).quantity - offered ELSE 0

Trades(o, ms) ==
    [i \in 1..Len(ms) |->
        [type |-> "trade", order |-> o, maker |-> ms[i], price |-> T(ms[i]).price,
         quantity |-> LeftAfter(o, ms, i - 1) - LeftAfter(o, ms, i)]]

Says(type, o) == [type |-> type, order |-> o, maker |-> o, price |-> 0, quantity |-> 0]

\* The makers o may be matched with: as many as it takes, or all there are,
\* in any order - settlement must not depend on the engine's priorities.
MakersOf(o) ==
    {ms \in SetToAllKPermutations(Crossing(o)) :
        /\ \A i \in 1..Len(ms) : LeftAfter(o, ms, i - 1) > 0
        /\ LeftAfter(o, ms, Len(ms)) > 0 => Len(ms) = Cardinality(Crossing(o))}

\* What is left may be filled at the mark price, whether or not it has just
\* been put in the book.
EnginePlaces(o) ==
    \E ms \in MakersOf(o), atMark \in BOOLEAN :
        LET rest == LeftAfter(o, ms, Len(ms))
            stays == rest > 0 /\ Rests(o)
            done == {ms[i] : i \in {j \in 1..Len(ms) : Trades(o, ms)[j].quantity = left[ms[j]]}}
        IN  /\ atMark => rest > 0 /\ o \in MayFillOutside
            /\ outside' = IF atMark THEN outside \union {o} ELSE outside
            /\ dear' = IF T(o).side = "buy" /\ \E i \in 1..Len(ms) : T(ms[i]).price > T(o).price
                       THEN dear \union {Id(o)} ELSE dear
            /\ left' = [q \in Order |->
                          IF q = o THEN IF stays THEN rest ELSE 0
                          ELSE left[q] - SumFunctionOnSet(
                                 [i \in 1..Len(ms) |-> Trades(o, ms)[i].quantity],
                                 {i \in 1..Len(ms) : ms[i] = q})]
            /\ resting' = (resting \ done) \union (IF stays THEN {o} ELSE {})
            /\ events' = events \o <<Says("accepted", o)>> \o Trades(o, ms)
                           \o (IF atMark THEN <<Says("outside", o), Says("filled", o)>>
                               ELSE IF rest = 0 THEN <<Says("filled", o)>>
                               ELSE IF stays THEN <<>> ELSE <<Says("canceled", o)>>)

EngineRejects(o) ==
    /\ events' = events \o <<Says("accepted", o), Says("rejected", o)>>
    /\ UNCHANGED engine

\* Has the PLACE of the order been sent again?
Doubled(o) == \E c \in Again : Id(c) = o /\ placing[c] # "new"

\* Of an order that is in the book twice the index names one, or none any more
\* (module OrderBook).
EngineCancels(o) ==
    \/ \E c \in resting :
          /\ Id(c) = o
          /\ resting' = resting \ {c}
          /\ left' = [left EXCEPT ![c] = 0]
          /\ events' = Append(events, Says("canceled", c))
          /\ UNCHANGED <<outside, dear>>
    \/ /\ Doubled(o) \/ ~ \E c \in resting : Id(c) = o
       /\ UNCHANGED <<engine, events>>

\* The engine carries out the oldest command and publishes all its events.
EngineStep ==
    /\ commands # <<>>
    /\ commands' = Tail(commands)
    /\ LET o == Head(commands).order
       IN  IF Head(commands).op = "cancel" THEN EngineCancels(o)
           ELSE IF Refused(o) THEN EngineRejects(o)
           ELSE EnginePlaces(o)
    /\ UNCHANGED <<money, orders, api, writer, crashes>>

-----------------------------------------------------------------------------
(* The DB writer.  Its handlers run one after the other, and know an order  *)
(* by its id only.                                                          *)

InHand(type, at) == events # <<>> /\ Event.type = type /\ writer.at = at

Finish == events' = Tail(events) /\ writer' = Idle

\* An UPDATE; it does nothing where there is no row.
SetStatus(o, s) ==
    orders' = IF orders[o].status = "none" THEN orders ELSE [orders EXCEPT ![o].status = s]

\* ORDER_ACCEPTED and ORDER_FILLED set the status, whatever it was.
ApplyStatus ==
    /\ \/ InHand("accepted", "idle") /\ SetStatus(Id(Event.order), "open")
       \/ InHand("filled", "idle") /\ SetStatus(Id(Event.order), "filled")
    /\ Finish
    /\ UNCHANGED <<engine, money, api, commands, crashes>>

\* Mutant: an event that fails is tried again.
RetryOutside == InHand("outside", "idle") /\ UNCHANGED vars

\* TRADE_EXECUTED of a fill at the mark price: its maker order is called
\* "binance-external-...", which is no uuid, so that the first statement of
\* the transaction fails and takes the event with it.
DropOutside ==
    /\ InHand("outside", "idle")
    /\ Finish
    /\ UNCHANGED <<engine, money, orders, api, commands, crashes>>

\* ORDER_CANCELED is for an order that is not terminal; one that the API has
\* marked canceled counts as not terminal.  ORDER_REJECTED releases margin of
\* an order that is not terminal, and the canceled one is.
Releases(type, status) ==
    /\ status # "none"
    /\ IF type = "canceled" THEN status \notin {"filled", "rejected"}
                            ELSE status \notin {"filled", "canceled"}

ReadClosing ==
    /\ InHand("canceled", "idle") \/ InHand("rejected", "idle")
    /\ LET row == orders[Id(Event.order)]
       IN  IF Releases(Event.type, row.status)
           THEN writer' = [at |-> "unlock", seen |-> row] /\ UNCHANGED events
           ELSE IF Event.type = "rejected"
           THEN writer' = [Idle EXCEPT !.at = "close"] /\ UNCHANGED events
           ELSE Finish
    /\ UNCHANGED <<engine, money, orders, api, commands, crashes>>

\* Mutant: more may be released than is locked.
Uncapped(r, n) == n

Capped(r, n) ==
    IF r \notin DOMAIN balance THEN 0
    ELSE IF n < balance[r].locked THEN n ELSE balance[r].locked

\* Mutant: the whole margin is released, that of the traded part included.
ReleaseAll(o, row) == Margin(o, T(o).quantity)

ToRelease(o, row) == Margin(o, T(o).quantity - row.filled)

\* unlockOrderMargin(), from the row that was read: a transaction of its own ...
Unlock ==
    /\ writer.at = "unlock"
    /\ LET r == Pays(Event.order)
           n == Capped(r, ToRelease(Event.order, writer.seen))
       IN  balance' = [balance EXCEPT ![r].available = @ + n, ![r].locked = @ - n]
    /\ writer' = [Idle EXCEPT !.at = "close"]
    /\ UNCHANGED <<engine, orders, api, commands, events, tx, held, fees, abroad, crashes>>

\* ... and then the status, whatever it is by now.
Close ==
    /\ writer.at = "close"
    /\ SetStatus(Id(Event.order), Event.type)
    /\ Finish
    /\ UNCHANGED <<engine, money, api, commands, crashes>>

\* Mutant: the taker pays its own limit price, the maker gets the maker's.
DebitAtLimit(o, e) == Cost(o, T(o).price, e.quantity)

Debit(o, e)  == Cost(o, e.price, e.quantity)

Credit(o, e) == IF T(o).side = "buy" THEN e.quantity ELSE e.price * e.quantity

Fee(o, e)    == (IF o = e.order THEN TakerFee ELSE MakerFee) * e.price * e.quantity

\* debitLocked() commits at once, in a transaction of its own; fee and
\* proceeds belong to the open transaction, which holds their rows from here.
\* debitLocked() waits while the row is held.  External pays what it has
\* locked, nothing, and no fee from a row it does not have.
Pay(o) ==
    LET n == Capped(Pays(o), Debit(o, Event))
        hasQuote == T(o).side = "sell" \/ Quote(o) \in DOMAIN balance
    IN  /\ Pays(o) \notin held
        /\ balance' = [r \in DOMAIN balance |->
                          IF r = Pays(o) THEN [balance[r] EXCEPT !.locked = @ - n] ELSE balance[r]]
        /\ tx' = [r \in AnyRow |-> tx[r] + (IF r = Gets(o) THEN Credit(o, Event) ELSE 0)
                                - (IF r = Quote(o) /\ hasQuote THEN Fee(o, Event) ELSE 0)]
        /\ held' = held \union ({Gets(o), Quote(o)} \intersect (DOMAIN balance \union {Gets(o)}))

PayTaker ==
    /\ InHand("trade", "idle")
    /\ Pay(Event.order)
    /\ writer' = [writer EXCEPT !.at = "maker"]
    /\ UNCHANGED <<engine, orders, api, commands, events, fees, abroad, crashes>>

\* External as a maker has no limit: nothing is paid.
PayMaker ==
    /\ writer.at = "maker"
    /\ IF IsExternal(Event.maker) THEN UNCHANGED <<balance, tx, held>> ELSE Pay(Event.maker)
    /\ writer' = [writer EXCEPT !.at = "fillMaker"]
    /\ UNCHANGED <<engine, orders, api, commands, events, fees, abroad, crashes>>

\* applyTradeToOrder(), for the maker and then for the taker: the row is read ...
ReadFilled ==
    /\ \/ writer.at = "fillMaker"
          /\ writer' = [at |-> "writeMaker", seen |-> orders[Id(Event.maker)]]
       \/ writer.at = "fillTaker"
          /\ writer' = [at |-> "writeTaker", seen |-> orders[Id(Event.order)]]
    /\ UNCHANGED <<engine, money, orders, api, commands, events, crashes>>

\* Mutant: the quantity of the trade is taken for the filled quantity.
FilledByLast(o, n) == [status |-> IF n >= T(o).quantity THEN "filled" ELSE "partially_filled",
                       filled |-> n]

\* A row made for a quote has the quantity of its first trade; without a row
\* nothing is written.
Filled(o, n) ==
    LET total == writer.seen.filled + n
    IN  IF writer.seen.status = "none" THEN writer.seen
        ELSE [status |-> IF IsExternal(o) \/ total >= T(o).quantity
                         THEN "filled" ELSE "partially_filled",
              filled |-> total]

\* ... and written, with what follows from the row as it was read.
WriteFilled ==
    /\ \/ /\ writer.at = "writeMaker"
          /\ orders' = [orders EXCEPT ![Id(Event.maker)] = Filled(Event.maker, Event.quantity)]
          /\ writer' = [Idle EXCEPT !.at = "fillTaker"]
       \/ /\ writer.at = "writeTaker"
          /\ orders' = [orders EXCEPT ![Id(Event.order)] = Filled(Event.order, Event.quantity)]
          /\ writer' = [Idle EXCEPT !.at = "commit"]
    /\ UNCHANGED <<engine, money, api, commands, events, crashes>>

\* What an order's side of a fill gains of an asset.
Gain(o, e, asset) ==
    IF asset = "base" THEN (IF T(o).side = "buy" THEN e.quantity ELSE -e.quantity)
    ELSE (IF T(o).side = "buy" THEN -(e.price * e.quantity) ELSE e.price * e.quantity)
         - Fee(o, e)

\* ... if that side is External.
GainAbroad(o, e, asset) == IF IsExternal(o) THEN Gain(o, e, asset) ELSE 0

\* The open transaction commits: the rows made for quotes, fill, positions,
\* fee and proceeds.
Commit ==
    /\ writer.at = "commit"
    /\ balance' = [r \in DOMAIN balance \union {Gets(Event.order)} |->
                      IF r \in DOMAIN balance THEN [balance[r] EXCEPT !.available = @ + tx[r]]
                      ELSE [available |-> tx[r], locked |-> 0]]
    /\ fees' = fees + Fee(Event.order, Event) + Fee(Event.maker, Event)
    /\ abroad' = [asset \in Asset |-> abroad[asset] + GainAbroad(Event.order, Event, asset)
                                                     + GainAbroad(Event.maker, Event, asset)]
    /\ orders' = [o \in Order |->
                     IF IsExternal(o) /\ o \in {Event.order, Event.maker} /\ orders[o].status = "none"
                     THEN [status |-> "filled", filled |-> Event.quantity] ELSE orders[o]]
    /\ tx' = NoTx /\ held' = {}
    /\ Finish
    /\ UNCHANGED <<engine, api, commands, crashes>>

\* The API process restarts: calls die, the open transaction is rolled back,
\* and what Redis had published but the writer not applied is gone.
Crash ==
    /\ crashes < MaxCrashes
    /\ crashes' = crashes + 1
    /\ placing' = [o \in Order |-> CASE placing[o] \in {"insert", "record"} -> "gone"
                                     [] placing[o] = "send" -> "owed"
                                     [] OTHER -> placing[o]]
    /\ calls' = [o \in Order |-> IF calls[o] = "new" \/ IsExternal(o) THEN calls[o] ELSE "done"]
    /\ events' = <<>> /\ writer' = Idle /\ tx' = NoTx /\ held' = {}
    /\ UNCHANGED <<engine, orders, balance, commands, overtaken, fees, abroad>>

-----------------------------------------------------------------------------
Writer == ApplyStatus \/ DropOutside \/ ReadClosing \/ Unlock \/ Close \/ PayTaker \/ PayMaker
          \/ ReadFilled \/ WriteFilled \/ Commit

Next ==
    \/ \E o \in Order : \/ Lock(o) \/ Insert(o) \/ Record(o) \/ Publish(o) \/ SendAgain(o) \/ Inject(o)
                        \/ ReadForCancel(o) \/ SendCancel(o) \/ MarkCanceled(o)
    \/ EngineStep
    \/ Writer
    \/ Crash

\* The event loop runs the writer's promises on; that calls come in, or that
\* the engine is up, is not assumed.
Spec == Init /\ [][Next]_vars /\ WF_vars(Writer)

-----------------------------------------------------------------------------
(* What settlement promises. *)

\* An order may cost more than its margin when its PLACE has been sent twice, or
\* when it is a market buy, which is executed at any price.
InBudget(o) == ~Doubled(o) /\ o \notin dear

\* Every order that is on its way to the engine or rests in its book is backed
\* by locked margin of its owner, whatever trades and cancels come in between,
\* as long as each order paid from that row stays in budget: then nobody can
\* reuse what an open order may have to pay.  (After a crash in the middle of a
\* trade the order it filled is released in full, at the expense of its owner's
\* other orders.)
MarginCoversOpenOrders ==
    crashes = 0 => \A r \in Row :
        LET onItsWay == {o \in Order : \/ placing[o] \in {"insert", "record", "send"}
                                      \/ \E i \in 1..Len(commands) :
                                            commands[i] = [op |-> "place", order |-> o]}
            need(o) == IF Pays(o) # r THEN 0
                       ELSE IF o \in onItsWay THEN Margin(o, T(o).quantity)
                       ELSE IF o \in resting THEN Margin(o, left[o]) ELSE 0
        IN  (\A o \in Order : Pays(o) = r => InBudget(o)) =>
                balance[r].locked >= SumFunction([o \in Order |-> need(o)])

Worth(r) == balance[r].available + balance[r].locked

\* Trading moves money and makes none: between two events, what the users have,
\* the fees recorded with the fills and External's side of them add up to the
\* deposits, in an asset that only orders in budget are paid in - a debit is
\* capped at what is locked, the credit of the other side is not.  (A crash in
\* the middle of a trade loses what its first transactions have taken.)
MoneyConserved ==
    writer.at = "idle" /\ crashes = 0 =>
        \A asset \in Asset : (\A o \in Order : Pays(o)[2] = asset => InBudget(o)) =>
            SumFunction([u \in User |-> Worth(<<u, asset>>)])
                + abroad[asset] + (IF asset = "quote" THEN fees ELSE 0)
              = Cardinality(User) * Funds

Quiet ==
    /\ commands = <<>> /\ events = <<>> /\ crashes = 0
    /\ \A o \in Order : IsExternal(o) \/ calls[o] \in {"new", "done"}
    /\ \A o \in Order : placing[o] \in {"new", "done"}

\* When nothing is on its way, the rows say what the engine knows: the orders
\* shown as open are those in the book, and filled quantities add up.  The
\* optimistic cancel hides no resting order for good and revives no dead one.
\* That is so of an order whose PLACE has been sent once and ahead of its
\* CANCEL, whatever has become of the others.  (Orders filled at the mark price
\* are another matter.)
RowsMatchBook ==
    Quiet => \A o \in Order \ (Again \union outside \union overtaken) :
        ~IsExternal(o) /\ ~Doubled(o) =>
        /\ o \in resting <=> orders[o].status \in {"open", "partially_filled"}
        /\ o \in resting => orders[o].filled = T(o).quantity - left[o]
        /\ orders[o].status = "filled" => orders[o].filled = T(o).quantity

\* A fill at the mark price is recorded like any other: "For external LP, ensure
\* synthetic maker order exists so FK passes" (dbWriter.ts:181).
OutsideFillsRecorded ==
    Quiet => \A o \in outside : orders[o].status = "filled" => orders[o].filled = T(o).quantity

\* What has been published is applied: "Process messages serially so events
\* are applied in publication order" (dbWriter.ts:498).
EventsApplied == []<>(events = <<>>)
=============================================================================
