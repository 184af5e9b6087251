# A TLA+ model of the perpetual futures exchange

This directory specifies the core of the exchange in `src/` in TLA+: the order
book and its matching algorithm, the engine process around it, the path of an
order from the REST API to the command stream, the settlement of the engine's
events in the database, the balance rows under it, positions and mark prices,
and the market maker that feeds the book. TLC checks each part on small
instances; with TLAPS the safety properties of each part are proved for every
instance.

## The system

A user's order goes through the REST API (`Server/src`, Node and PostgreSQL),
which locks margin, stores the order and appends `PLACE_ORDER` to the Redis
stream `order_commands`. The engine (`Engine/src`, C++) reads the stream,
matches the order in memory and publishes events on a Redis channel and to
Kafka. The DB writer, in the same Node process as the API, applies those events
to balances, orders, fills and positions. A market maker (`market_maker/src`)
writes quotes straight into the stream; bots (`bot/`) use the API.

    client --REST--> order service --INSERT--> orders, outbox
                         |                        |
                         +--XADD--> order_commands <--XADD-- outbox worker
                                         |      <--XADD-- market maker
                                    XREADGROUP
                                         v
      mark price (Redis) --GET-->  engine + order book <--> snapshot file
                                         |
                                      PUBLISH (at most once)
                                         v
                                     DB writer --> balances, orders, fills, positions

### Components

| Component | State | Operations | Interacts by | What is hard |
|---|---|---|---|---|
| Order book `orderbook.cpp` | `bids_`, `asks_` (price -> FIFO queue), `orderIndex_` | `match`, `cancel`, `serializeState`, `restoreState` | calls from the engine | equal prices, partial fills, index against queues, termination |
| Engine `engine.cpp`, `main.cpp` | `books_`, the batch in hand | place, cancel, publish, acknowledge | stream in, channel out, mark price | snapshot thread beside `match()`, crash between two commands |
| Snapshot service `snapshot.cpp` | one file | save every 900 s and at shutdown, load | `mu_`, the file system | torn copy, truncation before writing |
| Redis client `redis_client.cpp` | a connection | read group, ack, publish, reconnect | Redis | a reply lost in a reconnect |
| Decimals `decimal.cpp` | `unscaled_` (int64), scale | parse, compare, arithmetic | everywhere in the engine | overflow when scales are aligned |
| Order service `orderService.ts` | tables `orders`, `outbox` | place, cancel, cancel all | PostgreSQL, stream | every `await` lets another call in; one of many statements fails |
| Outbox worker `outboxWorker.ts` | the batch it has read | publish, mark | PostgreSQL, stream | rows that change after they are read |
| Balance service `balanceService.ts` | table `balances` | lock, unlock, debit, deposit, withdraw | row locks | API and DB writer on one row; a read before an unlocked write |
| DB writer `dbWriter.ts` | the event in hand, its transaction | one handler per event type | channel in, PostgreSQL | nested transactions, restart in the middle, events lost while it is down |
| Positions `routes/positions.ts`, `upsertPosition` | table `positions` | open, grow, reduce, flip, close | DB writer, stream | double close, averaging |
| Mark price updater | key in Redis | refresh | Redis | staleness |
| Market maker | maps of active quotes | quote cycle, cancel all | stream, Binance feed | overlapping cycles, failed cancels |
| Auth, markets, routes, Kafka producer, bots | - | - | - | reads and plumbing |

### What makes each part correct

* Order book: never crossed; price-time priority; an order's instructions
  (limit, IOC, FOK, post-only) are kept; the index and the queues agree.
* Engine: its events describe its book; an outcome is final; an entry of the
  stream is carried out at most once; the command thread answers what it reads.
* Order path: one order per `clientOrderId`; no order in the stream without
  margin; nothing answered or ticked off is missing from the stream.
* Settlement: open orders are covered by locked margin; money is conserved;
  the rows end up telling what the engine knows; every event is applied.
* Balance service: overlapping calls take effect one after the other; none is
  lost, and none waits for ever.
* Market maker: every quote in the book is known to the maps, none meets another
  of its own, and what a shutdown leaves behind is known by its cause.
* Positions: the size is the net of the fills; a close does no more than close;
  mark prices follow the feed.

## Modules

| Module | Models | State and actions |
|---|---|---|
| `OrderBook` | `orderbook.cpp` | `book[side][price]` is `bids_`/`asks_`, an empty queue an erased level; `index` is `orderIndex_`; `taker`, `trades`, `pc` are the locals of `match()`. `Receive` is the entry with the post-only and FOK checks, `Execute` and `PopFilled` one turn of the inner loop, `Rest`, `Discard`, `Complete` the end, `Cancel` is `cancelResting()`. |
| `OrderBookProofs` | theorems about `OrderBook` | |
| `SumLemmas` | sums of functions over finite sets (`SumFunctionOnSet`) | what `OrderBookProofs` and `SettlementProofs` need of them |
| `Engine` | `engine.cpp`, `main.cpp`, `snapshot.cpp`, `redis_client.cpp` | EXTENDS `OrderBook`, whose actions the command thread takes; adds the entries of the stream with their consumer group (`fate`), the batch, the stage inside `processCommand()`, the snapshot thread, file, crash, restart, shutdown and the lost reply. `handled` and `published` are history variables. |
| `EngineProofs` | theorems about `Engine` | EXTENDS `OrderBookProofs`, whose lemmas on steps of the book it uses |
| `OrderPath` | `orderService.ts`, `outboxWorker.ts` | `at[r]` is the next statement of request r; `orders`, `outbox`, `stream` the shared state; the worker's stale list is `worker.pending`. |
| `OrderPathProofs` | theorems about `OrderPath` | |
| `Settlement` | `dbWriter.ts`, `balanceService.ts`, with the calls of `orderService.ts`, the outbox worker's second PLACE, and an engine seen from outside | `balance`, `orders` are tables; `placing[o]` and `calls[o]` are the next statements of an order's POST and DELETE; `writer` is the event chain with the row it has read; `tx` and `held` are the effects and row locks of its open transaction. `dear`, `overtaken`, `outside` and `abroad` are history variables. |
| `SettlementProofs` | theorems about `Settlement` | |
| `Balances` | `balanceService.ts` on one row | `row` is the row, `holder` the transaction that has locked it, `pc[c]` and `seen[c]` the next statement of a call and what it has read. `FindRow`, `InsertRow`, `Deposit`, `Withdraw` are the statements of the calls without a transaction, `LockRow` and `Commit` those of the three with one. |
| `Ledger` | what `Balances` promises | an account on which each call is one step, `withdraw()` two |
| `BalancesProofs` | theorems about `Balances` | |
| `MarketMaker` | `market_maker/src`: `index.ts`, `directOrderInjector.ts`, `strategy/marketMaker.ts`, and of the REST path login, `reconcile()`, `cancelAll()` | `active` is `activeBids` and `activeAsks`, `tasks[t]` a running cycle or shutdown with the call it awaits, `book` what the engine has; `rest` is what of the account's REST orders is open, was listed at the start, and is in the maps of `orderManager`. `Proceed` runs a cycle to its next await. `lost`, `overlapped` and `caught` are history variables. |
| `MarketMakerProofs` | theorems about `MarketMaker` | |
| `PriceFeed` | `binanceFeed.ts` and its callback | the socket, the clock, the key in Redis with its expiry |
| `Positions` | `upsertPosition()`, `routes/positions.ts`, `markPriceUpdater.ts` | EXTENDS `PriceFeed`; `position` is the open row, `closes[k]` a close call and its order, `polls[t]` a poll of the updater. `since` (the sums of the fills since the position was opened), `disturbed` and `overshot` are history variables. |
| `PositionsProofs` | theorems about `Positions` | |
| `MC*` | values of the constants | |

The matching loop is cut where it writes, because the snapshot thread reads the
book while `match()`, which does not take `mu_`, is running. The two symmetric
halves of the loop (buy and sell) are one definition. Prices are ticks and
quantities lots; `Trade` and `Order` keep the fields that decide something.
In `OrderPath` an action is what runs between two awaits: one statement, one
`XADD`, or `lockBalance()`, a transaction of its own that holds the row it
changes. `Balances` takes such a transaction apart. `Settlement` joins more:

* POST /orders is `Lock`, `Insert`, `Record` (the outbox row) and `Publish`; the
  last tick of the outbox row changes nothing the module looks at. The order can
  be read and cancelled from `Insert` on. `SendAgain` is the outbox worker, which
  sends the same order a second time: `IdOf` names the order that is meant, and the
  engine takes the second PLACE for an order of its own.
* DELETE is `ReadForCancel`, `SendCancel` and `MarkCanceled`; `Inject` is the market
  maker, which writes into the stream past the API.
* `EngineStep` is one command with all its events: the writer takes them in
  order, one at a time, so that their spacing does not matter. An order may meet
  the makers it crosses in any order, not only by price and time: an engine with
  more behaviours than the real one, for which the properties hold as well. A
  market order meets every maker whatever its price (`orderbook.cpp:126`, `:170`).
  Post-only and fill-or-kill are refused (`Refused`). A cancel of an order that is
  in the book twice takes one of the two, or none.
* The writer's handlers are cut between transactions: `ReadClosing` reads the row of
  a canceled or rejected order, `Unlock` is `unlockBalance()`, `Close` the status;
  `PayTaker` and `PayMaker` are `debitLocked()`, which commits at once, with the fee and
  proceeds that wait in `tx`; `ReadFilled` and `WriteFilled` are `applyTradeToOrder()`
  for maker and taker; `Commit` ends the surrounding transaction. What the reads
  of markets and assets return never changes and has no action.

`Settlement` also has the liquidity user, whose quotes come without row and margin:
the writer makes a row for them when they trade, the maker side pays nothing, and as a
taker the user is credited although it had nothing locked. `abroad` is what that
user's side of the fills has gained, so that `MoneyConserved` counts both sides. A fill
at the mark price never reaches the tables at all (see `settlement_outside`).

A refinement joins two modules: `Balances!KeepsPromise` is `Ledger!Spec` with the
row for the account and a call's place in the code for its status. A `SELECT FOR
UPDATE` maps to a stutter, the commit to the atomic step; the select of a
withdrawal is the step `Look`, which is why `Ledger` does not promise that a
withdrawal is atomic.

## Runs

| Run | Instance | Shows |
|---|---|---|
| `book` | 3 orders, 2 prices, 2 quantities, every instruction, o1 delivered twice, any cancels | the nine properties of the book |
| `engine` | 3 orders, one of each kind, and a cancel, one PLACE in the stream twice, batches of 2, 1 snapshot, 1 fault, mark price of any value | events, finality, at most once per entry, a batch is answered to the end |
| `path` | request, concurrent retry, other request, cancel-all, worker, 1 fault | keys, margin, outbox |
| `settlement` | 3 of 4 orders of 2 users and the market maker, one of them sent twice, a market order, 1 cancel, partial fills, post-only rejection, a fill at the mark price, 1 restart | margin, money, rows |
| `maker` | 2 slots for cycles, 2 reference prices, 4 quotes, 2 older orders at one price, 1 fault, start and shutdown | the maps know the book; no self-trade; shutdown |
| `ledger` | 3 calls of any kind and amount on a row that may not exist yet | the refinement of `Ledger`, no lost update but `withdraw()`'s, no hang |
| `positions` | 2 close calls, 1 other fill, 2 polls, 1 fault, a feed that reconnects | net size, closes, mark price |
| `engine_external` | as `engine`, 2 orders | where the engine differs from `main.cpp:76` |
| `path_lost` | as `path`, no cancel | where the order path differs from `README.md:40` |
| `path_overtaken` | as `path`, no fault | where the order path differs from `orderService.ts:137` |
| `settlement_self` | one user on both sides | where the DB writer differs from `dbWriter.ts:498` |
| `settlement_outside` | two orders the mark price may fill | where the DB writer differs from `dbWriter.ts:181` |

The last five are expected to be violated: each states one sentence of the
repository, and TLC finds a behaviour of the code that contradicts it. The
properties of the passing runs say what the code does guarantee; where one has
a condition it is there because the code gives no more, and the comment at the
property says so. The conditions, and what the code does without them:

| Condition | Of | Without it |
|---|---|---|
| `faults = 0` | events of the engine | a crash forgets what happened since the snapshot, a lost reply a batch of commands |
| `deliveries[o] <= 1` | `Cancellable`, `EventsTellTheBook`, `OutcomesAreFinal` | an order whose PLACE came twice rests, trades and ends twice; the others are not touched by it |
| `crashes = 0` | margin, money, rows | a restart drops published events and the half of a trade that was not committed |
| `InBudget`: sent once, not bought above the price it was locked for | margin of a balance row, money in an asset | a market buy, or a second PLACE, costs more than its lock: the debit is capped while the seller is credited in full, or it eats the margin of the user's other orders |
| not `overtaken` | `RowsMatchBook` | a CANCEL ahead of its PLACE finds nothing, and the order rests behind a row that says canceled |
| not `Doubled` | `RowsMatchBook` | the second copy rests behind a row that says filled |
| not `outside` | rows, events | a fill at the mark price is not recorded, and the order may be in the book as well |
| `~overlapped`, `~caught`, `lost` | market maker | overlapping cycles write over each other's entries; a cycle that was running at the signal places the rest of its quotes |

Three more things show in the models and have no run of their own. A snapshot
taken between the fill of a maker and its removal stores an order with nothing
left; after a restart the next order that reaches it takes the branch that
`orderbook.cpp:133` comments with "Should not happen" (`Engine!DropExhausted`).
The outbox worker also sends rows of requests that are still between insert and
mark, without any crash, although `orderService.ts:138` has it republish only
after one; `PlacedAtMostTwice` is the promise that is left. And a
shutdown of the market maker does not do all that `market_maker/README.md:172-179`
says of it (stop new quotes, cancel the active orders): a quote cycle that is running
at the signal is not stopped and places the rest of its quotes behind the cancels, and
of the orders placed over REST it cancels those in the maps of `orderManager` - one for
each side and price, out of the newest hundred rows the API lists. `ShutdownLeavesNothing`
says that nothing else is left.

`README.md:27` says that the engine "can recover from the latest snapshot and replay
events from Kafka". Nothing replays: `CrashRestart` loads the file and goes on. No
property of a run is about that sentence; `NeverTwice` and the condition `faults = 0`
are what is left.

### Bounds

* Two prices and two lots make a bid and an ask that cross, touch and miss each
  other, partial fills on either side and a queue of two at one price; the third
  order makes a taker sweep two makers or two levels. Fill-or-kill is checked
  against sums over two levels.
* `MaxDeliveries` repeats one command; a second repetition adds no new shape of
  index and queue (one entry for two copies). The proofs have no such bound.
* `MaxSaves`, `MaxFaults`, `MaxCrashes` count faults, not steps: a fault may
  fall between any two steps. One of each is what the repaired state depends on,
  since every restart starts from the file alone.
* `engine`: the three orders are a bid, an ask and a market order, each of them
  once the one that is cancelled and the one whose PLACE is in the stream twice;
  they are what a snapshot between a fill and the removal of its maker, a crash and a
  further taker need (`DropExhausted`). A behaviour has either the second reading of
  that PLACE, or a snapshot and a fault (`MCNext`): with both at once the run would
  take too long. The proofs have no such bound.
* `BatchSize` is 32 in the code; two commands show a batch that is cut by a
  crash. `BatchLimit` is 100 in the code; two rows show a list that is stale for
  its second row.
* `Funds = 2` backs two of three requests, so that the balance check decides.
  In `settlement` `Funds = 8` is exactly what the two bids need, so that nothing
  locked too much or released too early stays unnoticed; of the two asks one is below
  the price of the market order, the other above it. The order that is cancelled is the
  one that is sent twice.
* `maker`: with one level a side, four quotes are two generations of them, so
  that stale ones are cancelled before the second; references 15000 and 15030
  put the new bid above the old ask, the case in which a missed cancel trades.
  `MaxFaults` counts a throwing call, a killed process, or cycles that overlap. The
  two older orders share side and price, so that one hides the other; a behaviour has
  them, or more than one quote (`MCNext`), as nothing but the shutdown touches both.
* `ledger`: three calls are the reader, the writer in between and one that waits;
  amounts 1 and 2 against 2 available and 1 locked hit, miss and cap.
* `positions`: one fill of one or two lots opens a position of either side; two
  close orders, filled partly or whole, reduce it, close it, overshoot, and grow
  what an overshooting one has opened. Two polls are enough to write an older price
  over a newer one; the clock allows one price to get stale and one to expire.
* No symmetry is used: orders and requests have different roles.

Deadlock is not checked: each system may stop when no more orders come in, and
the bounded counters stop it as well.

### Fairness

* `OrderBook`: weak fairness of the steps inside `match()`. It is a thread that
  runs; arrivals and cancels are not assumed.
* `Engine`: strong fairness of the command thread, weak fairness of a snapshot
  once begun. `mu_` is taken by the snapshot thread for one copy every 900 s, so
  the command thread finds it free again and again; commands, snapshots, faults
  and shutdown are not assumed. `ReadGroup` has no fairness: the property is
  about batches that were read.
* `OrderPath`: weak fairness of the statements of each call in progress and of
  the worker, whose timer is set again in a `finally` (`outboxWorker.ts:50`).
  New requests, failures and crashes are not assumed.
* `Settlement`: weak fairness of the writer, whose promises the event loop runs.
  Nothing is assumed of users or of the engine.
* `Balances`: weak fairness of the statements of a call, which the database
  answers; a lock that is free is granted.
* `MarketMaker`: weak fairness of the shutdown's steps. Redis answers in the end
  (`maxRetriesPerRequest: null` makes the client wait), REST calls have a timeout
  of ten seconds. Nothing is assumed of ticks, signals or the running cycles.
* `Positions`: weak fairness of the writer and of each poll, whose timer fires
  every five seconds. Nothing is assumed of the feed: `MarkCatchesUp` is about a
  price that stays in Redis and fresh, in the model the last before the clock's
  bound.

## Proofs

`OrderBookProofs` proves of `Spec` of `OrderBook`, for every set of orders, every
price and quantity range, all terms and every number of deliveries:

* `TypeCorrect`: `[]TypeOK`. In particular `filled` never exceeds `quantity`,
  on either side of a trade.
* `NeverCrossed`: `[]Uncrossed`.
* `RestingOrdersLive`: `[]AllLive`.
* `IndexNeverDangles`: `[]IndexSound`.
* `RestingIsCancellable`: `[]Cancellable`.
* `PriorityKept`: the action property `OnlyTheFilledLeave`, time priority in every
  queue.
* `TradesByPrice`: `[]BestPriceFirst`.
* `InstructionsKept`: `[]InstructionsHonoured`: limits, post-only, IOC and
  fill-or-kill. `PostOnlyHonoured` and `RemaindersRest` are two of its parts, that a
  post-only order takes nothing, and that what is left of an order is in the book
  after `match()` just when its terms say so.

The assumptions are `BoundsAssumption` and `TermsAssumption` of `OrderBook`: the
bounds are naturals and terms are what the parser yields. `OrderTerms` excludes
a quantity of zero, which `placeOrder()` refuses (`orderService.ts:36`,
`engine.cpp:73`).

Each theorem has the form: `Init` implies it; it and `TypeOK` are kept by every
action; PTL joins the two. `TypeOK` is inductive because it ties the incoming
order to `pc`. `Uncrossed` needs the fact that `Rest` comes only when no
opposite level crosses, and then (`NothingCrosses`) the whole opposite side is
beyond the price, not only its best level; `LevelsShrink` says that no other
action makes a level appear. `AllLive` is inductive with its exception: the
filled maker is at the front of the best level of the opposite side while `pc`
is `"pop"`. `IndexSound` leans on it being the head of a queue that leaves, and
on `RemoveAt` keeping every other entry. `RestingIsCancellable` needs the
converse with the place: an order delivered once is in one queue only, and the
index names it (`Registered`); a second delivery of an id is what breaks it, and
is its only exception. `PriorityKept` rests on `LevelStep` (in one step an order
joins a level at the back, the level stays, or one entry leaves it) and on
`FilledAtFront`, that the maker about to be popped is the front one.
`TradesByPrice` adds that the opposite side never has a level better than the
last trade (`BeyondTrades`); without it the next trade could be at any price.
`PostOnlyHonoured` adds that an accepted post-only order faces nothing that
crosses as long as it is in hand (`FacesNothing`). `InstructionsKept` is about a sum:
an accepted fill-or-kill order is filled because, as long as it is matched, the
levels within its limit hold what it still wants (`StillFillable`). Each execution
takes as much from those levels as it gives the taker, and a maker that is popped
had nothing left to give.

`SumLemmas` proves what these sums and those of `Settlement` need: how a sum over a
finite set splits, and how it changes when one term does. The library's induction
theorems take a predicate, which no installed prover can instantiate; but induction
over the *set* of sizes for which a statement holds needs none (`InductiveSet`), and
the folds of the community modules unfold into a function on such sizes.

`EngineProofs` proves of `EngineSpec`, for every set of orders and commands, any
terms, batch size, mark price, and number of snapshots, crashes and lost replies:

* `EngineTypesKept`: `[]EngineTypeOK`.
* `AtMostOnce`: `[]NeverTwice`.
* `CancellableAlways`: `[]Cancellable`, of the whole process with its restarts.
* `EventsTell`: `[]EventsTellTheBook`.
* `OutcomesFinal`: the action property `OutcomesAreFinal`.

The types tie the stage of `processCommand()` to the stage of `match()`
(`Staged`), so that an action of one is read with the state of the other.
`HandledOnce` follows an entry of the stream from the group to the batch: what is in
a batch was handed out once, is in one place of it, and not handled before its turn;
it is for `AtMostOnce` alone. `EngineInv`, for the others, is `EngineTypes`, `AllFiled`
and, while `faults = 0`, `AllLive` and `Told`. An order may be delivered any number of
times, since its PLACE may be in the stream twice; everything said of an order is said
of one delivered once, and the steps show that the copies of another do not disturb
it. The exception of `Cancellable` is therefore a real one: the outbox worker does send
orders twice. `AllFiled` says of three books - the live one, the copy the snapshot
thread is taking and the one in the file - that each entry has the side, price and
quantity its order was sent with, once in its queue unless the order was delivered
more than once, and only an order that was delivered: the copy is taken one side
after the other while `match()` runs, and this is what survives of it, enough for
`restoreState()` to rebuild the index right (`RestartRegisters`).

`EventsTellTheBook` is between two commands; the invariant has to say what is
true within one. Order by order (`Told`): one that was never delivered has no events
(`Unheard`); and of those delivered once, one at rest has been accepted, has no
outcome, and its events name what is filled of it once the trades in hand are sent (`EachTold`);
the order in hand is accepted before its trades, and their partial sums are what
is filled of it and what has been said (`TakerTold`); each maker has one trade
with it, and is still in the book only if it is the last (`MakersTold`,
`PopsLast`); an order just taken out has no outcome before the one that is
coming (`Removes`). The partial sums are a function the invariant says exists
(`SumsUp`), so that a step extends it by one and no induction over the list of
trades is needed. All of this is claimed while `faults = 0`: a lost reply loses
commands, a crash events. `Told` was checked by TLC on an
instance of `engine` before it was proved. The proof also found that `OutcomeOf`, then a
`CASE` with overlapping guards, left open which branch of the `else if` chain of
`engine.cpp:161` was meant.

`BalancesProofs` proves of `Spec` of `Balances`, for every set of calls, amounts
and opening balances (`BalancesAssumption`):

* `TypeCorrect`: `[]BalancesTypeOK`; neither part of a balance becomes negative.
* `NothingIsLost`: `[]NothingLost`.
* `Refinement`: `Spec => KeepsPromise`, `Ledger!Spec` under the mapping above.

The type alone is not inductive: a write subtracts from what a call has *seen*.
`IInv` adds that the holder of the row is in the middle of its transaction and
has seen the row as it is (`HolderSaw`: nobody else writes a locked row), that a
call about to commit is the holder (`WriterHolds`), that a withdrawal about to
write has seen enough (`SeenEnough`), and that calls past the first select find a
row (`Inserts`). From it each `Commit` writes what an atomic step on the current
row would (`WrittenBalance`), which gives both the sum of `NothingLost` and the
step of `Ledger`; the other statements are stutters, or `Look` and `Open`.

`OrderPathProofs` proves of `Spec` of `OrderPath`, for every set of requests, keys,
cancellers, funds, batch limit and number of faults (`PathAssumption`):

* `TypeCorrect`: `[]PathTypeOK`.
* `OneOrderPerKey`: `[]KeyNamesOneOrder`.
* `AlwaysMargin`: `[]MarginBehindEveryOrder`.
* `NeverAnsweredInVain`: `[]AnsweredIsPlaced`.
* `AtMostTwice`: `[]PlacedAtMostTwice`.

`IInv` follows the chain of writes from the end: a command in the stream has an
order, a ticked-off row its command, a row its order, an order its margin
(`Chain`). A request at a statement has what the statements before it did
(`Progress`); that is why a failure or a crash between any two of them leaves the
chain whole. The worker's list may be stale, but it names rows that exist, and the
row about to be marked has been sent (`Listed`); the same holds of a canceller
(`Cancelling`). `KeyNamesOneOrder` is kept on top of these. For `AtMostTwice` (as
long as nothing fails) the invariant counts what may still be sent: a row may be
sent once more by its request as long as that has not sent it, and once more by
the worker as long as it is unsent on the worker's list, or still unticked for the
next one. That the margin stays within `Funds` (`InFunds`) needs the set of locked
requests to be finite, which is part of the invariant (it starts empty and grows
by one), so that nothing is assumed of the set of requests.

`PositionsProofs` proves of `Spec` of `Positions`, for every number of close calls,
polls, fills, faults and seconds (`PositionsAssumption`, `FeedAssumption`):

* `PositionsTyped`: `[]PositionsTypeOK`; an open position has at least one lot.
* `PositionNet`: `[]PositionIsNet`.
* `ClosesOnlyClose`: `[]CloseOnlyCloses`.

`PositionIsNet` is inductive with the types: a fill that reduces leaves the sum on
its side, one that closes ends the history. `CloseOnlyCloses` needs, for every
close call that nothing has disturbed, what is between its order and the
position: its fills in the queue come in the order of its trades, each telling
what the order has left (`FillsFollow`), and together with what may still trade
they are no more than the position (`StillCloses`).

`MarketMakerProofs` proves of `Spec` of `MarketMaker`, for any references, spread,
levels, slots, number of quotes and faults (`MarketMakerAssumption`):

* `MakerTypes`: `[]MakerTypeOK`.
* `QuotesStayKnown`: `[]EveryQuoteKnown`.
* `NoSelfTrading`: `[]NoSelfTrade`, if the tick is no wider than the spread
  (`FineTick`): with a wider one rounding puts a bid on its own ask.
* `ShutdownClears`: `[]ShutdownLeavesNothing`.

The invariant `MakerInv` follows a quote: ids are given out once (`IdsDistinct`); what
is in the book is in the maps, being placed, or lost (`Known`); a cycle that is
alone cancels what the maps name and places what they do not (`SoleCycle`), and
places nothing while a quote of an older reference is left on either side
(`NoneStale`), so that everything a new quote can meet is of its own reference, for
which `CalculateQuotes` keeps the sides apart (`SidesApart`); after the signal each
quote of the maps stays on the shutdown's list until it is cancelled (`Dropping`);
a shutdown that met no running cycle has lost nothing (`Quiet`); and for each order
the listing showed, `reconcile()` keeps one of its side and price, which the shutdown
cancels (`Adopted`). That every quote left is a lost one holds whether calls fail or
cycles overlap; the two other parts of `ShutdownLeavesNothing` are for `faults = 0`.

`SettlementProofs` proves of `Spec` of `Settlement`, for every finite set of orders
and users (`TablesAssumption`: the tables are finite), any terms, funds, fees,
cancels, fills at the mark price and restarts (`SettlementAssumption`):

* `SettlementTypes`: `[]SettlementTypeOK`; no locked balance becomes negative.
* `MarginAlwaysCovers`: `[]MarginCoversOpenOrders`.
* `MoneyKept`: `[]MoneyConserved`.
* `RowsFollow`: `[]RowsMatchBook`.

The engine's step is one big action with a choice of makers. It is looked at once:
`EngineTells` says what a step tells of the order it is about (`Tells`, `Places`,
`Cancels`) - acceptance first, a cancel or reject last, each maker once, and what the
trades tell of an order is what it has lost in the book (`TradesTell`). Everything
else uses only that.

* `Core`: the types, with what ties the writer's step to the event in hand (`Typed`);
  what the statements of an order's calls have come to, and when it has a row
  (`Rowed`); before its PLACE is in the stream nothing is known of an order, and only a
  cancel that has overtaken it is ahead of the PLACE (`Once`); the row the writer has
  read is still the row when it writes (`SeenRow`), because only the writer writes
  filled quantities, one event at a time.
* `ClosingLast`: no event follows an order's last word, and it has left the book.
* `Within`: filled quantity, lots of events not yet applied and lots in the book are
  together no more than the order, of an order that is placed once (`Plain`).
  `Written` corrects for a trade of which the row has been written and the event is
  still in hand.
* `Covered`: what is locked in a balance row is at least the sum of its orders' claims,
  if all of them are in budget (`Clear`). An order claims the margin of what its owner
  has not been debited for (`Paid`) from `Lock` until the margin has been released after
  its last word. The margin of what is on its way or rests is part of the claim; the
  claim covers each debit, so that none is capped, and each release is of what is still
  claimed. That a debit stays within the claim is where the limit of the order counts:
  no buyer in budget pays more than the price its margin was locked for (`Cheap`).
* `Balanced`: what the users have of an asset, the open transaction included, with fees
  and the outside user's gains, is the deposits and the half of the trade in hand that
  has been settled (`Half`), if the orders paid in that asset are in budget (`Sound`). It
  needs `Covered`: a capped debit would make money, and does when one is not in budget.
* `Story`, of an order placed once and ahead of its CANCEL: its lots are accounted for
  (`Accounted`): it ends with some of them untraded, has ended, or all that are not in
  the book have been traded; as long as the engine has it the row is open, or was marked
  canceled while the cancel is in the stream; and once its last event is applied the row
  is closed. Here `AcceptFirst` is what keeps a late "accepted" from reopening a row that
  is filled, and the second clause of `Followed` what keeps an order from resting behind
  a row that has been marked canceled: its cancel is still to come.

`Covered`, `Balanced` and `Story` are claimed while `crashes = 0`, as the properties are,
and `Story` not of orders filled at the mark price.

For these proofs the module's sums are the community modules' `SumFunction`, and the
lots a step takes from each maker are written as a sum over the makers.

Only model-checked: the liveness properties `MatchReturns`, `EveryBatchAnswered`,
`OutboxDrains`, `EventsApplied`, `ShutdownEnds`, `CallsEnd` and `MarkCatchesUp`
(fairness and ENABLED are out of the prover's reach), and that the five runs
expected to fail do. Every safety property of the passing runs has a theorem.

## Not modelled, and why

Left out in a module that is there:

* `Engine!PublishOutcome` publishes the trade at the mark price and the outcome in one
  step; nothing but a crash can come between. `executeWithRetry()` also repeats PUBLISH
  and XACK after a reconnect (`redis_client.cpp:48`): an event that goes out twice is not
  modelled, a batch whose reply is lost is (`LoseReply`) - `NeverTwice` says that it is
  not repeated, and that it is never answered is not caught by `EveryBatchAnswered`,
  which is about batches that arrived.
* `Engine!CopyBids` and `CopyAsks` copy a side of the book in one step;
  `serializeState()` walks it order by order beside `match()` (`orderbook.cpp:304`).
* `MarketMaker!Throw` is a call Redis has not taken. One it has taken and whose answer
  is lost, or that the client sends again, is not modelled.
* `OrderPath`: a request that finds its `clientOrderId` answers 200 with the order of the
  first one, which may not be sent yet; `AnsweredIsPlaced` is about the 201 of the request
  that inserts.
* `Balances`: a lost update by `withdraw()` is modelled and allowed (`Ledger` gives it two
  steps), not excluded. `Positions`: what a close beyond the position drops, and two close
  calls beside each other, are modelled; `PositionIsNet` and `CloseOnlyCloses` are about
  positions while they are open, and about closes nothing else traded beside.

Left out altogether:

* The engine's refusal of an invalid order (`engine.cpp:73-81`): the order
  service lets none through, and the market maker sends fixed fields.
* Several markets: books share `mu_` only, which a snapshot holds for all.
* `ORDER_BOOK_UPDATED`, depth and the Redis cache: views of the book.
* Kafka: nothing reads the topic back.
* Leverage other than 1, rounding of fees, entry price, margin and realised PnL
  of positions: numbers no decision in the code depends on.
* The market maker's REST fallback (`orderManager.updateQuotes()`,
  `riskManager.ts`) is reached only when the injector throws, and it catches its
  own errors; `pauseQuoting()` has no caller, so that quotes are not cancelled
  when the price gets stale, only not renewed.
* Decimals of the engine: big-number parsing; models count ticks and lots. In the
  market maker prices are exact where the code uses floating point.
* Validation that refuses a request before it writes anything.
* Authentication, market data routes, health page, bots, front-end components.

## Plan

Done: `OrderBook`, `Engine`, `OrderPath`, `MarketMaker` and `Positions` (with
`PriceFeed`) and their proofs, `Balances` with `Ledger` and the proof of its
refinement, and `Settlement` with both kinds of outside liquidity.

Left:

1. `Decimals`: parsing, comparison and sums with int64 wrap against exact
   arithmetic, on a small width.
2. An abstract `Exchange` (an order is new, resting, filled, canceled or
   rejected) as a specification `Engine` implements while nothing fails.
