--------------------------- MODULE MarketMakerProofs ---------------------------
(***************************************************************************)
(* Theorems about MarketMaker, for any reference prices, spreads, numbers  *)
(* of levels, quote cycles, quotes and faults.                             *)
(***************************************************************************)
EXTENDS MarketMaker, FiniteSetTheorems, FunctionTheorems, SequenceTheorems, TLAPS

Places(t)  == tasks[t].call.kind = "place"
Cancels(t) == tasks[t].call.kind = "cancel"
Id(t)      == tasks[t].call.id
State(t)   == tasks[t].call.state

Priced == Seq(Quote)

-----------------------------------------------------------------------------
(* Facts about quotes and maps. *)

LEMMA RangeOf ==
    ASSUME NEW S, NEW s \in Seq(S)
    PROVE  /\ Range(s) \subseteq S
           /\ \A i \in 1..Len(s) : s[i] \in Range(s)
           /\ \A x \in Range(s) : \E i \in 1..Len(s) : s[i] = x
  BY DEF Range

\* A set of naturals has a least element: the natural numbers are well founded.
LEMMA LeastOf ==
    ASSUME NEW S \in SUBSET Nat, S # {}
    PROVE  Min(S) \in S /\ \A x \in S : Min(S) <= x
<1> DEFINE R == OpToRel(<, Nat)
<1>1. \E x \in S : \A y \in S : ~ (<<y, x>> \in R)
  <2> HIDE DEF R
  <2> QED BY NatLessThanWellFounded, WFMin DEF R
<1>2. \A x, y \in Nat : y < x => <<y, x>> \in R
  BY DEF OpToRel
<1> HIDE DEF R
<1>3. PICK x \in S : \A y \in S : ~ (<<y, x>> \in R)
  BY <1>1
<1>4. \A y \in S : x \in Nat /\ y \in Nat /\ ~ (y < x)
  BY <1>2, <1>3
<1>5. \A y \in S : x <= y
  BY <1>4
<1>6. \E z \in S : \A y \in S : z <= y
  BY <1>5
<1> QED BY <1>6, Zenon DEF Min

\* Every level of both sides has a price.
LEMMA QuotesTyped ==
    ASSUME NEW ref \in Reference
    PROVE  CalculateQuotes(ref) \in Priced
<1>1. /\ ref \in Nat /\ SpreadBps \in Nat /\ LevelBps \in Nat /\ Levels \in Nat
      /\ TickSize \in Nat /\ TickSize > 0
  BY MarketMakerAssumption
<1>2. ASSUME NEW x \in Int
      PROVE  RoundToTick(x) \in Int
  <2> DEFINE n == 2 * x + TickSize * 20000
             d == 2 * TickSize * 20000
  <2>1. n \in Int /\ d \in Nat /\ d > 0
    BY <1>1
  <2> HIDE DEF n, d
  <2>2. n \div d \in Int
    BY <2>1
  <2>3. (n \div d) * TickSize \in Int
    <3> DEFINE y == n \div d
    <3>1. y \in Int
      BY <2>2
    <3> HIDE DEF y
    <3>2. y * TickSize \in Int
      BY <1>1, <3>1
    <3> QED BY <3>2 DEF y
  <2> QED BY <2>3 DEF RoundToTick, n, d
<1>3. ASSUME NEW i \in 1..Levels
      PROVE  BidPrice(ref, i) \in Int /\ AskPrice(ref, i) \in Int
  <2>1. i \in Nat
    OBVIOUS
  <2>2. /\ ref * 20000 - ref * SpreadBps - 2 * ref * LevelBps * i \in Int
        /\ ref * 20000 + ref * SpreadBps + 2 * ref * LevelBps * i \in Int
    BY <1>1, <2>1
  <2> QED BY <1>2, <2>2 DEF BidPrice, AskPrice
<1> DEFINE bids == [i \in 1..Levels |-> [side |-> "buy", price |-> BidPrice(ref, i)]]
           asks == [i \in 1..Levels |-> [side |-> "sell", price |-> AskPrice(ref, i)]]
<1>4. bids \in Seq(Quote)
  <2>1. \A i \in 1..Levels : [side |-> "buy", price |-> BidPrice(ref, i)] \in Quote
    BY <1>3 DEF Quote
  <2> QED BY <1>1, <2>1
<1>5. asks \in Seq(Quote)
  <2>1. \A i \in 1..Levels : [side |-> "sell", price |-> AskPrice(ref, i)] \in Quote
    BY <1>3 DEF Quote
  <2> QED BY <1>1, <2>1
<1> HIDE DEF bids, asks
<1>6. bids \o asks \in Seq(Quote)
  BY <1>4, <1>5, ConcatProperties
<1> QED BY <1>6 DEF CalculateQuotes, bids, asks, Priced

\* What is left to place are quotes that were to do, the first of them valid
\* and not named by the maps.
LEMMA UnnamedProperties ==
    ASSUME NEW todo \in Priced, NEW map
    PROVE  /\ Unnamed(todo, map) \in Priced
           /\ Range(Unnamed(todo, map)) \subseteq Range(todo)
           /\ Unnamed(todo, map) # <<>> =>
                 LET q == Head(Unnamed(todo, map))
                 IN  /\ q \in Quote /\ q \in Range(todo) /\ Valid(q) /\ q \notin DOMAIN map
                     /\ Tail(Unnamed(todo, map)) \in Priced
                     /\ Range(Tail(Unnamed(todo, map))) \subseteq Range(todo)
<1> DEFINE missing == {i \in 1..Len(todo) : Valid(todo[i]) /\ todo[i] \notin DOMAIN map}
           m == Min(missing)
           left == Unnamed(todo, map)
<1>0. todo \in Seq(Quote) /\ Len(todo) \in Nat
  BY DEF Priced
<1>1. CASE missing = {}
  <2>1. left = <<>>
    BY <1>1 DEF Unnamed
  <2> QED BY <2>1 DEF Priced, Range
<1>2. CASE missing # {}
  <2>1. m \in missing
    <3>1. missing \in SUBSET Nat
      OBVIOUS
    <3> HIDE DEF missing
    <3> QED BY <1>2, <3>1, LeastOf
  <2>2. m \in 1..Len(todo) /\ Valid(todo[m]) /\ todo[m] \notin DOMAIN map
    BY <2>1
  <2>3. left = SubSeq(todo, m, Len(todo))
    BY <1>2 DEF Unnamed
  <2> HIDE DEF m, left, missing
  <2>4. /\ left \in Seq(Quote) /\ Len(left) = Len(todo) - m + 1
        /\ \A i \in 1..Len(left) : left[i] = todo[m + i - 1]
    BY <1>0, <2>2, <2>3, SubSeqProperties
  <2>5. left # <<>> /\ Head(left) = todo[m]
    BY <1>0, <2>2, <2>4
  <2>6. /\ Tail(left) \in Seq(Quote) /\ Len(Tail(left)) = Len(left) - 1
        /\ \A i \in 1..Len(Tail(left)) : Tail(left)[i] = left[i + 1]
    BY <2>4, <2>5, HeadTailProperties
  <2>7. todo[m] \in Quote
    BY <1>0, <2>2
  <2>8. \A i \in 1..Len(left) : m + i - 1 \in 1..Len(todo)
    BY <1>0, <2>2, <2>4
  <2>9. Range(left) \subseteq Range(todo)
    BY <1>0, <2>4, <2>8, RangeOf DEF Range
  <2>10. Range(Tail(left)) \subseteq Range(left)
    <3>1. \A i \in 1..Len(Tail(left)) : i + 1 \in 1..Len(left)
      BY <2>4, <2>6
    <3> QED BY <2>4, <2>6, <3>1 DEF Range
  <2>11. todo[m] \in Range(todo)
    BY <1>0, <2>2, RangeOf
  <2> QED BY <2>2, <2>4, <2>5, <2>6, <2>7, <2>9, <2>10, <2>11 DEF Priced, left
<1> QED BY <1>1, <1>2

-----------------------------------------------------------------------------
(* Types. *)

\* A cycle in phase at goes on with a cancel, ...
NextCancels(t, at, ref, todo, map, side, q) ==
    /\ at # "place" /\ (side = "buy" => at = "buy")
    /\ side = "sell" /\ at = "buy" => Stale("buy", ref, map) = {}
    /\ q \in Stale(side, ref, map)
    /\ tasks' = [tasks EXCEPT ![t] = [at |-> side, ref |-> ref, todo |-> todo,
                                     call |-> Await("cancel", map[q])]]
    /\ made' = made

\* ... with a quote ...
NextPlaces(t, at, ref, todo, map, q, left) ==
    /\ at = "buy" => Stale("buy", ref, map) = {}
    /\ at \in {"buy", "sell"} => Stale("sell", ref, map) = {}
    /\ q \in Quote /\ Valid(q) /\ q \in Range(todo) /\ q \notin DOMAIN map
    /\ left \in Priced /\ Range(left) \subseteq Range(todo)
    /\ tasks' = [tasks EXCEPT ![t] = [at |-> "place", ref |-> ref, todo |-> left,
                                     call |-> Await("place", Len(made) + 1)]]
    /\ made' = Append(made, q)

\* ... or not at all.
NextEnds(t) == tasks' = [tasks EXCEPT ![t] = Idle] /\ made' = made

\* A cycle that goes on comes to a cancel, to a quote to place, or to its end.
LEMMA ProceedOutcome ==
    ASSUME NEW t, NEW at, NEW ref, NEW todo \in Priced, NEW map,
           Proceed(t, at, ref, todo, map)
    PROVE  \/ \E side \in {"buy", "sell"} : \E q : NextCancels(t, at, ref, todo, map, side, q)
           \/ \E q, left : NextPlaces(t, at, ref, todo, map, q, left)
           \/ NextEnds(t)
<1> DEFINE stale(side) == Stale(side, ref, map)
           cancelling(side) == /\ \E q \in stale(side) :
                                     tasks' = [tasks EXCEPT ![t] =
                                         [at |-> side, ref |-> ref, todo |-> todo,
                                          call |-> Await("cancel", map[q])]]
                               /\ UNCHANGED made
           left == Unnamed(todo, map)
<1>1. CASE at = "buy" /\ cancelling("buy")
  BY <1>1 DEF NextCancels
<1>2. CASE (at = "sell" \/ (at = "buy" /\ stale("buy") = {})) /\ cancelling("sell")
  BY <1>2 DEF NextCancels
<1>3. CASE /\ at = "buy" => stale("buy") = {}
           /\ at \in {"buy", "sell"} => stale("sell") = {}
           /\ IF left = <<>>
              THEN tasks' = [tasks EXCEPT ![t] = Idle] /\ UNCHANGED made
              ELSE /\ Len(made) < MaxQuotes
                   /\ made' = Append(made, Head(left))
                   /\ tasks' = [tasks EXCEPT ![t] =
                          [at |-> "place", ref |-> ref, todo |-> Tail(left),
                           call |-> Await("place", Len(made) + 1)]]
  <2>1. CASE left = <<>>
    BY <1>3, <2>1 DEF NextEnds
  <2>2. CASE left # <<>>
    <3>1. NextPlaces(t, at, ref, todo, map, Head(left), Tail(left))
      BY <1>3, <2>2, UnnamedProperties DEF NextPlaces
    <3> QED BY <3>1
  <2> QED BY <2>1, <2>2
<1> QED BY <1>1, <1>2, <1>3 DEF Proceed

\* The types of orders, calls and maps, apart from those of the rest.
CoreTypes ==
    /\ made \in Seq(Quote) /\ book \union lost \subseteq 1..Len(made)
    /\ active \in [DOMAIN active -> 1..Len(made)]
    /\ \A q \in DOMAIN active : made[active[q]] = q
    /\ DOMAIN tasks = Task
    /\ \A t \in Slot : tasks[t] \in Cycle \union {Idle}
    /\ tasks[Stop] \in Drop

\* The types of the rest.
FlatTypes ==
    /\ stage \in {"down", "login", "reconcile", "waiting", "quoting"}
    /\ stopping \in {"no", "injector", "rest", "exit", "stopped"}
    /\ price \in Reference \union {NoPrice}
    /\ rest \in [open: SUBSET RestOrder, shown: SUBSET RestOrder, known: SUBSET RestOrder]
    /\ faults \in 0..MaxFaults
    /\ overlapped \in BOOLEAN /\ selfTraded \in BOOLEAN /\ caught \in BOOLEAN

\* Orders stay what they are when one is made.
LEMMA MadeGrows ==
    ASSUME made \in Seq(Quote),
           made' = made \/ \E q \in Quote : made' = Append(made, q)
    PROVE  /\ made' \in Seq(Quote) /\ Len(made) \in Nat /\ Len(made') \in Nat
           /\ Len(made) <= Len(made') /\ 1..Len(made) \subseteq 1..Len(made')
           /\ \A id \in 1..Len(made) : made'[id] = made[id]
           /\ Call \subseteq Call' /\ Cycle \subseteq Cycle' /\ Drop \subseteq Drop'
<1>1. /\ made' \in Seq(Quote) /\ Len(made) \in Nat /\ Len(made') \in Nat
      /\ Len(made) <= Len(made')
      /\ \A id \in 1..Len(made) : made'[id] = made[id]
  BY AppendProperties
<1>2. 1..Len(made) \subseteq 1..Len(made')
  BY <1>1
<1>3. Call \subseteq Call'
  BY <1>2 DEF Call
<1>4. Cycle \subseteq Cycle'
  BY <1>3 DEF Cycle
<1>5. Drop \subseteq Drop'
  <2>1. Seq(1..Len(made)) \subseteq Seq(1..Len(made'))
    BY <1>2
  <2> QED BY <1>3, <2>1 DEF Drop
<1> QED BY <1>1, <1>2, <1>3, <1>4, <1>5

\* A step that changes one task only.
LEMMA OneTask ==
    ASSUME CoreTypes, NEW t \in Task, NEW c,
           made' = made \/ \E q \in Quote : made' = Append(made, q),
           tasks' = [tasks EXCEPT ![t] = c],
           t \in Slot => c \in (Cycle \union {Idle})',
           t = Stop => c \in Drop'
    PROVE  /\ DOMAIN tasks' = Task
           /\ \A u \in Slot : tasks'[u] \in (Cycle \union {Idle})'
           /\ tasks'[Stop] \in Drop'
           /\ tasks'[t] = c /\ \A u \in Task \ {t} : tasks'[u] = tasks[u]
<1>1. Cycle \subseteq Cycle' /\ Drop \subseteq Drop' /\ Idle' = Idle
  BY MadeGrows DEF CoreTypes, Idle, NoCall, NoPrice
<1>2. tasks'[t] = c /\ \A u \in Task \ {t} : tasks'[u] = tasks[u]
  BY DEF CoreTypes
<1> QED BY <1>1, <1>2, MarketMakerAssumption DEF CoreTypes, Task

\* Where a cycle goes on, its new call is well typed.
LEMMA ProceedTypes ==
    ASSUME CoreTypes, NEW t \in Slot, NEW at \in {"buy", "sell", "place"}, NEW ref \in Reference,
           NEW todo \in Priced, NEW map, map \in [DOMAIN map -> 1..Len(made)],
           Proceed(t, at, ref, todo, map)
    PROVE  /\ made' = made \/ \E q \in Quote : made' = Append(made, q)
           /\ DOMAIN tasks' = Task
           /\ \A u \in Slot : tasks'[u] \in (Cycle \union {Idle})'
           /\ tasks'[Stop] \in Drop'
           /\ tasks'[t] \in (Cycle \union {Idle})' /\ \A u \in Task \ {t} : tasks'[u] = tasks[u]
<1>1. CASE \E side \in {"buy", "sell"} : \E q : NextCancels(t, at, ref, todo, map, side, q)
  <2>0. PICK side \in {"buy", "sell"} : \E q : NextCancels(t, at, ref, todo, map, side, q)
    BY <1>1
  <2>1. PICK q : NextCancels(t, at, ref, todo, map, side, q)
    BY <2>0
  <2> DEFINE c == [at |-> side, ref |-> ref, todo |-> todo, call |-> Await("cancel", map[q])]
  <2>2. tasks' = [tasks EXCEPT ![t] = c] /\ made' = made /\ q \in DOMAIN map
    BY <2>1 DEF NextCancels, Stale
  <2>3. Await("cancel", map[q]) \in Call
    BY <2>2 DEF Await, Call
  <2>4. c \in Cycle'
    BY <2>2, <2>3 DEF Cycle, Call, Priced
  <2> HIDE DEF c
  <2> QED BY <2>2, <2>4, OneTask, MarketMakerAssumption DEF Task
<1>2. CASE \E q, left : NextPlaces(t, at, ref, todo, map, q, left)
  <2>1. PICK q, left : NextPlaces(t, at, ref, todo, map, q, left)
    BY <1>2
  <2> DEFINE c == [at |-> "place", ref |-> ref, todo |-> left,
                   call |-> Await("place", Len(made) + 1)]
  <2>2. tasks' = [tasks EXCEPT ![t] = c] /\ made' = Append(made, q) /\ q \in Quote /\ left \in Priced
    BY <2>1 DEF NextPlaces
  <2>3. Len(made) + 1 \in 1..Len(made')
    BY <2>2, AppendProperties DEF CoreTypes
  <2>4. c \in Cycle'
    BY <2>2, <2>3 DEF Cycle, Call, Priced, Await
  <2> HIDE DEF c
  <2> QED BY <2>2, <2>4, OneTask, MarketMakerAssumption DEF Task
<1>3. CASE NextEnds(t)
  <2>1. tasks' = [tasks EXCEPT ![t] = Idle] /\ made' = made
    BY <1>3 DEF NextEnds
  <2>2. Idle \in (Cycle \union {Idle})'
    BY DEF Idle, NoCall, NoPrice
  <2> QED BY <2>1, <2>2, OneTask, MarketMakerAssumption DEF Task
<1> QED BY <1>1, <1>2, <1>3, ProceedOutcome

\* A set of numbers below a bound can be listed.
LEMMA SetToSeqProperties ==
    ASSUME NEW n \in Nat, NEW S \in SUBSET (1..n)
    PROVE  SetToSeq(S) \in Seq(S) /\ Range(SetToSeq(S)) = S
<1> DEFINE N == Cardinality(S)
           P(f) == f \in [1..N -> S] /\ IsInjective(f)
<1>1. IsFiniteSet(S) /\ N \in Nat
  <2>1. IsFiniteSet(1..n)
    BY FS_Interval
  <2> QED BY <2>1, FS_Subset, FS_CardinalityType
<1>2. \E f : f \in Bijection(1..N, S)
  BY <1>1, FS_CardinalityType DEF ExistsBijection
<1>3. PICK g : g \in Bijection(1..N, S)
  BY <1>2
<1>4. g \in [1..N -> S] /\ IsInjective(g)
  <2> HIDE DEF N
  <2> QED BY <1>3, Zenon DEF Bijection, Injection
<1> DEFINE h == SetToSeq(S)
<1>5. h \in [1..N -> S] /\ IsInjective(h)
  BY <1>4 DEF SetToSeq
<1> HIDE DEF h
<1>6. h \in Seq(S)
  BY <1>1, <1>5
<1>7. h \in Bijection(1..N, Range(h))
  BY <1>5, Fun_IsInj, Fun_InjMeansBijImage DEF IsInjective
<1>8. IsFiniteSet(1..N) /\ Cardinality(1..N) = N
  BY <1>1, FS_Interval
<1>9. Cardinality(Range(h)) = N
  BY <1>7, <1>8, FS_Bijection DEF ExistsBijection
<1>10. Range(h) \in SUBSET S
  BY <1>5, Fun_RangeProperties
<1>11. Range(h) = S
  BY <1>1, <1>9, <1>10, FS_Subset
<1> QED BY <1>6, <1>11 DEF h

\* A shutdown that goes on has ids of quotes left to cancel, or ends.
LEMMA NextDropTyped ==
    ASSUME NEW ids \in Seq(1..Len(made))
    PROVE  NextDrop(ids) \in Drop
<1>1. CASE ids = <<>>
  <2>1. NextDrop(ids) = [at |-> "drop", ref |-> NoPrice, todo |-> <<>>, call |-> NoCall]
    BY <1>1 DEF NextDrop, Idle
  <2> QED BY <2>1 DEF Drop
<1>2. CASE ids # <<>>
  <2>1. Head(ids) \in 1..Len(made) /\ Tail(ids) \in Seq(1..Len(made))
    BY <1>2, HeadTailProperties
  <2>2. Await("cancel", Head(ids)) \in Call
    BY <2>1 DEF Await, Call
  <2> QED BY <1>2, <2>1, <2>2 DEF NextDrop, Drop
<1> QED BY <1>1, <1>2

\* What a cycle writes into the maps: every entry still stands at its quote.
LEMMA EnteredProperties ==
    ASSUME CoreTypes, NEW call \in Call
    PROVE  LET new == Entered(call)
           IN  /\ new \in [DOMAIN new -> 1..Len(made)]
               /\ \A q \in DOMAIN new : made[new[q]] = q
               /\ call.kind = "cancel" =>
                     /\ DOMAIN new = DOMAIN active \ {made[call.id]}
                     /\ \A q \in DOMAIN new : new[q] = active[q]
               /\ call.kind = "place" /\ call.state = "done" =>
                     /\ DOMAIN new = DOMAIN active \union {made[call.id]}
                     /\ new[made[call.id]] = call.id
                     /\ \A q \in DOMAIN active : q # made[call.id] => new[q] = active[q]
               /\ call.kind = "place" /\ call.state # "done" => new = active
<1>1. call.id \in 1..Len(made) /\ call.kind \in {"place", "cancel"}
  BY DEF Call
<1>2. /\ active \in [DOMAIN active -> 1..Len(made)]
      /\ \A q \in DOMAIN active : made[active[q]] = q
  BY DEF CoreTypes
<1>3. CASE call.kind = "cancel"
  <2>1. Entered(call) = [q \in DOMAIN active \ {made[call.id]} |-> active[q]]
    BY <1>3 DEF Entered, Without, Restrict
  <2> QED BY <1>2, <1>3, <2>1
<1>4. CASE call.kind = "place" /\ call.state = "done"
  <2>1. Entered(call) = [k \in DOMAIN active \union {made[call.id]} |->
                           IF k = made[call.id] THEN call.id ELSE active[k]]
    BY <1>4 DEF Entered, With
  <2> QED BY <1>1, <1>2, <1>4, <2>1
<1>5. CASE call.kind = "place" /\ call.state # "done"
  <2>1. Entered(call) = active
    BY <1>5 DEF Entered
  <2> QED BY <1>2, <1>5, <2>1
<1> QED BY <1>1, <1>3, <1>4, <1>5

\* So that each entry is old or that of the order just placed.
LEMMA EnteredEntries ==
    ASSUME CoreTypes, NEW call \in Call
    PROVE  /\ Entered(call) \in [DOMAIN Entered(call) -> 1..Len(made)]
           /\ \A q \in DOMAIN Entered(call) :
                 \/ q \in DOMAIN active /\ Entered(call)[q] = active[q]
                 \/ call.kind = "place" /\ call.state = "done" /\ Entered(call)[q] = call.id
<1> DEFINE new == Entered(call)
<1>1. call.kind \in {"place", "cancel"}
  BY DEF Call
<1>2. /\ new \in [DOMAIN new -> 1..Len(made)]
      /\ call.kind = "cancel" =>
            /\ DOMAIN new = DOMAIN active \ {made[call.id]}
            /\ \A q \in DOMAIN new : new[q] = active[q]
      /\ call.kind = "place" /\ call.state = "done" =>
            /\ DOMAIN new = DOMAIN active \union {made[call.id]}
            /\ new[made[call.id]] = call.id
            /\ \A q \in DOMAIN active : q # made[call.id] => new[q] = active[q]
      /\ call.kind = "place" /\ call.state # "done" => new = active
  BY EnteredProperties
<1> HIDE DEF new
<1>3. \A q \in DOMAIN new : \/ q \in DOMAIN active /\ new[q] = active[q]
                            \/ call.kind = "place" /\ call.state = "done" /\ new[q] = call.id
  <2>1. CASE call.kind = "cancel"
    BY <1>2, <2>1
  <2>2. CASE call.kind = "place" /\ call.state = "done"
    BY <1>2, <2>2
  <2>3. CASE call.kind = "place" /\ call.state # "done"
    BY <1>2, <2>3
  <2> QED BY <1>1, <2>1, <2>2, <2>3
<1> QED BY <1>2, <1>3 DEF new

\* Between two awaits only the maps and this cycle change.
LEMMA CoreTypesNext == MakerTypeOK /\ [Next]_vars => CoreTypes'
<1> SUFFICES ASSUME MakerTypeOK, [Next]_vars
             PROVE  CoreTypes'
  OBVIOUS
<1>0. CoreTypes /\ Len(made) \in Nat
  BY DEF MakerTypeOK, CoreTypes
<1>a. ASSUME made' = made
      PROVE  Call' = Call /\ Cycle' = Cycle /\ Drop' = Drop /\ Idle' = Idle
  BY <1>a DEF Call, Cycle, Drop, Idle, NoCall, NoPrice
<1>1. ASSUME NEW t \in Slot, Tick(t)
      PROVE  CoreTypes'
  <2>1. CalculateQuotes(price) \in Priced /\ price \in Reference
    BY <1>1, QuotesTyped DEF Tick, MakerTypeOK
  <2>2. /\ made' = made \/ \E q \in Quote : made' = Append(made, q)
        /\ DOMAIN tasks' = Task
        /\ \A u \in Slot : tasks'[u] \in (Cycle \union {Idle})'
        /\ tasks'[Stop] \in Drop'
    BY <1>0, <1>1, <2>1, ProceedTypes DEF Tick, CoreTypes
  <2>3. active' = active /\ book' = book /\ lost' = lost
    BY <1>1 DEF Tick
  <2> QED BY <1>0, <2>2, <2>3, MadeGrows DEF CoreTypes
<1>2. ASSUME NEW t \in Slot, Continue(t)
      PROVE  CoreTypes'
  <2>1. /\ tasks[t] \in Cycle /\ tasks[t].call \in Call /\ tasks[t].ref \in Reference
        /\ tasks[t].at \in {"buy", "sell", "place"} /\ tasks[t].todo \in Priced
    BY <1>0, <1>2 DEF Continue, CoreTypes, Idle, NoCall, Cycle, Priced
  <2>2. /\ active' = Entered(tasks[t].call)
        /\ active' \in [DOMAIN active' -> 1..Len(made)]
        /\ \A q \in DOMAIN active' : made[active'[q]] = q
    BY <1>0, <1>2, <2>1, EnteredProperties DEF Continue
  <2>3. /\ made' = made \/ \E q \in Quote : made' = Append(made, q)
        /\ DOMAIN tasks' = Task
        /\ \A u \in Slot : tasks'[u] \in (Cycle \union {Idle})'
        /\ tasks'[Stop] \in Drop'
    BY <1>0, <1>2, <2>1, <2>2, ProceedTypes DEF Continue
  <2>4. lost' \subseteq 1..Len(made')
    <3>1. Range(active) \subseteq 1..Len(made)
      BY <1>0 DEF CoreTypes, Range
    <3>2. 1..Len(made) \subseteq 1..Len(made')
      BY <1>0, <2>3, MadeGrows DEF CoreTypes
    <3> QED BY <1>0, <1>2, <3>1, <3>2 DEF Continue, Lose, CoreTypes
  <2>5. book' = book
    BY <1>2 DEF Continue
  <2> QED BY <1>0, <2>2, <2>3, <2>4, <2>5, MadeGrows DEF CoreTypes
<1>3. ASSUME NEW t \in Task, Deliver(t) \/ Throw(t)
      PROVE  CoreTypes'
  <2>1. /\ made' = made /\ active' = active
        /\ tasks[t].call.state = "sent"
        /\ \E s \in {"done", "failed"} : tasks' = [tasks EXCEPT ![t].call.state = s]
    BY <1>3 DEF Deliver, Throw
  <2>2. PICK s \in {"done", "failed"} : tasks' = [tasks EXCEPT ![t].call.state = s]
    BY <2>1
  <2>3. tasks[t].call \in Call
    BY <1>0, <2>1, MarketMakerAssumption DEF CoreTypes, Task, Idle, NoCall, Cycle, Drop
  <2> DEFINE a == [tasks[t].call EXCEPT !.state = s]
             c == [tasks[t] EXCEPT !.call = a]
  <2>4. tasks' = [tasks EXCEPT ![t] = c]
    BY <2>2
  <2>5. a \in Call
    BY <2>3 DEF Call
  <2>6. (t \in Slot => c \in Cycle) /\ (t = Stop => c \in Drop)
    <3> HIDE DEF a
    <3>1. t \in Slot => tasks[t] \in Cycle
      BY <1>0, <2>1 DEF CoreTypes, Idle, NoCall
    <3>2. t = Stop => tasks[t] \in Drop
      BY <1>0 DEF CoreTypes
    <3> QED BY <2>5, <3>1, <3>2 DEF Cycle, Drop
  <2> HIDE DEF c
  <2>7. /\ DOMAIN tasks' = Task
        /\ \A u \in Slot : tasks'[u] \in (Cycle \union {Idle})'
        /\ tasks'[Stop] \in Drop'
    BY <1>0, <1>a, <2>1, <2>4, <2>6, OneTask
  <2>8. book' \subseteq 1..Len(made) /\ lost' \subseteq 1..Len(made)
    <3> PICK id : id = tasks[t].call.id
      OBVIOUS
    <3>1. id \in 1..Len(made) /\ book \subseteq 1..Len(made) /\ lost \subseteq 1..Len(made)
      BY <1>0, <2>3 DEF CoreTypes, Call
    <3>2. CASE Deliver(t)
      <4>1. lost' = lost /\ (Rest(id) \/ book' = book \ {id})
        BY <3>2 DEF Deliver
      <4>2. book' \subseteq book \union {id}
        BY <4>1 DEF Rest
      <4> QED BY <3>1, <4>1, <4>2
    <3>3. CASE Throw(t)
      <4>1. book' = book /\ lost' \subseteq lost \union {id}
        BY <3>3 DEF Throw, Lose
      <4> QED BY <3>1, <4>1
    <3> QED BY <1>3, <3>2, <3>3
  <2> QED BY <1>0, <2>1, <2>7, <2>8 DEF CoreTypes
<1>4. CASE Signal
  <2>1. /\ made' = made /\ active' = active /\ book' = book
        /\ tasks' = [tasks EXCEPT ![Stop] = NextDrop(SetToSeq(ToCancel))]
        /\ lost' = lost \union Placing
    BY <1>4 DEF Signal, Lose
  <2>2. ToCancel \in SUBSET (1..Len(made))
    BY <1>0 DEF ToCancel, Range, CoreTypes
  <2>3. SetToSeq(ToCancel) \in Seq(1..Len(made))
    <3>1. SetToSeq(ToCancel) \in Seq(ToCancel)
      BY <1>0, <2>2, SetToSeqProperties
    <3> QED BY <2>2, <3>1, SeqMonotonic
  <2>4. NextDrop(SetToSeq(ToCancel)) \in Drop
    BY <2>3, NextDropTyped
  <2>5. Placing \subseteq 1..Len(made)
    BY <1>0 DEF Placing, CoreTypes, Task, Cycle, Drop, Call, Idle, NoCall
  <2>6. Stop \in Task /\ Stop \notin Slot
    BY MarketMakerAssumption DEF Task
  <2>7. /\ DOMAIN tasks' = Task
        /\ \A u \in Slot : tasks'[u] \in (Cycle \union {Idle})'
        /\ tasks'[Stop] \in Drop'
    BY <1>0, <1>a, <2>1, <2>4, <2>6, OneTask
  <2> QED BY <1>0, <2>1, <2>5, <2>7 DEF CoreTypes
<1>5. CASE DropNext
  <2>1. /\ made' = made /\ active' = active /\ book' = book /\ lost' = lost
        /\ tasks' = [tasks EXCEPT ![Stop] = NextDrop(tasks[Stop].todo)]
    BY <1>5 DEF DropNext, history
  <2>2. NextDrop(tasks[Stop].todo) \in Drop
    BY <1>0, NextDropTyped DEF CoreTypes, Drop
  <2>3. Stop \in Task /\ Stop \notin Slot
    BY MarketMakerAssumption DEF Task
  <2>4. /\ DOMAIN tasks' = Task
        /\ \A u \in Slot : tasks'[u] \in (Cycle \union {Idle})'
        /\ tasks'[Stop] \in Drop'
    BY <1>0, <1>a, <2>1, <2>2, <2>3, OneTask
  <2> QED BY <1>0, <2>1, <2>4 DEF CoreTypes
<1>6. CASE Exit \/ Gone
  <2>1. /\ made' = made /\ book' = book /\ lost' \in {lost, lost \union book}
        /\ active' \in {active, NoMap} /\ tasks' = [t \in Task |-> Idle]
    BY <1>6 DEF Exit, Gone, Lose, history
  <2>2. Idle \in Drop
    BY DEF Idle, Drop, NoPrice
  <2>3. /\ NoMap \in [DOMAIN NoMap -> 1..Len(made)]
        /\ \A q \in DOMAIN NoMap : made[NoMap[q]] = q
    BY DEF NoMap
  <2>4. /\ DOMAIN tasks' = Task /\ tasks'[Stop] = Idle
        /\ \A u \in Slot : tasks'[u] = Idle
    BY <2>1 DEF Task
  <2> QED BY <1>0, <1>a, <2>1, <2>2, <2>3, <2>4 DEF CoreTypes
<1>7. CASE Boot \/ Login \/ Reconcile \/ CheckPrice \/ SetPrice \/ GetStale \/ CancelRest
           \/ Fill \/ FillRest \/ UNCHANGED vars
  <2>1. UNCHANGED <<made, tasks, active, lost>> /\ book' \subseteq book
    BY <1>7 DEF Boot, Login, Reconcile, CheckPrice, SetPrice, GetStale, CancelRest, Fill, FillRest,
                history, vars
  <2> QED BY <1>0, <1>a, <2>1 DEF CoreTypes
<1>8. CASE ClearMaps
  <2>1. UNCHANGED <<made, tasks, book, lost>> /\ active' = NoMap
    BY <1>8 DEF ClearMaps, history
  <2>2. /\ NoMap \in [DOMAIN NoMap -> 1..Len(made)]
        /\ \A q \in DOMAIN NoMap : made[NoMap[q]] = q
    BY DEF NoMap
  <2> QED BY <1>0, <1>a, <2>1, <2>2 DEF CoreTypes
<1>9. LoginFails \/ Kill => Gone
  BY DEF LoginFails, Kill
<1>10. Stop \in Task
  BY DEF Task
<1>11. Slot \subseteq Task
  BY DEF Task
<1> QED BY <1>1, <1>2, <1>3, <1>4, <1>5, <1>6, <1>7, <1>8, <1>9, <1>10, <1>11
        DEF Next, Startup, Shutdown

\* The types are kept by each action.
LEMMA FlatTypesNext == MakerTypeOK /\ [Next]_vars => FlatTypes'
<1> SUFFICES ASSUME MakerTypeOK, [Next]_vars
             PROVE  FlatTypes'
  OBVIOUS
<1>0. FlatTypes /\ MaxFaults \in Nat
  BY MarketMakerAssumption DEF MakerTypeOK, FlatTypes
<1> USE DEF FlatTypes
<1>a. MayFail => faults + 1 \in 0..MaxFaults
  BY <1>0 DEF MayFail
<1>1. ASSUME NEW t, Tick(t)
      PROVE  FlatTypes'
  BY <1>0, <1>1 DEF Tick, process
<1>2. ASSUME NEW t, Deliver(t) \/ Throw(t) \/ Continue(t)
      PROVE  FlatTypes'
  BY <1>0, <1>a, <1>2 DEF Deliver, Throw, Continue, Rest, process
<1>3. CASE Startup
  BY <1>0, <1>a, <1>3 DEF Startup, Boot, Login, LoginFails, Gone, Reconcile, CheckPrice, history
<1>4. CASE SetPrice \/ GetStale \/ Fill \/ FillRest \/ UNCHANGED vars
  BY <1>0, <1>4 DEF SetPrice, GetStale, Fill, FillRest,
                history, process, vars
<1>5. CASE Signal \/ DropNext \/ ClearMaps \/ Exit
  BY <1>0, <1>5 DEF Signal, DropNext, ClearMaps, Exit, history, process
<1>6. CASE CancelRest
  <2>1. /\ rest.open \in SUBSET RestOrder /\ rest.known \in SUBSET RestOrder
        /\ rest.shown \in SUBSET RestOrder
    BY <1>0
  <2>2. rest' \in [open: SUBSET RestOrder, shown: SUBSET RestOrder, known: SUBSET RestOrder]
    <3>1. CASE rest' = [rest EXCEPT !.open = rest.open \ rest.known, !.known = {}]
      BY <1>0, <2>1, <3>1
    <3>2. ASSUME NEW failed, rest' = [rest EXCEPT !.open = rest.open \ (rest.known \ failed),
                                                  !.known = {}]
          PROVE  rest' \in [open: SUBSET RestOrder, shown: SUBSET RestOrder,
                            known: SUBSET RestOrder]
      BY <1>0, <2>1, <3>2
    <3> QED BY <1>6, <3>1, <3>2 DEF CancelRest
  <2> QED BY <1>0, <1>a, <1>6, <2>2 DEF CancelRest
<1>7. CASE Kill
  BY <1>0, <1>a, <1>7 DEF Kill, Gone
<1> QED BY <1>1, <1>2, <1>3, <1>4, <1>5, <1>6, <1>7 DEF Next, Shutdown

\* The invariant that the others rest on, in its two parts.
LEMMA MakerTypesInductive ==
    /\ Init => MakerTypeOK
    /\ MakerTypeOK /\ [Next]_vars => MakerTypeOK'
<1>1. MakerTypeOK <=> CoreTypes /\ FlatTypes
  BY DEF MakerTypeOK, CoreTypes, FlatTypes
<1>2. MakerTypeOK' <=> CoreTypes' /\ FlatTypes'
  BY DEF MakerTypeOK, CoreTypes, FlatTypes
<1>3. ASSUME Init
      PROVE  CoreTypes /\ FlatTypes
  <2>1. CoreTypes
    <3>1. Idle \in Drop
      BY DEF Idle, Drop, NoPrice
    <3>2. /\ NoMap \in [DOMAIN NoMap -> 1..Len(made)]
          /\ \A q \in DOMAIN NoMap : made[NoMap[q]] = q
      BY DEF NoMap
    <3>3. made \in Seq(Quote) /\ book \union lost = {} /\ active = NoMap
      BY <1>3 DEF Init
    <3>4. /\ DOMAIN tasks = Task /\ tasks[Stop] = Idle
          /\ \A u \in Slot : tasks[u] = Idle
      BY <1>3 DEF Init, Task
    <3> QED BY <3>1, <3>2, <3>3, <3>4 DEF CoreTypes
  <2>2. FlatTypes
    <3>1. rest \in [open: SUBSET RestOrder, shown: SUBSET RestOrder, known: SUBSET RestOrder]
      BY <1>3 DEF Init
    <3>2. 0 \in 0..MaxFaults
      BY MarketMakerAssumption
    <3> QED BY <1>3, <3>1, <3>2 DEF Init, FlatTypes
  <2> QED BY <2>1, <2>2
<1> QED BY <1>1, <1>2, <1>3, CoreTypesNext, FlatTypesNext

\* Every variable keeps its type, and every entry of the maps stands at the side
\* and price of the order it names (activeBids, activeAsks).
THEOREM MakerTypes == Spec => []MakerTypeOK
<1> QED BY MakerTypesInductive, PTL DEF Spec

\* Orders placed over REST are apart from the quotes.
LEMMA RestStep ==
    ASSUME Reconcile \/ CancelRest
    PROVE  /\ UNCHANGED <<active, tasks, made, book, price, overlapped, lost, selfTraded, caught>>
           /\ faults' = faults \/ faults' = faults + 1
           /\ Reconcile => UNCHANGED stopping
           /\ CancelRest => stopping = "rest" /\ stopping' = "exit"
<1>1. UNCHANGED <<active, tasks, made, book, price, overlapped, lost, selfTraded, caught>>
  BY DEF Reconcile, CancelRest
<1>2. ASSUME Reconcile
      PROVE  faults' = faults \/ faults' = faults + 1
  BY <1>2 DEF Reconcile
<1>3. ASSUME CancelRest
      PROVE  faults' = faults \/ faults' = faults + 1
  BY <1>3 DEF CancelRest
<1>4. Reconcile => UNCHANGED stopping
  BY DEF Reconcile
<1>5. CancelRest => stopping = "rest" /\ stopping' = "exit"
  BY DEF CancelRest
<1> QED BY <1>1, <1>2, <1>3, <1>4, <1>5

-----------------------------------------------------------------------------
(* Orders and calls. *)

LEMMA CallsTyped ==
    ASSUME MakerTypeOK
    PROVE  /\ Slot \subseteq Task /\ Stop \in Task /\ Stop \notin Slot
           /\ Range(active) \subseteq 1..Len(made) /\ Len(made) \in Nat
           /\ tasks[Stop].todo \in Seq(1..Len(made))
           /\ Range(tasks[Stop].todo) \subseteq 1..Len(made)
           /\ \A t \in Slot : tasks[t] # Idle => tasks[t] \in Cycle
           /\ \A t \in Task : /\ tasks[t].call = NoCall \/ tasks[t].call \in Call
                              /\ Places(t) \/ Cancels(t) => tasks[t].call # NoCall
                              /\ tasks[t].call # NoCall =>
                                    Id(t) \in 1..Len(made) /\ (Cancels(t) <=> ~ Places(t))
<1>1. Slot \subseteq Task /\ Stop \in Task /\ Stop \notin Slot
  BY MarketMakerAssumption DEF Task
<1>2. Range(active) \subseteq 1..Len(made) /\ Len(made) \in Nat
  BY DEF MakerTypeOK, Range
<1>3. tasks[Stop].todo \in Seq(1..Len(made))
  BY DEF MakerTypeOK, Drop
<1>4. Range(tasks[Stop].todo) \subseteq 1..Len(made)
  BY <1>3, RangeOf
<1>5. \A t \in Slot : tasks[t] # Idle => tasks[t] \in Cycle
  BY DEF MakerTypeOK
<1>6. \A t \in Task : tasks[t].call = NoCall \/ tasks[t].call \in Call
  BY DEF MakerTypeOK, Task, Cycle, Drop, Idle
<1>7. \A t \in Task : /\ Places(t) \/ Cancels(t) => tasks[t].call # NoCall
                      /\ tasks[t].call # NoCall =>
                            Id(t) \in 1..Len(made) /\ (Cancels(t) <=> ~ Places(t))
  BY <1>6 DEF Places, Cancels, Id, Call, NoCall
<1> QED BY <1>1, <1>2, <1>3, <1>4, <1>5, <1>6, <1>7

\* The next call of a cycle, if it has one.
NewCancel(t) == /\ Cancels(t)' /\ State(t)' = "sent" /\ Id(t)' \in Range(active')
                /\ tasks'[t].at \in {"buy", "sell"} /\ made' = made
NewPlace(t)  == /\ Places(t)' /\ State(t)' = "sent" /\ Id(t)' = Len(made) + 1
                /\ tasks'[t].at = "place"
                /\ \E q \in Quote : /\ made' = Append(made, q) /\ q \notin DOMAIN active'
NoneLeft(t)  == tasks'[t] = Idle /\ made' = made

\* What a cycle does before its next await.
LEMMA CycleStep ==
    ASSUME MakerTypeOK, NEW t \in Slot, Tick(t) \/ Continue(t)
    PROVE  /\ \A u \in Task \ {t} : tasks'[u] = tasks[u]
           /\ made' = made \/ \E q \in Quote : made' = Append(made, q)
           /\ book' = book /\ stopping' = stopping /\ faults' = faults /\ lost \subseteq lost'
           /\ \A id \in Range(active') :
                 id \in Range(active) \/ (Places(t) /\ State(t) = "done" /\ id = Id(t))
           /\ NewCancel(t) \/ NewPlace(t) \/ NoneLeft(t)
<1>0. CoreTypes
  BY DEF MakerTypeOK, CoreTypes
<1>1. PICK at \in {"buy", "sell", "place"}, ref \in Reference, todo \in Priced :
         Proceed(t, at, ref, todo, active')
  <2>1. CASE Tick(t)
    BY <2>1, QuotesTyped DEF Tick, MakerTypeOK
  <2>2. CASE Continue(t)
    <3>1. tasks[t] \in Cycle
      BY <2>2 DEF Continue, MakerTypeOK, Idle, NoCall
    <3> QED BY <2>2, <3>1 DEF Continue, Cycle, Priced
  <2> QED BY <2>1, <2>2
<1>2. /\ active' \in [DOMAIN active' -> 1..Len(made)]
      /\ \A id \in Range(active') :
            id \in Range(active) \/ (Places(t) /\ State(t) = "done" /\ id = Id(t))
  <2>1. CASE Tick(t)
    BY <2>1 DEF Tick, MakerTypeOK
  <2>2. CASE Continue(t)
    <3>1. tasks[t].call \in Call /\ active' = Entered(tasks[t].call)
      BY <2>2 DEF Continue, MakerTypeOK, Idle, NoCall, Cycle
    <3>2. /\ active' \in [DOMAIN active' -> 1..Len(made)]
          /\ \A q \in DOMAIN active' : \/ q \in DOMAIN active /\ active'[q] = active[q]
                                       \/ Places(t) /\ State(t) = "done" /\ active'[q] = Id(t)
      BY <1>0, <3>1, EnteredEntries DEF Places, State, Id
    <3> QED BY <3>2 DEF Range
  <2> QED BY <2>1, <2>2
<1>3. /\ made' = made \/ \E q \in Quote : made' = Append(made, q)
      /\ DOMAIN tasks' = Task
      /\ \A u \in Task \ {t} : tasks'[u] = tasks[u]
  BY <1>0, <1>1, <1>2, ProceedTypes
<1>4. NewCancel(t) \/ NewPlace(t) \/ NoneLeft(t)
  <2>1. DOMAIN tasks = Task /\ t \in Task
    BY <1>0 DEF CoreTypes, Task
  <2>2. CASE \E side \in {"buy", "sell"} : \E q : NextCancels(t, at, ref, todo, active', side, q)
    <3>0. PICK side \in {"buy", "sell"} : \E q : NextCancels(t, at, ref, todo, active', side, q)
      BY <2>2
    <3>1. PICK q : NextCancels(t, at, ref, todo, active', side, q)
      BY <3>0
    <3>2. /\ tasks'[t] = [at |-> side, ref |-> ref, todo |-> todo,
                           call |-> [kind |-> "cancel", id |-> active'[q], state |-> "sent"]]
          /\ made' = made /\ q \in DOMAIN active'
      BY <2>1, <3>1 DEF NextCancels, Stale, Await
    <3> QED BY <3>2 DEF NewCancel, Cancels, State, Id, Range
  <2>3. CASE \E q, left : NextPlaces(t, at, ref, todo, active', q, left)
    <3>1. PICK q, left : NextPlaces(t, at, ref, todo, active', q, left)
      BY <2>3
    <3>2. /\ tasks'[t] = [at |-> "place", ref |-> ref, todo |-> left,
                           call |-> [kind |-> "place", id |-> Len(made) + 1, state |-> "sent"]]
          /\ made' = Append(made, q) /\ q \in Quote /\ q \notin DOMAIN active'
      BY <2>1, <3>1 DEF NextPlaces, Await
    <3> QED BY <3>2 DEF NewPlace, Places, State, Id
  <2>4. CASE NextEnds(t)
    BY <2>1, <2>4 DEF NextEnds, NoneLeft
  <2> QED BY <1>1, <2>2, <2>3, <2>4, ProceedOutcome
<1>5. book' = book /\ stopping' = stopping /\ faults' = faults /\ lost \subseteq lost'
  BY DEF Tick, Continue, Lose, process
<1> QED BY <1>2, <1>3, <1>4, <1>5

\* Redis takes a command or the call throws: nothing but its state changes.
LEMMA AnswerStep ==
    ASSUME MakerTypeOK, NEW t \in Task, Deliver(t) \/ Throw(t)
    PROVE  /\ \A u \in Task : /\ u # t => tasks'[u] = tasks[u]
                              /\ tasks'[u].at = tasks[u].at /\ tasks'[u].ref = tasks[u].ref
                              /\ tasks'[u].todo = tasks[u].todo
                              /\ (Places(u)' <=> Places(u)) /\ (Cancels(u)' <=> Cancels(u))
                              /\ Id(u)' = Id(u)
           /\ State(t) = "sent" /\ tasks[t].call # NoCall
           /\ (Deliver(t) => State(t)' = "done") /\ (Throw(t) => State(t)' = "failed")
           /\ made' = made /\ active' = active /\ stopping' = stopping /\ lost \subseteq lost'
           /\ \A id \in book' : id \in book \/ (Places(t) /\ id = Id(t))
           /\ Deliver(t) /\ Cancels(t) => Id(t) \notin book'
           /\ Throw(t) => book' = book /\ (Cancels(t) => Id(t) \in lost')
<1>1. /\ made' = made /\ active' = active /\ stopping' = stopping /\ lost \subseteq lost'
      /\ State(t) = "sent"
  BY DEF Deliver, Throw, Lose, process, State
<1>2. tasks[t].call # NoCall /\ tasks[t].call \in Call /\ DOMAIN tasks = Task
  BY <1>1, CallsTyped DEF NoCall, State, MakerTypeOK
<1>3. PICK s \in {"done", "failed"} : /\ tasks' = [tasks EXCEPT ![t].call.state = s]
                                      /\ (Deliver(t) => s = "done") /\ (Throw(t) => s = "failed")
  <2>1. CASE Deliver(t)
    <3>1. ~ Throw(t) \/ Throw(t)
      OBVIOUS
    <3>2. tasks' = [tasks EXCEPT ![t].call.state = "done"]
      BY <2>1 DEF Deliver
    <3>3. tasks'[t].call.state = "done"
      BY <1>2, <3>2 DEF Call
    <3>4. Throw(t) => tasks'[t].call.state = "failed"
      BY <1>2 DEF Throw, Call
    <3> QED BY <3>2, <3>3, <3>4
  <2>2. CASE Throw(t)
    <3>2. tasks' = [tasks EXCEPT ![t].call.state = "failed"]
      BY <2>2 DEF Throw
    <3>3. tasks'[t].call.state = "failed"
      BY <1>2, <3>2 DEF Call
    <3>4. Deliver(t) => tasks'[t].call.state = "done"
      BY <1>2 DEF Deliver, Call
    <3> QED BY <3>2, <3>3, <3>4
  <2> QED BY <2>1, <2>2
<1> DEFINE a == [tasks[t].call EXCEPT !.state = s]
           c == [tasks[t] EXCEPT !.call = a]
<1>4. tasks' = [tasks EXCEPT ![t] = c]
  BY <1>3
<1>5. a.kind = tasks[t].call.kind /\ a.id = tasks[t].call.id /\ a.state = s
  BY <1>2 DEF Call
<1>6. /\ c.at = tasks[t].at /\ c.ref = tasks[t].ref /\ c.todo = tasks[t].todo /\ c.call = a
  <2> HIDE DEF a
  <2>1. tasks[t] \in Cycle \/ tasks[t] \in Drop
    BY <1>2 DEF MakerTypeOK, Task, Idle
  <2> QED BY <2>1 DEF Cycle, Drop
<1> HIDE DEF a, c
<1>7. /\ tasks'[t] = c
      /\ \A u \in Task : u # t => tasks'[u] = tasks[u]
  BY <1>2, <1>4
<1>8. /\ tasks'[t].at = tasks[t].at /\ tasks'[t].ref = tasks[t].ref
      /\ tasks'[t].todo = tasks[t].todo
      /\ (Places(t)' <=> Places(t)) /\ (Cancels(t)' <=> Cancels(t))
      /\ Id(t)' = Id(t) /\ State(t)' = s
  BY <1>5, <1>6, <1>7 DEF Places, Cancels, Id, State
<1>9. \A u \in Task : /\ u # t => tasks'[u] = tasks[u]
                      /\ tasks'[u].at = tasks[u].at /\ tasks'[u].ref = tasks[u].ref
                      /\ tasks'[u].todo = tasks[u].todo
                      /\ (Places(u)' <=> Places(u)) /\ (Cancels(u)' <=> Cancels(u))
                      /\ Id(u)' = Id(u)
  <2> SUFFICES ASSUME NEW u \in Task, u # t
               PROVE  /\ (Places(u)' <=> Places(u)) /\ (Cancels(u)' <=> Cancels(u))
                      /\ Id(u)' = Id(u)
    BY <1>7, <1>8
  <2> QED BY <1>7 DEF Places, Cancels, Id
<1>10. /\ \A id \in book' : id \in book \/ (Places(t) /\ id = Id(t))
       /\ Deliver(t) /\ Cancels(t) => Id(t) \notin book'
       /\ Throw(t) => book' = book /\ (Cancels(t) => Id(t) \in lost')
  BY DEF Deliver, Throw, Rest, Lose, Places, Cancels, Id
<1> QED BY <1>1, <1>2, <1>3, <1>8, <1>9, <1>10

\* The list of orders that shutdown works off.
LEMMA DropStep ==
    ASSUME MakerTypeOK, Signal \/ DropNext
    PROVE  /\ \A u \in Slot : tasks'[u] = tasks[u]
           /\ ~ Places(Stop)' /\ (Cancels(Stop)' => State(Stop)' = "sent")
           /\ tasks'[Stop].call = NoCall => tasks'[Stop].todo = <<>>
           /\ Range(tasks'[Stop].todo) \union {id \in {Id(Stop)'} : Cancels(Stop)'}
                 = IF Signal THEN Range(active) ELSE Range(tasks[Stop].todo)
           /\ UNCHANGED <<made, active, book>> /\ lost \subseteq lost'
<1>1. UNCHANGED <<made, active, book>> /\ lost \subseteq lost'
  BY DEF Signal, DropNext, Lose, history
<1>2. Signal => ~ DropNext
  BY DEF Signal, DropNext, process
<1>3. PICK ids \in Seq(1..Len(made)) :
         /\ tasks' = [tasks EXCEPT ![Stop] = NextDrop(ids)]
         /\ Range(ids) = IF Signal THEN Range(active) ELSE Range(tasks[Stop].todo)
  <2>1. CASE Signal
    <3>1. Range(active) \in SUBSET (1..Len(made)) /\ Len(made) \in Nat
      BY CallsTyped
    <3>2. /\ SetToSeq(Range(active)) \in Seq(Range(active))
          /\ Range(SetToSeq(Range(active))) = Range(active)
      BY <3>1, SetToSeqProperties
    <3>3. SetToSeq(Range(active)) \in Seq(1..Len(made))
      BY <3>1, <3>2, SeqMonotonic
    <3> QED BY <2>1, <3>2, <3>3 DEF Signal, ToCancel
  <2>2. CASE DropNext
    BY <1>2, <2>2, CallsTyped DEF DropNext
  <2> QED BY <2>1, <2>2
<1> DEFINE d == NextDrop(ids)
<1>4. tasks'[Stop] = d /\ \A u \in Slot : tasks'[u] = tasks[u]
  BY <1>3, CallsTyped DEF MakerTypeOK
<1>5. CASE ids = <<>>
  <2>1. d = [at |-> "drop", ref |-> NoPrice, todo |-> <<>>, call |-> NoCall]
    BY <1>5 DEF NextDrop, Idle
  <2>2. Range(ids) = {} /\ Range(d.todo) = {}
    BY <1>5, <2>1 DEF Range
  <2> HIDE DEF d
  <2>3. ~ Places(Stop)' /\ ~ Cancels(Stop)' /\ tasks'[Stop].todo = <<>>
    BY <1>4, <2>1 DEF Places, Cancels, NoCall
  <2> QED BY <1>1, <1>3, <1>4, <2>2, <2>3
<1>6. CASE ids # <<>>
  <2>1. d = [at |-> "drop", ref |-> NoPrice, todo |-> Tail(ids),
             call |-> [kind |-> "cancel", id |-> Head(ids), state |-> "sent"]]
    BY <1>6 DEF NextDrop, Await
  <2>2. Range(ids) = Range(Tail(ids)) \union {Head(ids)}
    <3>1. /\ Tail(ids) \in Seq(1..Len(made)) /\ Len(Tail(ids)) = Len(ids) - 1
          /\ \A i \in 1..Len(Tail(ids)) : Tail(ids)[i] = ids[i + 1]
          /\ Head(ids) = ids[1] /\ Len(ids) \in Nat /\ Len(ids) > 0
      BY <1>6, HeadTailProperties, EmptySeq
    <3>2. \A i \in 1..Len(ids) : i = 1 \/ (i - 1 \in 1..Len(Tail(ids)) /\ ids[i] = Tail(ids)[i - 1])
      BY <3>1
    <3>3. \A i \in 1..Len(Tail(ids)) : i + 1 \in 1..Len(ids)
      BY <3>1
    <3>4. DOMAIN ids = 1..Len(ids) /\ DOMAIN Tail(ids) = 1..Len(Tail(ids)) /\ 1 \in 1..Len(ids)
      BY <3>1
    <3>5. Range(ids) \subseteq Range(Tail(ids)) \union {Head(ids)}
      <4>1. \A i \in 1..Len(ids) : ids[i] \in Range(Tail(ids)) \union {Head(ids)}
        BY <3>1, <3>2, <3>4, RangeOf
      <4> QED BY <4>1, RangeOf
    <3>6. Range(Tail(ids)) \union {Head(ids)} \subseteq Range(ids)
      BY <3>1, <3>3, <3>4 DEF Range
    <3> QED BY <3>5, <3>6
  <2> HIDE DEF d
  <2>3. /\ ~ Places(Stop)' /\ Cancels(Stop)' /\ State(Stop)' = "sent" /\ Id(Stop)' = Head(ids)
        /\ tasks'[Stop].todo = Tail(ids) /\ tasks'[Stop].call # NoCall
    BY <1>4, <2>1 DEF Places, Cancels, State, Id, NoCall
  <2> QED BY <1>1, <1>3, <1>4, <2>2, <2>3
<1> QED BY <1>5, <1>6

\* A cycle awaits the call of its phase.
InPhase(t) == /\ tasks[t].at = "place" => Places(t)
              /\ tasks[t].at \in {"buy", "sell"} => Cancels(t)

\* An order that is being placed is that of one call only, which nobody cancels
\* yet; it reaches the book with its call.  A cancelled order has left the book.
PlacedOnce(t) ==
    Places(t) => /\ Id(t) \notin Range(active) /\ Id(t) \notin Range(tasks[Stop].todo)
                 /\ State(t) # "done" => Id(t) \notin book
                 /\ \A u \in Task \ {t} : tasks[u].call # NoCall => Id(u) # Id(t)

CancelSettled(t) ==
    Cancels(t) => /\ State(t) = "done" => Id(t) \notin book
                  /\ State(t) = "failed" => Id(t) \in lost

IdsDistinct ==
    /\ ~ Places(Stop)
    /\ \A t \in Slot : InPhase(t) /\ PlacedOnce(t)
    /\ \A t \in Task : CancelSettled(t)

\* An id is given out once: Date.now() and the counter never repeat.
LEMMA IdsDistinctNext == MakerTypeOK /\ IdsDistinct /\ [Next]_vars => IdsDistinct'
<1> SUFFICES ASSUME MakerTypeOK, IdsDistinct, [Next]_vars
             PROVE  IdsDistinct'
  OBVIOUS
<1>0. /\ Slot \subseteq Task /\ Stop \in Task /\ Stop \notin Slot
      /\ Range(active) \subseteq 1..Len(made) /\ Len(made) \in Nat /\ book \subseteq 1..Len(made)
      /\ Range(tasks[Stop].todo) \subseteq 1..Len(made)
      /\ \A t \in Task : /\ Places(t) \/ Cancels(t) => tasks[t].call # NoCall
                         /\ tasks[t].call # NoCall =>
                               Id(t) \in 1..Len(made) /\ (Cancels(t) <=> ~ Places(t))
  BY CallsTyped DEF MakerTypeOK
<1>1. ASSUME NEW t \in Slot, Tick(t) \/ Continue(t)
      PROVE  IdsDistinct'
  <2>1. /\ \A u \in Task \ {t} : tasks'[u] = tasks[u]
        /\ book' = book /\ lost \subseteq lost'
        /\ \A id \in Range(active') :
              id \in Range(active) \/ (Places(t) /\ State(t) = "done" /\ id = Id(t))
        /\ NewCancel(t) \/ NewPlace(t) \/ NoneLeft(t)
    BY <1>1, CycleStep
  <2>2. NoneLeft(t) => ~ Places(t)' /\ ~ Cancels(t)' /\ tasks'[t].call = NoCall /\ tasks'[t].at = "idle"
    BY DEF NoneLeft, Places, Cancels, Idle, NoCall
  <2>3. ~ Places(Stop)' /\ tasks'[Stop] = tasks[Stop]
    BY <1>0, <2>1 DEF IdsDistinct, Places
  <2>4. ASSUME NEW u \in Slot, u # t
        PROVE  InPhase(u)' /\ PlacedOnce(u)'
    <3>1. /\ InPhase(u) /\ PlacedOnce(u) /\ tasks'[u] = tasks[u] /\ u \in Task
          /\ (Places(u)' <=> Places(u)) /\ (Cancels(u)' <=> Cancels(u))
          /\ Id(u)' = Id(u) /\ State(u)' = State(u)
      BY <1>0, <2>1, <2>4 DEF IdsDistinct, Places, Cancels, Id, State
    <3>2. Places(u) => Id(u) \notin Range(active')
      BY <1>0, <2>1, <2>4, <3>1 DEF PlacedOnce
    <3>3. Places(u) => \A v \in Task \ {u} : tasks'[v].call # NoCall => Id(v)' # Id(u)
      <4> SUFFICES ASSUME Places(u), NEW v \in Task \ {u}, tasks'[v].call # NoCall
                   PROVE  Id(v)' # Id(u)
        OBVIOUS
      <4>1. CASE v # t
        BY <2>1, <3>1, <4>1 DEF PlacedOnce, Id
      <4>2. CASE v = t /\ NewCancel(t)
        BY <3>2, <4>2 DEF NewCancel
      <4>3. CASE v = t /\ NewPlace(t)
        BY <1>0, <3>1, <4>3 DEF NewPlace
      <4> QED BY <2>1, <2>2, <4>1, <4>2, <4>3
    <3> QED BY <2>1, <2>3, <3>1, <3>2, <3>3 DEF InPhase, PlacedOnce
  <2>5. InPhase(t)'
    BY <2>1, <2>2 DEF InPhase, NewCancel, NewPlace
  <2>6. PlacedOnce(t)'
    <3>1. CASE NewPlace(t)
      <4>1. Id(t)' = Len(made) + 1 /\ Len(made) + 1 \notin 1..Len(made)
        BY <1>0, <3>1 DEF NewPlace
      <4>2. Len(made) + 1 \notin Range(active')
        BY <1>0, <2>1, <4>1
      <4>3. \A u \in Task \ {t} : tasks'[u].call # NoCall => Id(u)' \in 1..Len(made)
        BY <1>0, <2>1 DEF Id
      <4> QED BY <1>0, <2>1, <2>3, <4>1, <4>2, <4>3 DEF PlacedOnce
    <3>2. CASE NewCancel(t)
      <4>1. tasks'[t].call.kind = "cancel"
        BY <3>2 DEF NewCancel, Cancels
      <4> QED BY <4>1 DEF PlacedOnce, Places
    <3>3. CASE NoneLeft(t)
      BY <2>2, <3>3 DEF PlacedOnce
    <3> QED BY <2>1, <3>1, <3>2, <3>3
  <2>7. ASSUME NEW u \in Task
        PROVE  CancelSettled(u)'
    <3>1. CASE u # t
      <4>1. /\ CancelSettled(u) /\ (Cancels(u)' <=> Cancels(u))
            /\ Id(u)' = Id(u) /\ State(u)' = State(u)
        BY <2>1, <3>1 DEF IdsDistinct, Cancels, Id, State
      <4> QED BY <2>1, <4>1 DEF CancelSettled
    <3>2. CASE u = t
      BY <2>1, <2>2, <3>2 DEF CancelSettled, NewCancel, NewPlace, Places, Cancels
    <3> QED BY <3>1, <3>2
  <2> QED BY <2>3, <2>4, <2>5, <2>6, <2>7 DEF IdsDistinct
<1>2. ASSUME NEW t \in Task, Deliver(t) \/ Throw(t)
      PROVE  IdsDistinct'
  <2>1. /\ \A u \in Task : /\ u # t => tasks'[u] = tasks[u]
                           /\ tasks'[u].at = tasks[u].at /\ tasks'[u].todo = tasks[u].todo
                           /\ (Places(u)' <=> Places(u)) /\ (Cancels(u)' <=> Cancels(u))
                           /\ Id(u)' = Id(u)
        /\ State(t) = "sent" /\ tasks[t].call # NoCall
        /\ (Deliver(t) => State(t)' = "done") /\ (Throw(t) => State(t)' = "failed")
        /\ active' = active /\ lost \subseteq lost'
        /\ \A id \in book' : id \in book \/ (Places(t) /\ id = Id(t))
        /\ Deliver(t) /\ Cancels(t) => Id(t) \notin book'
        /\ Throw(t) => book' = book /\ (Cancels(t) => Id(t) \in lost')
    BY <1>2, AnswerStep
  <2>2. ~ Places(Stop)'
    BY <1>0, <2>1 DEF IdsDistinct
  <2>3. ASSUME NEW u \in Task, tasks'[u].call # NoCall
        PROVE  tasks[u].call # NoCall
    BY <2>1, <2>3
  <2>4. ASSUME NEW u \in Slot
        PROVE  InPhase(u)' /\ PlacedOnce(u)'
    <3>1. InPhase(u) /\ PlacedOnce(u) /\ u \in Task
      BY <1>0 DEF IdsDistinct
    <3>2. InPhase(u)'
      BY <2>1, <3>1 DEF InPhase
    <3>3. PlacedOnce(u)'
      <4> SUFFICES ASSUME Places(u)
                   PROVE  PlacedOnce(u)'
        BY <2>1, <3>1 DEF PlacedOnce
      <4>1. State(u)' # "done" => Id(u) \notin book'
        <5>1. CASE u = t
          <6>1. State(u)' # "done" => Throw(t)
            BY <1>2, <2>1, <5>1
          <6>2. State(u) = "sent"
            BY <2>1, <5>1
          <6> QED BY <2>1, <3>1, <6>1, <6>2 DEF PlacedOnce
        <5>2. CASE u # t
          <6>1. State(u)' = State(u)
            BY <2>1, <3>1, <5>2 DEF State
          <6>2. Id(t) # Id(u)
            BY <2>1, <3>1, <5>2 DEF PlacedOnce
          <6> QED BY <2>1, <3>1, <6>1, <6>2 DEF PlacedOnce
        <5> QED BY <5>1, <5>2
      <4> QED BY <1>0, <2>1, <2>3, <3>1, <4>1 DEF PlacedOnce
    <3> QED BY <3>2, <3>3
  <2>5. ASSUME NEW u \in Task
        PROVE  CancelSettled(u)'
    <3> SUFFICES ASSUME Cancels(u)
                 PROVE  CancelSettled(u)'
      BY <2>1 DEF CancelSettled
    <3>1. CancelSettled(u) /\ tasks[u].call # NoCall
      BY <1>0 DEF IdsDistinct
    <3>2. CASE u = t
      BY <1>2, <2>1, <3>2 DEF CancelSettled
    <3>3. CASE u # t
      <4>1. State(u)' = State(u)
        BY <2>1, <3>3 DEF State
      <4>2. Places(t) => Id(u) # Id(t)
        <5>1. Places(t) => t \in Slot
          BY DEF IdsDistinct, Task
        <5> QED BY <3>1, <3>3, <5>1 DEF IdsDistinct, PlacedOnce
      <4> QED BY <2>1, <3>1, <4>1, <4>2 DEF CancelSettled
    <3> QED BY <3>2, <3>3
  <2> QED BY <2>2, <2>4, <2>5 DEF IdsDistinct
<1>3. CASE Signal \/ DropNext
  <2>1. /\ \A u \in Slot : tasks'[u] = tasks[u]
        /\ ~ Places(Stop)' /\ (Cancels(Stop)' => State(Stop)' = "sent")
        /\ Range(tasks'[Stop].todo) \union {id \in {Id(Stop)'} : Cancels(Stop)'}
              = IF Signal THEN Range(active) ELSE Range(tasks[Stop].todo)
        /\ UNCHANGED <<made, active, book>> /\ lost \subseteq lost'
    BY <1>3, DropStep
  <2>2. \A u \in Slot : /\ (Places(u)' <=> Places(u)) /\ (Cancels(u)' <=> Cancels(u))
                        /\ Id(u)' = Id(u) /\ State(u)' = State(u)
    BY <2>1 DEF Places, Cancels, Id, State
  <2>3. tasks'[Stop].call # NoCall => Cancels(Stop)'
    <3>1. MakerTypeOK'
      BY MakerTypesInductive
    <3>2. tasks'[Stop].call = NoCall \/ (tasks'[Stop].call \in Call')
      BY <3>1 DEF MakerTypeOK, Drop, NoCall
    <3> QED BY <2>1, <3>2 DEF Places, Cancels, Call
  <2>4. ASSUME NEW u \in Slot
        PROVE  InPhase(u)' /\ PlacedOnce(u)'
    <3>1. InPhase(u) /\ PlacedOnce(u) /\ u \in Task /\ u # Stop
      BY <1>0 DEF IdsDistinct
    <3>2. Places(u) => /\ Id(u) \notin Range(tasks'[Stop].todo)
                       /\ Cancels(Stop)' => Id(Stop)' # Id(u)
      BY <2>1, <3>1 DEF PlacedOnce
    <3>3. Places(u) => \A v \in Task \ {u} : tasks'[v].call # NoCall => Id(v)' # Id(u)
      BY <2>1, <2>2, <2>3, <3>1, <3>2 DEF PlacedOnce, Task
    <3> QED BY <2>1, <2>2, <3>1, <3>2, <3>3 DEF InPhase, PlacedOnce
  <2>5. ASSUME NEW u \in Task
        PROVE  CancelSettled(u)'
    BY <2>1, <2>2 DEF IdsDistinct, CancelSettled, Task
  <2> QED BY <2>1, <2>4, <2>5 DEF IdsDistinct
<1>4. CASE Exit \/ Gone
  <2>1. tasks' = [t \in Task |-> Idle]
    BY <1>4 DEF Exit, Gone
  <2>2. \A t \in Task : ~ Places(t)' /\ ~ Cancels(t)' /\ tasks'[t].at = "idle"
    BY <2>1 DEF Places, Cancels, Idle, NoCall
  <2> QED BY <1>0, <2>2 DEF IdsDistinct, InPhase, PlacedOnce, CancelSettled
<1>5. CASE Boot \/ Login \/ Reconcile \/ CheckPrice \/ SetPrice \/ GetStale \/ CancelRest
           \/ ClearMaps \/ Fill \/ FillRest \/ UNCHANGED vars
  <2>1. UNCHANGED <<tasks, lost>> /\ book' \subseteq book /\ active' \in {active, NoMap}
    BY <1>5 DEF Boot, Login, Reconcile, CheckPrice, SetPrice, GetStale, CancelRest, ClearMaps,
                Fill, FillRest, history, vars
  <2>2. \A t \in Task : /\ (Places(t)' <=> Places(t)) /\ (Cancels(t)' <=> Cancels(t))
                        /\ Id(t)' = Id(t) /\ State(t)' = State(t)
    BY <2>1 DEF Places, Cancels, Id, State
  <2>3. Range(active') \subseteq Range(active)
    BY <2>1 DEF Range, NoMap
  <2>4. \A t \in Slot : InPhase(t)' /\ PlacedOnce(t)'
    BY <1>0, <2>1, <2>2, <2>3 DEF IdsDistinct, InPhase, PlacedOnce
  <2>5. \A t \in Task : CancelSettled(t)'
    BY <2>1, <2>2 DEF IdsDistinct, CancelSettled
  <2> QED BY <1>0, <2>2, <2>4, <2>5 DEF IdsDistinct
<1>6. LoginFails \/ Kill => Gone
  BY DEF LoginFails, Kill
<1> QED BY <1>0, <1>1, <1>2, <1>3, <1>4, <1>5, <1>6 DEF Next, Startup, Shutdown

\* Every order in the book is named by the maps, about to be, or lost.
Known == stopping = "no" => book \subseteq Range(active) \union Placing \union lost

\* The quotes being placed are those of tasks that await a placement.
LEMMA PlacingMembers ==
    /\ \A id : id \in Placing <=> \E t \in Task : Places(t) /\ id = Id(t)
    /\ \A id : id \in Placing' <=> \E t \in Task : Places(t)' /\ id = Id(t)'
  BY DEF Placing, Places, Id

\* When a cycle goes on, an order that leaves the maps is lost or is the one whose
\* cancel has just been answered.
LEMMA ContinueStep ==
    ASSUME MakerTypeOK, IdsDistinct, NEW t \in Slot, Continue(t)
    PROVE  /\ \A id \in Range(active) : \/ id \in Range(active') \union lost'
                                        \/ Cancels(t) /\ id = Id(t)
           /\ Places(t) /\ State(t) = "done" => Id(t) \in Range(active')
           /\ tasks[t].call \in Call /\ active' = Entered(tasks[t].call)
           /\ State(t) \in {"done", "failed"} /\ (Cancels(t) <=> ~ Places(t))
<1>1. /\ tasks[t].call \in Call /\ active' = Entered(tasks[t].call)
      /\ State(t) \in {"done", "failed"}
  BY DEF Continue, MakerTypeOK, Idle, NoCall, Cycle, State
<1>2. Cancels(t) <=> ~ Places(t)
  BY <1>1 DEF Call, Places, Cancels
<1>3. \A id \in Range(active) : \/ id \in Range(active') \union lost'
                                \/ Cancels(t) /\ id = Id(t)
  <2>1. Range(active) \ (Range(active') \union {Id(t)}) \subseteq lost'
    BY DEF Continue, Lose, Id
  <2>2. Places(t) => Id(t) \notin Range(active)
    BY DEF IdsDistinct, PlacedOnce
  <2> QED BY <1>2, <2>1, <2>2
<1>4. Places(t) /\ State(t) = "done" => Id(t) \in Range(active')
  <2> SUFFICES ASSUME Places(t), State(t) = "done"
               PROVE  Id(t) \in Range(active')
    OBVIOUS
  <2> DEFINE q == made[tasks[t].call.id]
  <2>1. active' = With(q, Id(t))
    BY <1>1, <1>2 DEF Entered, Places, Cancels, State, Id
  <2> HIDE DEF q
  <2>2. q \in DOMAIN active' /\ active'[q] = Id(t)
    BY <2>1 DEF With
  <2> QED BY <2>2 DEF Range
<1> QED BY <1>1, <1>2, <1>3, <1>4

\* A quote is in a map, being placed or being dropped before the book has it,
\* and stays so until the book has lost it.
LEMMA KnownNext == MakerTypeOK /\ IdsDistinct /\ Known /\ [Next]_vars => Known'
<1> SUFFICES ASSUME MakerTypeOK, IdsDistinct, Known, [Next]_vars, stopping' = "no"
             PROVE  book' \subseteq Range(active') \union Placing' \union lost'
  BY DEF Known
<1>0. Slot \subseteq Task /\ Stop \in Task /\ Stop \notin Slot
  BY CallsTyped
<1>1. ASSUME NEW t \in Slot, Tick(t)
      PROVE  Known'
  <2>1. /\ \A u \in Task \ {t} : tasks'[u] = tasks[u]
        /\ book' = book /\ active' = active /\ lost' = lost /\ stopping' = stopping
    BY <1>1, CycleStep DEF Tick, process
  <2>2. ~ Places(t)
    BY <1>1 DEF Tick, Places, Idle, NoCall
  <2>3. \A u \in Task : Places(u) => Places(u)' /\ Id(u)' = Id(u)
    BY <2>1, <2>2 DEF Places, Id
  <2> QED BY <2>1, <2>3, PlacingMembers DEF Known
<1>2. ASSUME NEW t \in Slot, Continue(t)
      PROVE  Known'
  <2>1. /\ \A u \in Task \ {t} : tasks'[u] = tasks[u]
        /\ book' = book /\ lost \subseteq lost' /\ stopping' = stopping
    BY <1>2, CycleStep
  <2>2. /\ \A id \in Range(active) : \/ id \in Range(active') \union lost'
                                     \/ Cancels(t) /\ id = Id(t)
        /\ Places(t) /\ State(t) = "done" => Id(t) \in Range(active')
        /\ State(t) \in {"done", "failed"} /\ (Cancels(t) <=> ~ Places(t))
    BY <1>2, ContinueStep
  <2>3. \A u \in Task \ {t} : Places(u) => Places(u)' /\ Id(u)' = Id(u)
    BY <2>1 DEF Places, Id
  <2>4. Cancels(t) => Id(t) \notin book \/ Id(t) \in lost
    BY <1>0, <2>2 DEF IdsDistinct, CancelSettled
  <2>5. Places(t) /\ State(t) # "done" => Id(t) \notin book
    BY DEF IdsDistinct, PlacedOnce
  <2> SUFFICES ASSUME stopping = "no", NEW id \in book
               PROVE  id \in Range(active') \union Placing' \union lost'
    BY <2>1 DEF Known
  <2>6. CASE id \in Range(active)
    BY <2>1, <2>2, <2>4, <2>6
  <2>7. CASE id \in Placing
    <3>1. PICK u \in Task : Places(u) /\ id = Id(u)
      BY <2>7, PlacingMembers
    <3>2. CASE u = t
      BY <2>2, <2>5, <3>1, <3>2
    <3>3. CASE u # t
      BY <2>3, <3>1, <3>3, PlacingMembers
    <3> QED BY <3>2, <3>3
  <2> QED BY <2>1, <2>6, <2>7 DEF Known
<1>3. ASSUME NEW t \in Task, Deliver(t) \/ Throw(t)
      PROVE  Known'
  <2>1. /\ \A u \in Task : (Places(u)' <=> Places(u)) /\ Id(u)' = Id(u)
        /\ active' = active /\ stopping' = stopping /\ lost \subseteq lost'
        /\ \A id \in book' : id \in book \/ (Places(t) /\ id = Id(t))
    BY <1>3, AnswerStep
  <2>2. Placing' = Placing
    BY <2>1, PlacingMembers
  <2> QED BY <2>1, <2>2, PlacingMembers DEF Known
<1>4. CASE DropNext
  <2>1. /\ \A u \in Slot : tasks'[u] = tasks[u]
        /\ UNCHANGED <<active, book>> /\ lost \subseteq lost' /\ stopping' = stopping
    BY <1>4, DropStep DEF DropNext, process
  <2>2. \A u \in Task : Places(u) => Places(u)' /\ Id(u)' = Id(u)
    BY <2>1 DEF IdsDistinct, Task, Places, Id
  <2> QED BY <2>1, <2>2, PlacingMembers DEF Known
<1>5. CASE Signal \/ ClearMaps \/ CancelRest \/ Exit
  BY <1>5 DEF Signal, ClearMaps, CancelRest, Exit
<1>6. CASE LoginFails \/ Kill
  BY <1>6 DEF LoginFails, Kill, Gone, Lose
<1>7. CASE Boot \/ Login \/ Reconcile \/ CheckPrice \/ SetPrice \/ GetStale \/ Fill \/ FillRest
           \/ UNCHANGED vars
  <2>1. UNCHANGED <<tasks, active, lost, stopping>> /\ book' \subseteq book
    BY <1>7 DEF Boot, Login, Reconcile, CheckPrice, SetPrice, GetStale, Fill, FillRest,
                history, process, vars
  <2>2. Placing' = Placing
    BY <2>1 DEF Placing
  <2> QED BY <2>1, <2>2 DEF Known
<1>8. Known' => book' \subseteq Range(active') \union Placing' \union lost'
  BY DEF Known
<1> QED BY <1>0, <1>1, <1>2, <1>3, <1>4, <1>5, <1>6, <1>7, <1>8 DEF Next, Startup, Shutdown

-----------------------------------------------------------------------------
(* One cycle at a time. *)

Alone == stopping = "no" /\ ~overlapped

\* A cycle that is alone cancels what the maps name and places what they do not
\* name, so that no entry is lost.
SoleCycle ==
    Alone =>
        /\ \A s, t \in Slot : tasks[s] # Idle /\ tasks[t] # Idle => s = t
        /\ \A t \in Slot : Cancels(t) => Id(t) \in Range(active)
        /\ \A t \in Slot : Places(t) => made[Id(t)] \notin DOMAIN active
        /\ faults = 0 => lost = {}

\* A new call fits the maps of its moment.
LEMMA NewCallFits ==
    ASSUME MakerTypeOK, NEW t \in Slot, NewCancel(t) \/ NewPlace(t) \/ NoneLeft(t)
    PROVE  /\ Cancels(t)' => Id(t)' \in Range(active')
           /\ Places(t)' => made'[Id(t)'] \notin DOMAIN active'
<1>1. CASE NewCancel(t)
  BY <1>1 DEF NewCancel, Cancels, Places
<1>2. CASE NewPlace(t)
  <2>1. PICK q \in Quote : made' = Append(made, q) /\ q \notin DOMAIN active'
    BY <1>2 DEF NewPlace
  <2>2. made \in Seq(Quote) /\ Id(t)' = Len(made) + 1 /\ Places(t)'
    BY <1>2 DEF NewPlace, MakerTypeOK
  <2>3. made'[Id(t)'] = q
    BY <2>1, <2>2, AppendProperties
  <2> QED BY <2>1, <2>2, <2>3 DEF Places, Cancels
<1>3. CASE NoneLeft(t)
  BY <1>3 DEF NoneLeft, Idle, NoCall, Places, Cancels
<1> QED BY <1>1, <1>2, <1>3

\* While no cycles have overlapped, at most one is running.
LEMMA SoleCycleNext == MakerTypeOK /\ IdsDistinct /\ SoleCycle /\ [Next]_vars => SoleCycle'
<1> SUFFICES ASSUME MakerTypeOK, IdsDistinct, SoleCycle, [Next]_vars
             PROVE  SoleCycle'
  OBVIOUS
<1>0. /\ Slot \subseteq Task /\ Stop \in Task /\ Stop \notin Slot
      /\ faults \in Nat /\ Idle.call = NoCall
  BY CallsTyped DEF MakerTypeOK, Idle
<1>1. ASSUME NEW t \in Slot, Tick(t), Alone'
      PROVE  SoleCycle'
  <2>1. /\ \A u \in Task \ {t} : tasks'[u] = tasks[u]
        /\ NewCancel(t) \/ NewPlace(t) \/ NoneLeft(t)
    BY <1>1, CycleStep
  <2>2. /\ \A s \in Slot : tasks[s] = Idle
        /\ stopping = "no" /\ ~ overlapped /\ lost' = lost /\ faults' = faults
    BY <1>1 DEF Tick, Alone, process
  <2>3. \A s \in Slot : s # t => tasks'[s] = Idle /\ ~ Places(s)' /\ ~ Cancels(s)'
    BY <1>0, <2>1, <2>2 DEF Places, Cancels, NoCall
  <2> QED BY <2>1, <2>2, <2>3, NewCallFits DEF SoleCycle, Alone
<1>2. ASSUME NEW t \in Slot, Continue(t), Alone'
      PROVE  SoleCycle'
  <2>1. /\ \A u \in Task \ {t} : tasks'[u] = tasks[u]
        /\ NewCancel(t) \/ NewPlace(t) \/ NoneLeft(t)
    BY <1>2, CycleStep
  <2>2. /\ tasks[t].call \in Call /\ active' = Entered(tasks[t].call)
        /\ State(t) \in {"done", "failed"} /\ (Cancels(t) <=> ~ Places(t))
    BY <1>2, ContinueStep
  <2>3. stopping = "no" /\ ~ overlapped /\ faults' = faults
    BY <1>2 DEF Continue, Alone, process
  <2>4. /\ \A s \in Slot : s # t => tasks[s] = Idle
        /\ Cancels(t) => Id(t) \in Range(active)
        /\ Places(t) => made[Id(t)] \notin DOMAIN active
        /\ faults = 0 => lost = {}
    <3>1. tasks[t] # Idle
      BY <2>2 DEF Idle, Call, NoCall
    <3> QED BY <2>3, <3>1 DEF SoleCycle, Alone
  <2>5. \A s \in Slot : s # t => tasks'[s] = Idle /\ ~ Places(s)' /\ ~ Cancels(s)'
    BY <1>0, <2>1, <2>4 DEF Places, Cancels, NoCall
  <2>6. lost' = lost
    <3>1. ASSUME NEW q \in DOMAIN active
          PROVE  active[q] \in Range(active') \union {Id(t)}
      <4>1. CoreTypes
        BY DEF MakerTypeOK, CoreTypes
      <4>2. CASE Cancels(t)
        <5>1. PICK p \in DOMAIN active : active[p] = Id(t)
          BY <2>4, <4>2 DEF Range
        <5>2. p = made[Id(t)]
          BY <4>1, <5>1 DEF CoreTypes
        <5>3. /\ DOMAIN active' = DOMAIN active \ {made[Id(t)]}
              /\ \A k \in DOMAIN active' : active'[k] = active[k]
          BY <2>2, <4>1, <4>2, EnteredProperties DEF Cancels, Id
        <5> QED BY <5>1, <5>2, <5>3 DEF Range
      <4>3. CASE Places(t) /\ State(t) = "done"
        <5>1. /\ DOMAIN active' = DOMAIN active \union {made[Id(t)]}
              /\ \A k \in DOMAIN active : k # made[Id(t)] => active'[k] = active[k]
          BY <2>2, <4>1, <4>3, EnteredProperties DEF Places, State, Id
        <5> QED BY <2>4, <4>3, <5>1 DEF Range
      <4>4. CASE Places(t) /\ State(t) # "done"
        <5>1. active' = active
          BY <2>2, <4>1, <4>4, EnteredProperties DEF Places, State, Id
        <5> QED BY <5>1 DEF Range
      <4> QED BY <2>2, <4>2, <4>3, <4>4
    <3>2. Range(active) \ (Range(active') \union {Id(t)}) = {}
      BY <3>1 DEF Range
    <3> QED BY <1>2, <2>3, <3>2 DEF Continue, Lose, Id
  <2> QED BY <2>1, <2>3, <2>4, <2>5, <2>6, NewCallFits DEF SoleCycle
<1>3. ASSUME NEW t \in Task, Deliver(t) \/ Throw(t), Alone'
      PROVE  SoleCycle'
  <2>1. /\ \A u \in Task : /\ u # t => tasks'[u] = tasks[u]
                           /\ (Places(u)' <=> Places(u)) /\ (Cancels(u)' <=> Cancels(u))
                           /\ Id(u)' = Id(u)
        /\ tasks[t].call # NoCall
        /\ made' = made /\ active' = active /\ stopping' = stopping
    BY <1>3, AnswerStep
  <2>2. stopping = "no" /\ ~ overlapped
    BY <1>3 DEF Deliver, Throw, Alone, process
  <2>3. \A s \in Slot : tasks'[s] # Idle => tasks[s] # Idle
    BY <1>0, <2>1
  <2>4. faults' = 0 => lost' = lost /\ faults = 0
    BY <1>0, <1>3 DEF Deliver, Throw
  <2> QED BY <1>0, <2>1, <2>2, <2>3, <2>4 DEF SoleCycle, Alone
<1>4. CASE DropNext
  <2>1. /\ \A u \in Slot : tasks'[u] = tasks[u]
        /\ UNCHANGED <<active, made, lost, faults, stopping, overlapped>>
    BY <1>4, DropStep DEF DropNext, process, history
  <2> QED BY <2>1 DEF SoleCycle, Alone, Places, Cancels, Id
<1>5. CASE Signal \/ ClearMaps \/ CancelRest \/ Exit
  BY <1>5 DEF Signal, ClearMaps, CancelRest, Exit, SoleCycle, Alone
<1>6. CASE LoginFails \/ Kill
  <2>1. faults' # 0 /\ tasks' = [t \in Task |-> Idle]
    BY <1>0, <1>6 DEF LoginFails, Kill, Gone
  <2>2. \A t \in Slot : tasks'[t] = Idle /\ ~ Places(t)' /\ ~ Cancels(t)'
    BY <1>0, <2>1 DEF Places, Cancels, NoCall
  <2> QED BY <2>1, <2>2 DEF SoleCycle
<1>7. CASE Boot \/ Login \/ CheckPrice \/ SetPrice \/ GetStale \/ Fill \/ FillRest \/ UNCHANGED vars
  <2>1. UNCHANGED <<tasks, active, made, lost, faults, stopping, overlapped>>
    BY <1>7 DEF Boot, Login, CheckPrice, SetPrice, GetStale, Fill, FillRest,
                history, process, vars
  <2> QED BY <2>1 DEF SoleCycle, Alone, Places, Cancels, Id
<1>8. CASE Reconcile
  <2>1. /\ UNCHANGED <<tasks, active, made, lost, stopping, overlapped>>
        /\ faults' = 0 => faults = 0
    BY <1>0, <1>8, RestStep
  <2> QED BY <2>1 DEF SoleCycle, Alone, Places, Cancels, Id
<1>9. ~ Alone' => SoleCycle'
  BY DEF SoleCycle
<1> QED BY <1>0, <1>1, <1>2, <1>3, <1>4, <1>5, <1>6, <1>7, <1>8, <1>9 DEF Next, Startup, Shutdown

-----------------------------------------------------------------------------
(* The maker's own quotes never meet. *)

LEMMA TimesMonotone ==
    ASSUME NEW d \in Nat, NEW a \in Int, NEW b \in Int, a <= b
    PROVE  d * a \in Int /\ d * b \in Int /\ d * a <= d * b
<1> DEFINE k == b - a
<1>1. k \in Nat /\ b = a + k
  OBVIOUS
<1>2. d * k \in Nat
  BY <1>1
<1> HIDE DEF k
<1>3. d * b = d * a + d * k
  BY <1>1
<1> QED BY <1>1, <1>2, <1>3

\* Dividends a whole divisor apart have different quotients.
LEMMA DivApart ==
    ASSUME NEW x \in Int, NEW y \in Int, NEW d \in Nat, d > 0, x + d <= y
    PROVE  /\ x \div d \in Int /\ y \div d \in Int
           /\ x \div d < y \div d
<1> DEFINE m == x \div d
           n == y \div d
<1>1. m \in Int /\ n \in Int /\ d * m <= x /\ y < d * n + d
  OBVIOUS
<1> HIDE DEF m, n
<1>2. ASSUME n <= m
      PROVE  FALSE
  <2>1. d * n <= d * m /\ d * n \in Int /\ d * m \in Int
    BY <1>1, <1>2, TimesMonotone
  <2> QED BY <1>1, <2>1
<1>3. m < n
  BY <1>1, <1>2
<1> QED BY <1>1, <1>3 DEF m, n

\* Prices that are a tick apart stay apart when they are rounded.
LEMMA TicksApart ==
    ASSUME NEW x \in Int, NEW y \in Int, x + TickSize * 20000 <= y
    PROVE  RoundToTick(x) < RoundToTick(y)
<1>0. TickSize \in Nat /\ TickSize > 0
  BY MarketMakerAssumption
<1> DEFINE v == 2 * x + TickSize * 20000
           w == 2 * y + TickSize * 20000
           d == 2 * TickSize * 20000
           m == v \div d
           n == w \div d
<1>1. v \in Int /\ w \in Int /\ d \in Nat /\ d > 0 /\ v + d <= w
  BY <1>0
<1>2. RoundToTick(x) = m * TickSize /\ RoundToTick(y) = n * TickSize
  BY DEF RoundToTick
<1> HIDE DEF v, w, d
<1>3. m \in Int /\ n \in Int /\ m < n
  BY <1>1, DivApart
<1> HIDE DEF m, n
<1>4. TickSize * (m + 1) <= TickSize * n
  BY <1>0, <1>3, TimesMonotone
<1>5. TickSize * (m + 1) = m * TickSize + TickSize /\ TickSize * n = n * TickSize
  BY <1>0, <1>3
<1>6. m * TickSize \in Int /\ n * TickSize \in Int
  BY <1>0, <1>3
<1> QED BY <1>0, <1>2, <1>4, <1>5, <1>6

\* So that no bid reaches an ask of the same reference price.
LEMMA SidesApart ==
    ASSUME FineTick, NEW ref \in Reference, NEW i \in 1..Levels, NEW j \in 1..Levels
    PROVE  BidPrice(ref, i) < AskPrice(ref, j)
<1>0. /\ ref \in Nat /\ SpreadBps \in Nat /\ LevelBps \in Nat /\ Levels \in Nat /\ TickSize \in Nat
      /\ i \in Nat /\ j \in Nat /\ 1 <= i /\ 1 <= j
  BY MarketMakerAssumption
<1> DEFINE half  == ref * SpreadBps
           level == 2 * ref * LevelBps
           bid   == ref * 20000 - ref * SpreadBps - 2 * ref * LevelBps * i
           ask   == ref * 20000 + ref * SpreadBps + 2 * ref * LevelBps * j
<1>1. half \in Nat /\ level \in Nat /\ ref * (SpreadBps + 2 * LevelBps) = half + level
  BY <1>0
<1>2. bid = ref * 20000 - half - level * i /\ ask = ref * 20000 + half + level * j
  OBVIOUS
<1>3. TickSize * 10000 <= half + level
  BY <1>1 DEF FineTick
<1>4. BidPrice(ref, i) = RoundToTick(bid) /\ AskPrice(ref, j) = RoundToTick(ask)
  BY DEF BidPrice, AskPrice
<1> HIDE DEF half, level, bid, ask
<1>5. /\ level * 1 <= level * i /\ level * i \in Int
      /\ level * 1 <= level * j /\ level * j \in Int
  BY <1>0, <1>1, TimesMonotone
<1>6. bid \in Int /\ ask \in Int /\ bid + TickSize * 20000 <= ask
  BY <1>0, <1>1, <1>2, <1>3, <1>5
<1> QED BY <1>4, <1>6, TicksApart

\* What is wanted at one price does not meet what is wanted on the other side.
LEMMA WantedApart ==
    ASSUME FineTick, NEW ref \in Reference, NEW q \in Wanted(ref), NEW r \in Wanted(ref),
           q.side = "buy", r.side = "sell"
    PROVE  q.price < r.price
<1>1. \A x \in Wanted(ref) :
         \/ \E i \in 1..Levels : x = [side |-> "buy", price |-> BidPrice(ref, i)]
         \/ \E i \in 1..Levels : x = [side |-> "sell", price |-> AskPrice(ref, i)]
  <2> DEFINE bids == [i \in 1..Levels |-> [side |-> "buy", price |-> BidPrice(ref, i)]]
             asks == [i \in 1..Levels |-> [side |-> "sell", price |-> AskPrice(ref, i)]]
             all  == bids \o asks
  <2>1. Levels \in Nat
    BY MarketMakerAssumption
  <2>2. Len(bids) = Levels /\ Len(asks) = Levels
    BY <2>1
  <2>3. Wanted(ref) \subseteq Range(all) /\ DOMAIN all = 1..(Levels + Levels)
    BY <2>1, <2>2 DEF Wanted, CalculateQuotes
  <2>4. \A k \in 1..(Levels + Levels) :
           \/ k \in 1..Levels /\ all[k] = bids[k]
           \/ k - Levels \in 1..Levels /\ all[k] = asks[k - Levels]
    BY <2>1, <2>2
  <2>5. \A k \in 1..Levels : /\ bids[k] = [side |-> "buy", price |-> BidPrice(ref, k)]
                             /\ asks[k] = [side |-> "sell", price |-> AskPrice(ref, k)]
    OBVIOUS
  <2> HIDE DEF bids, asks, all
  <2>6. ASSUME NEW x \in Wanted(ref)
        PROVE  \/ \E i \in 1..Levels : x = [side |-> "buy", price |-> BidPrice(ref, i)]
               \/ \E i \in 1..Levels : x = [side |-> "sell", price |-> AskPrice(ref, i)]
    <3>1. PICK k \in 1..(Levels + Levels) : x = all[k]
      BY <2>3 DEF Range
    <3> QED BY <2>4, <2>5, <3>1
  <2> QED BY <2>6
<1>2. PICK i \in 1..Levels : q = [side |-> "buy", price |-> BidPrice(ref, i)]
  BY <1>1
<1>3. PICK j \in 1..Levels : r = [side |-> "sell", price |-> AskPrice(ref, j)]
  BY <1>1
<1> QED BY <1>2, <1>3, SidesApart

\* A cycle only places quotes of its reference price, ...
TodoWanted(t) == /\ Range(tasks[t].todo) \subseteq Range(CalculateQuotes(tasks[t].ref))
                 /\ Places(t) => made[Id(t)] \in Wanted(tasks[t].ref)

\* ... and, if it is alone, none before the maps are free of stale ones.
Cleared(t) ==
    /\ tasks[t].at \in {"sell", "place"} => Stale("buy", tasks[t].ref, active) = {}
    /\ tasks[t].at = "place" => Stale("sell", tasks[t].ref, active) = {}

NoneStale ==
    /\ \A t \in Slot : TodoWanted(t)
    /\ Alone => \A t \in Slot : Cleared(t)

\* A task that does nothing is about to place nothing.
LEMMA IdleCleared ==
    ASSUME NEW t, tasks[t] = Idle
    PROVE  TodoWanted(t) /\ Cleared(t)
  BY DEF TodoWanted, Cleared, Idle, NoCall, Places, Range

\* Going on with the maps map, a cycle keeps to its price and to its order.
LEMMA ProceedClears ==
    ASSUME MakerTypeOK, NEW t \in Slot, NEW at \in {"buy", "sell", "place"},
           NEW ref \in Reference, NEW todo \in Priced,
           Range(todo) \subseteq Range(CalculateQuotes(ref)),
           active' \in [DOMAIN active' -> 1..Len(made)],
           Proceed(t, at, ref, todo, active')
    PROVE  /\ TodoWanted(t)'
           /\ /\ at \in {"sell", "place"} => Stale("buy", ref, active') = {}
              /\ at = "place" => Stale("sell", ref, active') = {}
              => Cleared(t)'
<1>0. /\ DOMAIN tasks = Task /\ t \in Task /\ made \in Seq(Quote)
  BY DEF MakerTypeOK, Task
<1>a. \A r : Wanted(r)' = Wanted(r) /\ CalculateQuotes(r)' = CalculateQuotes(r)
  BY DEF Wanted, CalculateQuotes
<1>1. CASE \E side \in {"buy", "sell"} : \E q : NextCancels(t, at, ref, todo, active', side, q)
  <2>0. PICK side \in {"buy", "sell"} : \E q : NextCancels(t, at, ref, todo, active', side, q)
    BY <1>1
  <2>1. PICK q : NextCancels(t, at, ref, todo, active', side, q)
    BY <2>0
  <2>2. /\ tasks'[t].at = side /\ tasks'[t].ref = ref /\ tasks'[t].todo = todo
        /\ tasks'[t].call.kind = "cancel"
        /\ at # "place" /\ (side = "buy" => at = "buy")
        /\ side = "sell" /\ at = "buy" => Stale("buy", ref, active') = {}
    BY <1>0, <2>1 DEF NextCancels, Await
  <2> QED BY <1>a, <2>2 DEF TodoWanted, Cleared, Places, Stale
<1>2. CASE \E q, left : NextPlaces(t, at, ref, todo, active', q, left)
  <2>1. PICK q, left : NextPlaces(t, at, ref, todo, active', q, left)
    BY <1>2
  <2>2. /\ tasks'[t].at = "place" /\ tasks'[t].ref = ref /\ tasks'[t].todo = left
        /\ tasks'[t].call.id = Len(made) + 1 /\ made' = Append(made, q) /\ q \in Quote
        /\ Valid(q) /\ q \in Range(todo) /\ Range(left) \subseteq Range(todo)
        /\ at = "buy" => Stale("buy", ref, active') = {}
        /\ at \in {"buy", "sell"} => Stale("sell", ref, active') = {}
    BY <1>0, <2>1 DEF NextPlaces, Await
  <2>3. made'[Len(made) + 1] = q
    BY <1>0, <2>2, AppendProperties
  <2>4. q \in Wanted(ref)
    BY <2>2 DEF Wanted
  <2> QED BY <1>a, <2>2, <2>3, <2>4 DEF TodoWanted, Cleared, Id, Stale
<1>3. CASE NextEnds(t)
  <2>1. tasks'[t] = Idle
    BY <1>0, <1>3 DEF NextEnds
  <2> QED BY <2>1 DEF TodoWanted, Cleared, Idle, NoCall, Places, Range
<1> QED BY <1>1, <1>2, <1>3, ProceedOutcome

\* A cycle places only when the quotes of the last reference have left.
LEMMA NoneStaleNext ==
    MakerTypeOK /\ IdsDistinct /\ SoleCycle /\ NoneStale /\ [Next]_vars => NoneStale'
<1> SUFFICES ASSUME MakerTypeOK, IdsDistinct, SoleCycle, NoneStale, [Next]_vars
             PROVE  NoneStale'
  OBVIOUS
<1>0. /\ Slot \subseteq Task /\ Stop \in Task /\ Stop \notin Slot /\ made \in Seq(Quote)
      /\ \A t \in Task : /\ Places(t) \/ Cancels(t) => tasks[t].call # NoCall
                         /\ tasks[t].call # NoCall => Id(t) \in 1..Len(made)
  BY CallsTyped DEF MakerTypeOK
<1>a. \A r : Wanted(r)' = Wanted(r) /\ CalculateQuotes(r)' = CalculateQuotes(r)
  BY DEF Wanted, CalculateQuotes
\* What a step leaves to a task that it does not touch.
<1>b. ASSUME NEW u \in Slot, tasks'[u] = tasks[u],
             made' = made \/ \E q \in Quote : made' = Append(made, q)
      PROVE  TodoWanted(u)'
  <2>1. \A id \in 1..Len(made) : made'[id] = made[id]
    BY <1>0, <1>b, MadeGrows
  <2>2. TodoWanted(u) /\ (Places(u) => Id(u) \in 1..Len(made))
    BY <1>0 DEF NoneStale
  <2>3. (Places(u)' <=> Places(u)) /\ Id(u)' = Id(u)
    BY <1>b DEF Places, Id
  <2> QED BY <1>a, <1>b, <2>1, <2>2, <2>3 DEF TodoWanted
<1>1. ASSUME NEW t \in Slot, Tick(t)
      PROVE  NoneStale'
  <2>1. /\ \A u \in Task \ {t} : tasks'[u] = tasks[u]
        /\ made' = made \/ \E q \in Quote : made' = Append(made, q)
    BY <1>1, CycleStep
  <2>2. /\ price \in Reference /\ active' = active /\ (Alone' => Alone)
        /\ Proceed(t, "buy", price, CalculateQuotes(price), active')
    BY <1>1 DEF Tick, MakerTypeOK, Alone, process
  <2>3. TodoWanted(t)' /\ Cleared(t)'
    BY <2>2, QuotesTyped, ProceedClears DEF MakerTypeOK
  <2>4. ASSUME NEW u \in Slot, u # t
        PROVE  TodoWanted(u)' /\ (Alone' => Cleared(u)')
    <3>1. tasks'[u] = tasks[u]
      BY <1>0, <2>1, <2>4
    <3>2. Alone => Cleared(u)
      BY DEF NoneStale
    <3> QED BY <1>a, <1>b, <2>1, <2>2, <3>1, <3>2 DEF Cleared, Stale
  <2> QED BY <2>3, <2>4 DEF NoneStale
<1>2. ASSUME NEW t \in Slot, Continue(t)
      PROVE  NoneStale'
  <2>1. /\ \A u \in Task \ {t} : tasks'[u] = tasks[u]
        /\ made' = made \/ \E q \in Quote : made' = Append(made, q)
    BY <1>2, CycleStep
  <2>2. /\ tasks[t].call \in Call /\ active' = Entered(tasks[t].call)
        /\ tasks[t] \in Cycle /\ tasks[t] # Idle /\ (Alone' <=> Alone)
        /\ Proceed(t, tasks[t].at, tasks[t].ref, tasks[t].todo, active')
    BY <1>2 DEF Continue, MakerTypeOK, Idle, NoCall, Cycle, Alone, process
  <2>3. /\ tasks[t].at \in {"buy", "sell", "place"} /\ tasks[t].ref \in Reference
        /\ tasks[t].todo \in Priced
    BY <2>2 DEF Cycle, Priced
  <2>4. TodoWanted(t)
    BY DEF NoneStale
  <2>5. /\ active' \in [DOMAIN active' -> 1..Len(made)]
        /\ \A q \in DOMAIN active' : q \in DOMAIN active \/ q \in Wanted(tasks[t].ref)
    <3>1. CoreTypes
      BY DEF MakerTypeOK, CoreTypes
    <3>2. tasks[t].call.kind = "place" => made[tasks[t].call.id] \in Wanted(tasks[t].ref)
      BY <2>4 DEF TodoWanted, Places, Id
    <3>3. /\ active' \in [DOMAIN active' -> 1..Len(made)]
          /\ \A q \in DOMAIN active' : made[active'[q]] = q
      BY <2>2, <3>1, EnteredProperties
    <3>4. \A q \in DOMAIN active' :
             \/ q \in DOMAIN active
             \/ tasks[t].call.kind = "place" /\ active'[q] = tasks[t].call.id
      BY <2>2, <3>1, EnteredEntries
    <3> QED BY <3>2, <3>3, <3>4
  <2>6. \A side : Stale(side, tasks[t].ref, active') \subseteq Stale(side, tasks[t].ref, active)
    BY <2>5 DEF Stale
  <2>7. TodoWanted(t)' /\ (Cleared(t) => Cleared(t)')
    <3>1. Range(tasks[t].todo) \subseteq Range(CalculateQuotes(tasks[t].ref))
      BY <2>4 DEF TodoWanted
    <3>2. Cleared(t) =>
             /\ tasks[t].at \in {"sell", "place"} => Stale("buy", tasks[t].ref, active') = {}
             /\ tasks[t].at = "place" => Stale("sell", tasks[t].ref, active') = {}
      BY <2>6 DEF Cleared
    <3> QED BY <2>2, <2>3, <2>5, <3>1, <3>2, ProceedClears
  <2>8. ASSUME NEW u \in Slot, u # t
        PROVE  TodoWanted(u)' /\ (Alone' => Cleared(u)')
    <3>1. tasks'[u] = tasks[u]
      BY <1>0, <2>1, <2>8
    <3>2. Alone => tasks[u] = Idle
      BY <2>2, <2>8 DEF SoleCycle
    <3> QED BY <1>b, <2>1, <2>2, <3>1, <3>2 DEF Cleared, Idle
  <2> QED BY <2>2, <2>7, <2>8 DEF NoneStale
<1>3. ASSUME NEW t \in Task, Deliver(t) \/ Throw(t)
      PROVE  NoneStale'
  <2>1. /\ \A u \in Task : /\ tasks'[u].at = tasks[u].at /\ tasks'[u].ref = tasks[u].ref
                           /\ tasks'[u].todo = tasks[u].todo
                           /\ (Places(u)' <=> Places(u)) /\ Id(u)' = Id(u)
        /\ made' = made /\ active' = active /\ (Alone' <=> Alone)
    BY <1>3, AnswerStep DEF Alone, Deliver, Throw
  <2> QED BY <1>0, <1>a, <2>1 DEF NoneStale, TodoWanted, Cleared, Stale
<1>4. CASE Signal \/ DropNext
  <2>1. /\ \A u \in Slot : tasks'[u] = tasks[u]
        /\ UNCHANGED <<made, active>>
    BY <1>4, DropStep
  <2>0. Alone' => Alone
    <3>1. CASE Signal
      BY <3>1 DEF Signal, Alone
    <3>2. CASE DropNext
      BY <3>2 DEF DropNext, Alone, process, history
    <3> QED BY <1>4, <3>1, <3>2
  <2>2. \A u \in Slot : (Places(u)' <=> Places(u)) /\ Id(u)' = Id(u)
    BY <2>1 DEF Places, Id
  <2> QED BY <1>a, <2>0, <2>1, <2>2 DEF NoneStale, TodoWanted, Cleared, Stale
<1>5. CASE Exit \/ Gone
  <2>1. \A u \in Slot : tasks'[u] = Idle
    BY <1>0, <1>5 DEF Exit, Gone
  <2>2. \A u \in Slot : TodoWanted(u)' /\ Cleared(u)'
    BY <2>1 DEF TodoWanted, Cleared, Idle, NoCall, Places, Range
  <2> QED BY <2>2 DEF NoneStale
<1>6. CASE Boot \/ Login \/ Reconcile \/ CheckPrice \/ SetPrice \/ GetStale \/ CancelRest
           \/ Fill \/ FillRest \/ UNCHANGED vars
  <2>1. UNCHANGED <<tasks, made, active>> /\ (Alone' => Alone)
    <3>1. CASE Reconcile \/ CancelRest
      BY <3>1, RestStep DEF Alone
    <3>2. CASE Boot \/ Login \/ CheckPrice \/ SetPrice \/ GetStale \/ Fill \/ FillRest
               \/ UNCHANGED vars
      BY <3>2 DEF Boot, Login, CheckPrice, SetPrice, GetStale, Fill, FillRest,
                  Alone, history, process, vars
    <3> QED BY <1>6, <3>1, <3>2
  <2> QED BY <1>a, <2>1 DEF NoneStale, TodoWanted, Cleared, Stale, Places, Id
<1>7. CASE ClearMaps
  <2>1. UNCHANGED <<tasks, made>> /\ ~ Alone'
    BY <1>7 DEF ClearMaps, Alone, history
  <2> QED BY <1>a, <2>1 DEF NoneStale, TodoWanted, Places, Id
<1>8. LoginFails \/ Kill => Gone
  BY DEF LoginFails, Kill
<1> QED BY <1>0, <1>1, <1>2, <1>3, <1>4, <1>5, <1>6, <1>7, <1>8 DEF Next, Startup, Shutdown

-----------------------------------------------------------------------------
(* Shutdown. *)

\* What the maps named at the signal is still listed, being cancelled, out of the
\* book or lost; what was being placed counts as lost.
Dropping ==
    /\ stopping # "no" => Placing \subseteq lost
    /\ tasks[Stop].call = NoCall => tasks[Stop].todo = <<>>
    /\ stopping = "injector" =>
          book \subseteq lost \union Range(tasks[Stop].todo)
                             \union {id \in {Id(Stop)} : Cancels(Stop)}
    /\ stopping \in {"rest", "exit", "stopped"} => book \subseteq lost

\* For every order that reconcile() was shown the maps name one of its side and
\* price, which the shutdown cancels.
Adopted ==
    faults = 0 /\ stage \in {"waiting", "quoting"} =>
        /\ rest.known \subseteq rest.shown
        /\ stopping \notin {"exit", "stopped"} =>
              \A o \in rest.shown : \E q \in rest.known : RestAt[q] = RestAt[o]
        /\ stage = "quoting" /\ stopping \in {"exit", "stopped"} =>
              \A o \in rest.shown \intersect rest.open :
                  \E q \in rest.shown \ rest.open : RestAt[q] = RestAt[o]

\* Orders are adopted by side and price; open orders only become fewer.
LEMMA AdoptedNext == MakerTypeOK /\ Adopted /\ [Next]_vars => Adopted'
<1> SUFFICES ASSUME MakerTypeOK, Adopted, [Next]_vars
             PROVE  Adopted'
  OBVIOUS
<1>0. /\ faults \in Nat
      /\ rest \in [open: SUBSET RestOrder, shown: SUBSET RestOrder, known: SUBSET RestOrder]
  BY DEF MakerTypeOK
<1> USE DEF Adopted
<1>1. ASSUME NEW t, Tick(t) \/ Deliver(t) \/ Throw(t) \/ Continue(t)
      PROVE  Adopted'
  <2>1. UNCHANGED <<stage, stopping, rest>> /\ (faults' = 0 => faults = 0)
    BY <1>0, <1>1 DEF Tick, Deliver, Throw, Continue, process
  <2> QED BY <2>1
<1>2. CASE Boot \/ Login \/ CheckPrice \/ SetPrice \/ GetStale \/ Fill \/ Signal \/ DropNext
           \/ ClearMaps \/ Exit \/ UNCHANGED vars
  <2>1. UNCHANGED <<rest, faults>>
    BY <1>2 DEF Boot, Login, CheckPrice, SetPrice, GetStale, Fill, Signal, DropNext,
                ClearMaps, Exit, history, process, vars
  <2>2. /\ stage' \in {"waiting", "quoting"} => stage \in {"waiting", "quoting"}
        /\ stage' = "quoting" /\ stopping' \in {"exit", "stopped"} =>
              stage = "quoting" /\ stopping \in {"exit", "stopped"}
        /\ stopping' \notin {"exit", "stopped"} => stopping \notin {"exit", "stopped"}
    BY <1>2 DEF Boot, Login, CheckPrice, SetPrice, GetStale, Fill, Signal, DropNext,
                ClearMaps, Exit, history, process, vars
  <2> QED BY <2>1, <2>2
<1>3. CASE LoginFails \/ Kill
  BY <1>0, <1>3 DEF LoginFails, Kill, Gone
<1>4. CASE Reconcile
  <2>1. ASSUME NEW rows \in SUBSET rest.open, NEW kept \in SUBSET rows, OneAtEach(kept, rows),
               rest' = [rest EXCEPT !.shown = rows, !.known = kept]
        PROVE  Adopted'
    <3>1. stage' = "waiting"
      BY <1>4 DEF Reconcile
    <3>2. rest'.shown = rows /\ rest'.known = kept
      BY <1>0, <2>1
    <3> QED BY <2>1, <3>1, <3>2 DEF OneAtEach
  <2>2. faults' = faults + 1 => Adopted'
    BY <1>0
  <2> QED BY <1>4, <2>1, <2>2 DEF Reconcile
<1>5. CASE CancelRest
  <2>1. CASE rest' = [rest EXCEPT !.open = rest.open \ rest.known, !.known = {}]
             /\ UNCHANGED faults
    <3> SUFFICES ASSUME faults = 0, stage = "quoting"
                 PROVE  \A o \in rest'.shown \intersect rest'.open :
                            \E q \in rest'.shown \ rest'.open : RestAt[q] = RestAt[o]
      <4>1. rest'.known = {} /\ stage' = stage /\ stopping' = "exit"
        BY <1>0, <1>5, <2>1 DEF CancelRest
      <4> QED BY <2>1, <4>1
    <3>1. rest'.shown = rest.shown /\ rest'.open = rest.open \ rest.known
      BY <1>0, <2>1
    <3>2. /\ rest.known \subseteq rest.shown
          /\ \A o \in rest.shown : \E q \in rest.known : RestAt[q] = RestAt[o]
      BY <1>5 DEF CancelRest
    <3> QED BY <3>1, <3>2
  <2>2. faults' = faults + 1 => Adopted'
    BY <1>0
  <2> QED BY <1>5, <2>1, <2>2 DEF CancelRest
<1>6. CASE FillRest
  <2>1. UNCHANGED <<stage, stopping, faults>>
    BY <1>6 DEF FillRest, history, process
  <2>2. rest'.shown = rest.shown /\ rest'.known = rest.known /\ rest'.open \subseteq rest.open
    BY <1>0, <1>6 DEF FillRest
  <2> QED BY <2>1, <2>2
<1> QED BY <1>1, <1>2, <1>3, <1>4, <1>5, <1>6 DEF Next, Startup, Shutdown

\* A shutdown that meets no running cycle starts with nothing lost, and nobody
\* loses anything beside it.
Quiet ==
    stopping # "no" /\ ~ caught =>
        /\ \A t \in Slot : tasks[t] = Idle
        /\ faults = 0 /\ ~ overlapped => lost = {}

\* Once the signal has come, no cycle starts.
LEMMA QuietNext ==
    MakerTypeOK /\ IdsDistinct /\ SoleCycle /\ Quiet /\ [Next]_vars => Quiet'
<1> SUFFICES ASSUME MakerTypeOK, IdsDistinct, SoleCycle, Quiet, [Next]_vars
             PROVE  Quiet'
  OBVIOUS
<1>0. Slot \subseteq Task /\ Stop \in Task /\ Stop \notin Slot /\ faults \in Nat
  BY CallsTyped DEF MakerTypeOK
<1> USE DEF Quiet
<1>1. ASSUME NEW t \in Slot, Tick(t)
      PROVE  Quiet'
  BY <1>1 DEF Tick, process
<1>2. ASSUME NEW t \in Slot, Continue(t)
      PROVE  Quiet'
  <2>1. tasks[t] # Idle /\ stopping' = stopping /\ caught' = caught
    BY <1>2 DEF Continue, Idle, NoCall, process
  <2> QED BY <2>1
<1>3. ASSUME NEW t \in Task, Deliver(t) \/ Throw(t)
      PROVE  Quiet'
  <2>1. /\ \A u \in Task : u # t => tasks'[u] = tasks[u]
        /\ tasks[t].call # NoCall /\ stopping' = stopping
    BY <1>3, AnswerStep
  <2>2. caught' = caught /\ overlapped' = overlapped
    BY <1>3 DEF Deliver, Throw
  <2>3. t \in Slot => tasks[t] # Idle
    BY <2>1 DEF Idle
  <2>4. faults' = 0 => faults = 0 /\ lost' = lost
    BY <1>0, <1>3 DEF Deliver, Throw
  <2> QED BY <1>0, <2>1, <2>2, <2>3, <2>4
<1>4. CASE Signal
  <2> SUFFICES ASSUME ~ caught'
               PROVE  /\ \A t \in Slot : tasks'[t] = Idle
                      /\ faults' = 0 /\ ~ overlapped' => lost' = {}
    OBVIOUS
  <2>1. /\ \A t \in Slot : tasks[t] = Idle /\ tasks'[t] = tasks[t]
        /\ lost' = lost \union Placing
        /\ faults' = faults /\ overlapped' = overlapped /\ stopping = "no"
    BY <1>4, DropStep DEF Signal, Lose
  <2>2. \A t \in Task : ~ Places(t)
    BY <2>1 DEF IdsDistinct, Task, Places, Idle, NoCall
  <2>3. Placing = {}
    BY <2>2, PlacingMembers
  <2> QED BY <2>1, <2>3 DEF SoleCycle, Alone
<1>5. CASE DropNext
  <2>1. /\ \A t \in Slot : tasks'[t] = tasks[t]
        /\ UNCHANGED <<stopping, caught, faults, overlapped, lost>>
    BY <1>5, DropStep DEF DropNext, process, history
  <2> QED BY <2>1
<1>6. CASE ClearMaps \/ CancelRest
  <2>1. UNCHANGED <<tasks, caught, overlapped, lost>> /\ stopping # "no"
    BY <1>6, RestStep DEF ClearMaps, history
  <2>2. faults' = 0 => faults = 0
    BY <1>0, <1>6, RestStep DEF ClearMaps, history
  <2> QED BY <2>1, <2>2
<1>7. CASE Exit
  <2>1. UNCHANGED history /\ stopping # "no" /\ \A t \in Task : tasks'[t] = Idle
    BY <1>7 DEF Exit
  <2> QED BY <1>0, <2>1 DEF history
<1>8. CASE LoginFails \/ Kill
  BY <1>8 DEF LoginFails, Kill
<1>9. CASE Boot \/ Login \/ Reconcile \/ CheckPrice \/ SetPrice \/ GetStale \/ Fill \/ FillRest
           \/ UNCHANGED vars
  <2>1. UNCHANGED <<stopping, tasks, caught, overlapped, lost>>
    BY <1>9, RestStep DEF Boot, Login, CheckPrice, SetPrice, GetStale, Fill, FillRest,
                          history, process, vars
  <2>2. faults' = 0 => faults = 0
    BY <1>0, <1>9, RestStep DEF Boot, Login, CheckPrice, SetPrice, GetStale, Fill, FillRest,
                                history, process, vars
  <2> QED BY <2>1, <2>2
<1> QED BY <1>0, <1>1, <1>2, <1>3, <1>4, <1>5, <1>6, <1>7, <1>8, <1>9 DEF Next, Startup, Shutdown

\* A shutdown has each quote of the maps on its list until it is cancelled.
LEMMA DroppingNext ==
    MakerTypeOK /\ IdsDistinct /\ Known /\ Dropping /\ [Next]_vars => Dropping'
<1> SUFFICES ASSUME MakerTypeOK, IdsDistinct, Known, Dropping, [Next]_vars
             PROVE  Dropping'
  OBVIOUS
<1>0. Slot \subseteq Task /\ Stop \in Task /\ Stop \notin Slot
  BY CallsTyped
<1>1. ASSUME NEW t \in Slot, Tick(t) \/ Continue(t)
      PROVE  Dropping'
  <2>1. /\ \A u \in Task \ {t} : tasks'[u] = tasks[u]
        /\ book' = book /\ stopping' = stopping /\ lost \subseteq lost'
        /\ NewCancel(t) \/ NewPlace(t) \/ NoneLeft(t)
        /\ tasks'[Stop] = tasks[Stop] /\ (Cancels(Stop)' <=> Cancels(Stop)) /\ Id(Stop)' = Id(Stop)
    BY <1>0, <1>1, CycleStep DEF Cancels, Id
  <2>2. stopping # "no" => Placing' \subseteq lost'
    <3> SUFFICES ASSUME stopping # "no", NEW u \in Task, Places(u)'
                 PROVE  Id(u)' \in lost'
      BY PlacingMembers
    <3>1. CASE u # t
      <4>1. Places(u) /\ Id(u)' = Id(u)
        BY <2>1, <3>1 DEF Places, Id
      <4> QED BY <2>1, <4>1, PlacingMembers DEF Dropping
    <3>2. CASE u = t
      <4>1. NewPlace(t)
        BY <2>1, <3>2 DEF NewCancel, NoneLeft, Places, Cancels, Idle, NoCall
      <4>2. Continue(t)
        BY <1>1 DEF Tick
      <4>3. PICK q \in Quote : made' = Append(made, q) /\ Id(t)' = Len(made) + 1
        BY <4>1 DEF NewPlace
      <4>4. Len(made) \in Nat /\ Len(made') = Len(made) + 1
        BY <4>3, AppendProperties DEF MakerTypeOK
      <4>5. Len(made) + 1 \in {id \in 1..Len(made') : id > Len(made) /\ stopping # "no"}
        BY <4>4
      <4> QED BY <3>2, <4>2, <4>3, <4>5 DEF Continue, Lose
    <3> QED BY <3>1, <3>2
  <2> QED BY <2>1, <2>2 DEF Dropping
<1>2. ASSUME NEW t \in Task, Deliver(t) \/ Throw(t)
      PROVE  Dropping'
  <2>1. /\ \A u \in Task : /\ u # t => tasks'[u] = tasks[u]
                           /\ tasks'[u].todo = tasks[u].todo
                           /\ (Places(u)' <=> Places(u)) /\ (Cancels(u)' <=> Cancels(u))
                           /\ Id(u)' = Id(u)
        /\ tasks[t].call # NoCall
        /\ stopping' = stopping /\ lost \subseteq lost'
        /\ \A id \in book' : id \in book \/ (Places(t) /\ id = Id(t))
    BY <1>2, AnswerStep
  <2>2. Placing' = Placing
    <3>1. \A u \in Task : (Places(u)' <=> Places(u)) /\ Id(u)' = Id(u)
      BY <2>1
    <3> QED BY <3>1, PlacingMembers
  <2>3. stopping # "no" => \A id \in book' : id \in book \/ id \in lost'
    BY <2>1, PlacingMembers DEF Dropping
  <2>4. tasks'[Stop].call = NoCall => tasks'[Stop].todo = <<>>
    <3>1. CASE t # Stop
      BY <1>0, <2>1, <3>1 DEF Dropping
    <3>2. CASE t = Stop
      <4>1. State(t)' # "none"
        BY <1>2, AnswerStep
      <4> QED BY <3>2, <4>1 DEF State, NoCall
    <3> QED BY <3>1, <3>2
  <2> QED BY <1>0, <2>1, <2>2, <2>3, <2>4 DEF Dropping
<1>3. CASE Signal
  <2>1. /\ \A u \in Slot : tasks'[u] = tasks[u]
        /\ ~ Places(Stop)' /\ (tasks'[Stop].call = NoCall => tasks'[Stop].todo = <<>>)
        /\ Range(tasks'[Stop].todo) \union {id \in {Id(Stop)'} : Cancels(Stop)'} = Range(active)
        /\ book' = book /\ lost \subseteq lost'
    BY <1>3, DropStep
  <2>2. stopping = "no" /\ stopping' = "injector" /\ lost' = lost \union Placing
    BY <1>3 DEF Signal, Lose
  <2>3. Placing' \subseteq Placing
    BY <1>0, <2>1, PlacingMembers DEF Task, Places, Id
  <2>4. book \subseteq Range(active) \union Placing \union lost
    BY <2>2 DEF Known
  <2> QED BY <2>1, <2>2, <2>3, <2>4 DEF Dropping
<1>4. CASE DropNext
  <2>1. /\ \A u \in Slot : tasks'[u] = tasks[u]
        /\ ~ Places(Stop)' /\ (tasks'[Stop].call = NoCall => tasks'[Stop].todo = <<>>)
        /\ Range(tasks'[Stop].todo) \union {id \in {Id(Stop)'} : Cancels(Stop)'}
              = Range(tasks[Stop].todo)
        /\ book' = book /\ lost \subseteq lost' /\ stopping' = stopping
    BY <1>4, DropStep DEF Signal, DropNext, process
  <2>2. Placing' \subseteq Placing
    BY <1>0, <2>1, PlacingMembers DEF Task, Places, Id
  <2>3. Cancels(Stop) => Id(Stop) \notin book \/ Id(Stop) \in lost
    BY <1>0, <1>4 DEF DropNext, State, IdsDistinct, CancelSettled
  <2> QED BY <2>1, <2>2, <2>3 DEF Dropping
<1>5. CASE ClearMaps
  <2>1. /\ UNCHANGED <<tasks, book, lost>> /\ tasks[Stop].call = NoCall
        /\ stopping = "injector" /\ stopping' = "rest"
    BY <1>5 DEF ClearMaps, history
  <2>2. ~ Cancels(Stop) /\ Range(tasks[Stop].todo) = {} /\ Placing' = Placing
    BY <2>1 DEF Dropping, Cancels, NoCall, Range, Placing
  <2> QED BY <2>1, <2>2 DEF Dropping
<1>6. CASE CancelRest
  <2>1. UNCHANGED <<tasks, book, lost>> /\ stopping = "rest" /\ stopping' = "exit"
    BY <1>6 DEF CancelRest
  <2>2. Placing' = Placing
    BY <2>1 DEF Placing
  <2> QED BY <2>1, <2>2 DEF Dropping
<1>7. CASE Exit \/ Gone
  <2>1. tasks' = [t \in Task |-> Idle]
    BY <1>7 DEF Exit, Gone
  <2>2. /\ \A t \in Task : ~ Places(t)'
        /\ tasks'[Stop].todo = <<>>
    BY <1>0, <2>1 DEF Places, Idle, NoCall
  <2>3. Placing' = {}
    BY <2>2, PlacingMembers
  <2>4. book' \subseteq lost'
    <3>1. CASE Exit
      BY <3>1 DEF Exit, history, Dropping
    <3>2. CASE Gone
      BY <3>2 DEF Gone, Lose
    <3> QED BY <1>7, <3>1, <3>2
  <2> QED BY <2>2, <2>3, <2>4 DEF Dropping
<1>8. CASE Boot \/ Login \/ Reconcile \/ CheckPrice \/ SetPrice \/ GetStale \/ Fill \/ FillRest
           \/ UNCHANGED vars
  <2>1. UNCHANGED <<tasks, lost, stopping>> /\ book' \subseteq book
    BY <1>8 DEF Boot, Login, Reconcile, CheckPrice, SetPrice, GetStale, Fill, FillRest,
                history, process, vars
  <2>2. /\ Placing' = Placing /\ (Cancels(Stop)' <=> Cancels(Stop)) /\ Id(Stop)' = Id(Stop)
    BY <2>1 DEF Placing, Cancels, Id
  <2> QED BY <2>1, <2>2 DEF Dropping
<1>9. LoginFails \/ Kill => Gone
  BY DEF LoginFails, Kill
<1> QED BY <1>0, <1>1, <1>2, <1>3, <1>4, <1>5, <1>6, <1>7, <1>8, <1>9 DEF Next, Startup, Shutdown

-----------------------------------------------------------------------------
(* The invariant of the market maker, and what follows from it. *)

MakerInv == /\ MakerTypeOK /\ IdsDistinct /\ Known /\ SoleCycle
            /\ NoneStale /\ Dropping /\ Adopted /\ Quiet

\* The parts of the invariant together are inductive.
LEMMA MakerInvInductive ==
    /\ Init => MakerInv
    /\ MakerInv /\ [Next]_vars => MakerInv'
<1>1. Init => MakerInv
  <2> SUFFICES ASSUME Init
               PROVE  MakerInv
    OBVIOUS
  <2>1. MakerTypeOK
    BY MakerTypesInductive
  <2>2. /\ \A t \in Task : tasks[t] = Idle
        /\ book = {} /\ lost = {} /\ stage = "down" /\ stopping = "no"
    BY DEF Init
  <2>3. \A t \in Task : ~ Places(t) /\ ~ Cancels(t) /\ tasks[t].at = "idle" /\ tasks[t].todo = <<>>
    BY <2>2 DEF Places, Cancels, Idle, NoCall
  <2>4. Slot \subseteq Task /\ Stop \in Task
    BY <2>1, CallsTyped
  <2>5. IdsDistinct
    BY <2>3, <2>4 DEF IdsDistinct, InPhase, PlacedOnce, CancelSettled
  <2>6. Known /\ SoleCycle
    BY <2>2, <2>3, <2>4 DEF Known, SoleCycle
  <2>7. NoneStale
    BY <2>2, <2>4, IdleCleared DEF NoneStale
  <2>8. Dropping /\ Adopted /\ Quiet
    BY <2>2, <2>3, <2>4 DEF Dropping, Adopted, Quiet
  <2> QED BY <2>1, <2>5, <2>6, <2>7, <2>8 DEF MakerInv
<1>2. MakerInv /\ [Next]_vars => MakerInv'
  BY MakerTypesInductive, IdsDistinctNext, KnownNext, SoleCycleNext, NoneStaleNext, DroppingNext,
     AdoptedNext, QuietNext DEF MakerInv
<1> QED BY <1>1, <1>2

\* Every quote in the engine's book is named by the maps or about to be, or it is
\* lost; and nothing is lost but through a fault or through cycles that overlap
\* (updateQuotes, and the engine's acknowledgements that never come back).
THEOREM QuotesStayKnown == Spec => []EveryQuoteKnown
<1>1. MakerInv => EveryQuoteKnown
  BY DEF MakerInv, EveryQuoteKnown, Known, SoleCycle, Alone
<1> QED BY <1>1, MakerInvInductive, PTL DEF Spec

\* A shutdown leaves no quote behind when no cycle was running at the signal, none
\* but those lost when one was; of the orders that reconcile() was shown it leaves
\* none that had its side and price to itself (shutdown, cancelAll).
THEOREM ShutdownClears == Spec => []ShutdownLeavesNothing
<1>1. MakerInv => ShutdownLeavesNothing
  BY DEF MakerInv, ShutdownLeavesNothing, Dropping, Adopted, Quiet
<1> QED BY <1>1, MakerInvInductive, PTL DEF Spec

\* A quote that reaches the book meets none of the maker's own.
LEMMA QuoteMeetsNone ==
    ASSUME MakerInv, FineTick, NEW t \in Task, Deliver(t), selfTraded' # selfTraded,
           ~ overlapped, lost = {}
    PROVE  FALSE
<1>0. /\ Slot \subseteq Task /\ Task = Slot \union {Stop}
      /\ \A u \in Task : Places(u) \/ Cancels(u) => tasks[u].call # NoCall /\ Id(u) \in 1..Len(made)
      /\ \A u \in Slot : tasks[u] # Idle => tasks[u] \in Cycle
      /\ made \in Seq(Quote) /\ \A q \in DOMAIN active : made[active[q]] = q
  BY CallsTyped DEF MakerInv, MakerTypeOK, Task
<1>1. Places(t) /\ State(t) = "sent" /\ Rest(Id(t))
  BY DEF Deliver, Places, State, Id
<1>2. t \in Slot /\ Id(t) \notin book /\ Id(t) \in Placing
  BY <1>0, <1>1, PlacingMembers DEF MakerInv, IdsDistinct, PlacedOnce
<1>3. Alone
  BY <1>2 DEF MakerInv, Dropping, Alone
<1>4. PICK m \in book : /\ made[m].side # made[Id(t)].side
                        /\ IF made[Id(t)].side = "buy" THEN made[m].price <= made[Id(t)].price
                                                       ELSE made[m].price >= made[Id(t)].price
  BY <1>1 DEF Rest
<1>5. m \in Range(active)
  <2>1. m \in Range(active) \union Placing
    BY <1>3, <1>4 DEF MakerInv, Known, Alone
  <2>2. m \notin Placing
    <3> SUFFICES ASSUME NEW u \in Task, Places(u), m = Id(u)
                 PROVE  FALSE
      BY PlacingMembers
    <3>1. u \in Slot /\ tasks[u] # Idle /\ tasks[t] # Idle
      BY <1>0, <1>1 DEF MakerInv, IdsDistinct, Idle
    <3>2. u = t
      BY <1>2, <1>3, <3>1 DEF MakerInv, SoleCycle
    <3> QED BY <1>2, <1>4, <3>2
  <2> QED BY <2>1, <2>2
<1>6. made[m] \in DOMAIN active
  BY <1>0, <1>5 DEF Range
<1> DEFINE ref == tasks[t].ref
<1>7. tasks[t] \in Cycle /\ tasks[t].at = "place" /\ ref \in Reference
  <2>1. tasks[t] \in Cycle
    BY <1>0, <1>1, <1>2 DEF Idle
  <2>2. tasks[t].at \in {"buy", "sell", "place"} /\ ref \in Reference
    BY <2>1 DEF Cycle
  <2>3. ~ Cancels(t)
    BY <1>1 DEF Places, Cancels
  <2> QED BY <1>2, <2>1, <2>2, <2>3 DEF MakerInv, IdsDistinct, InPhase
<1> HIDE DEF ref
<1>8. made[Id(t)] \in Wanted(ref)
  BY <1>1, <1>2 DEF MakerInv, NoneStale, TodoWanted, ref
<1>9. made[m] \in Quote /\ made[Id(t)] \in Quote
  <2>1. m \in 1..Len(made) /\ Id(t) \in 1..Len(made)
    BY <1>0, <1>1 DEF MakerInv, MakerTypeOK
  <2> QED BY <1>0, <2>1, ElementOfSeq
<1>10. made[m] \in Wanted(ref)
  <2>1. Stale("buy", ref, active) = {} /\ Stale("sell", ref, active) = {}
    BY <1>2, <1>3, <1>7 DEF MakerInv, NoneStale, Cleared, ref
  <2>2. made[m].side \in {"buy", "sell"}
    BY <1>9 DEF Quote
  <2> QED BY <1>6, <2>1, <2>2 DEF Stale
<1>11. /\ made[m].price \in Int /\ made[Id(t)].price \in Int
       /\ made[m].side \in {"buy", "sell"} /\ made[Id(t)].side \in {"buy", "sell"}
  BY <1>9 DEF Quote
<1>12. CASE made[Id(t)].side = "buy"
  <2>1. made[Id(t)].price < made[m].price
    BY <1>4, <1>7, <1>8, <1>10, <1>11, <1>12, WantedApart
  <2> QED BY <1>4, <1>11, <1>12, <2>1
<1>13. CASE made[Id(t)].side = "sell"
  <2>1. made[m].price < made[Id(t)].price
    BY <1>4, <1>7, <1>8, <1>10, <1>11, <1>13, WantedApart
  <2> QED BY <1>4, <1>11, <1>13, <2>1
<1> QED BY <1>11, <1>12, <1>13

\* A new quote crosses none that rests, since all that rest are of its reference.
LEMMA NoSelfTradeNext == MakerInv /\ NoSelfTrade /\ [Next]_vars => NoSelfTrade'
<1> SUFFICES ASSUME MakerInv, NoSelfTrade, [Next]_vars, FineTick, selfTraded'
             PROVE  overlapped' \/ lost' # {}
  BY DEF NoSelfTrade, FineTick
<1>0. selfTraded \in BOOLEAN /\ selfTraded' \in BOOLEAN
  BY MakerTypesInductive DEF MakerInv, MakerTypeOK
<1>1. (overlapped => overlapped') /\ lost \subseteq lost'
  <2>1. ASSUME NEW t, Tick(t)
        PROVE  overlapped' \in {overlapped, TRUE} /\ lost' = lost
    BY <2>1 DEF Tick
  <2>2. ASSUME NEW t, Deliver(t) \/ Throw(t) \/ Continue(t)
        PROVE  overlapped' = overlapped /\ lost \subseteq lost'
    BY <2>2 DEF Deliver, Throw, Continue, Lose
  <2>3. CASE Startup \/ SetPrice \/ GetStale \/ Fill \/ FillRest \/ UNCHANGED vars
    <3>1. overlapped' = overlapped
      BY <2>3 DEF Startup, Boot, Login, LoginFails, Gone, Reconcile, CheckPrice, SetPrice,
                  GetStale, Fill, FillRest, history, vars
    <3>2. lost \subseteq lost'
      BY <2>3 DEF Startup, Boot, Login, LoginFails, Gone, Lose, Reconcile, CheckPrice, SetPrice,
                  GetStale, Fill, FillRest, history, vars
    <3> QED BY <3>1, <3>2
  <2>4. CASE Signal \/ DropNext \/ ClearMaps \/ CancelRest \/ Exit \/ Kill
    <3>1. overlapped' = overlapped
      BY <2>4 DEF Signal, DropNext, ClearMaps, CancelRest, Exit, Kill, Gone, history
    <3>2. lost \subseteq lost'
      BY <2>4 DEF Signal, Lose, DropNext, ClearMaps, CancelRest, Exit, Kill, Gone, history
    <3> QED BY <3>1, <3>2
  <2> QED BY <2>1, <2>2, <2>3, <2>4 DEF Next, Shutdown
<1>2. CASE selfTraded
  BY <1>1, <1>2 DEF NoSelfTrade
<1>3. ASSUME NEW t \in Task, Deliver(t), ~ selfTraded
      PROVE  overlapped' \/ lost' # {}
  BY <1>0, <1>1, <1>3, QuoteMeetsNone
<1>4. CASE ~ selfTraded
  <2>1. \E t \in Task : Deliver(t)
    <3>1. ASSUME NEW t, Tick(t) \/ Throw(t) \/ Continue(t)
          PROVE  selfTraded' = selfTraded
      BY <3>1 DEF Tick, Throw, Continue
    <3>2. Startup \/ SetPrice \/ GetStale \/ Fill \/ FillRest \/ UNCHANGED vars => selfTraded' = selfTraded
      BY DEF Startup, Boot, Login, LoginFails, Gone, Reconcile, CheckPrice, SetPrice,
             GetStale, Fill, FillRest, history, vars
    <3>3. Signal \/ DropNext \/ ClearMaps \/ CancelRest \/ Exit \/ Kill => selfTraded' = selfTraded
      BY DEF Signal, DropNext, ClearMaps, CancelRest, Exit, Kill, Gone, history
    <3> QED BY <1>4, <3>1, <3>2, <3>3 DEF Next, Shutdown, Task
  <2> QED BY <1>3, <1>4, <2>1
<1> QED BY <1>2, <1>4

\* However the reference price jumps, a maker whose cycles do not overlap and who
\* has lost no quote never trades with itself (market_maker/README.md:244), as long
\* as the tick is no coarser than the spread.
THEOREM NoSelfTrading == Spec => []NoSelfTrade
<1>1. Init => NoSelfTrade
  BY DEF Init, NoSelfTrade
<1> QED BY <1>1, MakerInvInductive, NoSelfTradeNext, PTL DEF Spec

=============================================================================
