--------------------------- MODULE OrderPathProofs ---------------------------
(***************************************************************************)
(* OrderPath, for any requests, keys, cancellers, funds and number of      *)
(* faults: one order per key, margin behind every order, and what has been *)
(* answered or ticked off is in the stream.                                *)
(***************************************************************************)
EXTENDS OrderPath, FiniteSetTheorems, SequenceTheorems, TLAPS

Command == [op: {"place", "cancel"}, order: Request]

Job == [todo: SUBSET Request, order: Request \union {NoKey},
        at: {"new", "read", "send", "mark", "gone"}]

\* The types, with those of the worker's list and of the cancellers in full.
Types ==
    /\ at \in [Request -> {"new", "lock", "insert", "record", "publish", "mark",
                           "done", "known", "refused", "failed"}]
    /\ locked \in SUBSET Request /\ IsFiniteSet(locked)
    /\ orders \in [Request -> {"none", "open", "canceled"}]
    /\ outbox \in [Request -> {"none", "pending", "published"}]
    /\ stream \in Seq(Command)
    /\ worker \in [pending: Seq(Request), at: {"asleep", "send", "mark"}]
    /\ cancel \in [Canceller -> Job]
    /\ faults \in 0..MaxFaults
    /\ crashed \in BOOLEAN

\* Each statement of a request has what the ones before it have done.
Progress ==
    \A r \in Request :
        /\ at[r] = "insert" => r \in locked
        /\ at[r] \in {"record", "publish", "mark", "done"} => orders[r] # "none"
        /\ at[r] \in {"publish", "mark", "done"} => outbox[r] # "none"
        /\ at[r] \in {"mark", "done"} => InStream(Place(r))

\* An order has margin, an outbox row an order, and so has a command; a row
\* is ticked off only when its command has been sent.
Chain ==
    \A r \in Request :
        /\ orders[r] # "none" => r \in locked
        /\ outbox[r] # "none" => orders[r] # "none"
        /\ outbox[r] = "published" => InStream(Place(r))
        /\ InStream(Place(r)) => orders[r] # "none"

\* The worker's list is of rows, however stale; it marks what it has sent.
Listed ==
    /\ worker.at # "asleep" => worker.pending # <<>>
    /\ \A i \in 1..Len(worker.pending) : outbox[worker.pending[i]] # "none"
    /\ worker.at = "mark" => InStream(Place(worker.pending[1]))

\* So does a canceller.
Cancelling ==
    \A k \in Canceller :
        cancel[k].at \in {"send", "mark"} =>
            cancel[k].order \in Request /\ orders[cancel[k].order] # "none"

InFunds == Cardinality(locked) <= Funds

\* The inductive invariant.
IInv == Types /\ Progress /\ Chain /\ Listed /\ Cancelling
        /\ InFunds /\ KeyNamesOneOrder

-----------------------------------------------------------------------------
\* A command in the stream stays there, and the one appended is there.
LEMMA Appended ==
    ASSUME stream \in Seq(Command), NEW c \in Command, stream' = Append(stream, c)
    PROVE  /\ stream' \in Seq(Command)
           /\ ToSet(stream') = ToSet(stream) \union {c}
  <1>1. stream' \in Seq(Command) /\ DOMAIN stream' = 1..(Len(stream) + 1) /\ DOMAIN stream = 1..Len(stream)
        /\ Len(stream) \in Nat
    OBVIOUS
  <1>2. stream'[Len(stream) + 1] = c /\ \A i \in 1..Len(stream) : stream'[i] = stream[i]
    OBVIOUS
  <1>3. ASSUME NEW x \in ToSet(stream') PROVE x \in ToSet(stream) \union {c}
    <2>1. PICK i \in 1..(Len(stream) + 1) : x = stream'[i]
      BY <1>1, <1>3 DEF ToSet
    <2>2. i = Len(stream) + 1 \/ i \in 1..Len(stream)
      BY <1>1, <2>1
    <2> QED BY <1>1, <1>2, <2>1, <2>2 DEF ToSet
  <1>4. ASSUME NEW x \in ToSet(stream) \union {c} PROVE x \in ToSet(stream')
    <2>1. CASE x = c
      BY <2>1, <1>1, <1>2 DEF ToSet
    <2>2. CASE x \in ToSet(stream)
      <3>1. PICK i \in 1..Len(stream) : x = stream[i]
        BY <1>1, <2>2 DEF ToSet
      <3>2. i \in 1..(Len(stream) + 1)
        BY <1>1, <3>1
      <3> QED BY <1>1, <1>2, <3>1, <3>2 DEF ToSet
    <2> QED BY <1>4, <2>1, <2>2
  <1> QED BY <1>1, <1>3, <1>4

\* The two kinds of command are different, and so are those of two orders.
LEMMA Commands ==
    ASSUME NEW r \in Request, NEW q \in Request
    PROVE  /\ Place(r) \in Command /\ CancelOf(r) \in Command
           /\ Place(r) # CancelOf(q)
           /\ Place(r) = Place(q) => r = q
           /\ CancelOf(r) = CancelOf(q) => r = q
  <1>1. Place(r).op = "place" /\ CancelOf(q).op = "cancel"
    BY DEF Place, CancelOf
  <1>2. Place(r).order = r /\ Place(q).order = q /\ CancelOf(r).order = r /\ CancelOf(q).order = q
    BY DEF Place, CancelOf
  <1>3. Place(r) \in Command /\ CancelOf(r) \in Command
    BY DEF Place, CancelOf, Command
  <1> QED BY <1>1, <1>2, <1>3

\* The list the worker reads is one of rows that are pending.
LEMMA ReadRows ==
    ASSUME NEW S, IsFiniteSet(S), NEW rows \in SetToAllKPermutations(S)
    PROVE  rows \in Seq(S)
  <1>1. PICK s \in SUBSET S : rows \in SetToSeqs(s)
    BY DEF SetToAllKPermutations
  <1>2. Cardinality(s) \in Nat
    BY FS_Subset, FS_CardinalityType
  <1>3. rows \in [1..Cardinality(s) -> s]
    BY <1>1 DEF SetToSeqs
  <1> QED BY <1>2, <1>3

\* The rest of a list of several.
LEMMA TailOfMore ==
    ASSUME NEW S, NEW s \in Seq(S), s # <<>>, Len(s) # 1
    PROVE  /\ Tail(s) \in Seq(S) /\ Len(s) > 1
           /\ Len(Tail(s)) = Len(s) - 1
           /\ \A i \in 1..Len(Tail(s)) : Tail(s)[i] = s[i + 1]
  <1>1. Len(s) \in Nat /\ Len(s) # 0
    OBVIOUS
  <1>2. \A n \in Nat : n # 0 /\ n # 1 => n > 1
    OBVIOUS
  <1>3. Len(s) > 1
    BY <1>1, <1>2
  <1> QED BY <1>3, HeadTailProperties

\* What is left of the worker's list after a row.
LEMMA Rest ==
    ASSUME Types, Listed, worker.at # "asleep"
    PROVE  /\ NextRow \in [pending: Seq(Request), at: {"asleep", "send", "mark"}]
           /\ NextRow.at # "mark"
           /\ NextRow.at # "asleep" => NextRow.pending # <<>>
           /\ \A i \in 1..Len(NextRow.pending) : outbox[NextRow.pending[i]] # "none"
  <1>1. worker.pending \in Seq(Request) /\ worker.pending # <<>>
    BY DEF Types, Listed
  <1>2. CASE Len(worker.pending) = 1
    <2>1. NextRow = [pending |-> <<>>, at |-> "asleep"]
      BY <1>2 DEF NextRow, Resting
    <2>2. <<>> \in Seq(Request) /\ Len(<<>>) = 0
      OBVIOUS
    <2> QED BY <2>1, <2>2
  <1>3. CASE Len(worker.pending) # 1
    <2>1. NextRow = [pending |-> Tail(worker.pending), at |-> "send"]
      BY <1>3 DEF NextRow
    <2>2. /\ Tail(worker.pending) \in Seq(Request) /\ Len(worker.pending) > 1
          /\ Len(Tail(worker.pending)) = Len(worker.pending) - 1
          /\ \A i \in 1..Len(Tail(worker.pending)) :
                Tail(worker.pending)[i] = worker.pending[i + 1]
      BY <1>1, <1>3, TailOfMore
    <2>3. Tail(worker.pending) # <<>>
      BY <2>2
    <2>4. \A i \in 1..Len(Tail(worker.pending)) : i + 1 \in 1..Len(worker.pending)
      BY <2>2
    <2>5. \A i \in 1..Len(Tail(worker.pending)) : outbox[Tail(worker.pending)[i]] # "none"
      BY <2>2, <2>4 DEF Listed
    <2> QED BY <2>1, <2>2, <2>3, <2>5
  <1> QED BY <1>2, <1>3

-----------------------------------------------------------------------------
\* Nothing has been asked: every table is empty.
LEMMA InitInv == Init => IInv
  <1> SUFFICES ASSUME Init PROVE IInv
    OBVIOUS
  <1>1. \A c : ~InStream(c)
    BY DEF Init, InStream, ToSet
  <1>2. IsFiniteSet(locked) /\ Cardinality(locked) = 0
    BY FS_EmptySet DEF Init
  <1>3. <<>> \in Seq(Command) /\ <<>> \in Seq(Request)
    OBVIOUS
  <1>4. Types
    <2>1. worker \in [pending: Seq(Request), at: {"asleep", "send", "mark"}]
      BY <1>3 DEF Init, Resting
    <2>2. cancel \in [Canceller -> Job]
      BY DEF Init, Job
    <2>3. faults \in 0..MaxFaults
      BY PathAssumption DEF Init
    <2>4. stream \in Seq(Command)
      BY <1>3 DEF Init
    <2> QED BY <1>2, <2>1, <2>2, <2>3, <2>4 DEF Init, Types
  <1>5. Listed
    BY DEF Init, Listed, Resting
  <1>6. InFunds
    BY <1>2, PathAssumption DEF InFunds
  <1>7. Progress /\ Chain /\ Cancelling
    BY <1>1 DEF Init, Progress, Chain, Cancelling
  <1>8. KeyNamesOneOrder
    BY DEF Init, KeyNamesOneOrder
  <1> QED BY <1>4, <1>5, <1>6, <1>7, <1>8 DEF IInv

\* placeOrder().
LEMMA CheckInv ==
    ASSUME IInv, NEW r \in Request, Check(r) PROVE IInv'
  <1> USE DEF IInv, Check, Goto
  <1>1. Types'
    BY DEF Types
  <1>2. Progress'
    BY DEF Types, Progress, InStream
  <1>3. Chain' /\ Listed' /\ Cancelling' /\ InFunds'
    BY DEF Chain, Listed, Cancelling, InFunds, InStream
  <1>4. KeyNamesOneOrder'
    BY DEF Types, KeyNamesOneOrder, KeyTaken
  <1> QED BY <1>1, <1>2, <1>3, <1>4

\* The margin is locked before anything leans on it.
LEMMA LockInv ==
    ASSUME IInv, NEW r \in Request, Lock(r) PROVE IInv'
  <1> USE DEF IInv, Lock, Goto
  <1>1. IsFiniteSet(locked) /\ Cardinality(locked) \in Nat
    BY FS_CardinalityType DEF Types
  <1>2. IsFiniteSet(locked') /\ Cardinality(locked') <= Funds
    <2>1. CASE Affordable
      <3>1. locked' = locked \union {r}
        BY <2>1
      <3>2. IsFiniteSet(locked') /\ Cardinality(locked') <= Cardinality(locked) + 1
            /\ Cardinality(locked') \in Nat
        <4>1. /\ IsFiniteSet(locked \union {r})
              /\ Cardinality(locked \union {r}) = IF r \in locked THEN Cardinality(locked)
                                                   ELSE Cardinality(locked) + 1
          BY <1>1, FS_AddElement
        <4> QED BY <1>1, <3>1, <4>1
      <3> QED BY <1>1, <2>1, <3>2, PathAssumption DEF Affordable
    <2>2. CASE ~Affordable
      BY <1>1, <2>2 DEF InFunds
    <2> QED BY <2>1, <2>2
  <1>3. locked \subseteq locked'
    OBVIOUS
  <1>4. Types'
    <2>1. locked' \in SUBSET Request
      BY DEF Types
    <2>2. at' \in [Request -> {"new", "lock", "insert", "record", "publish", "mark",
                               "done", "known", "refused", "failed"}]
      BY DEF Types
    <2> QED BY <1>2, <2>1, <2>2 DEF Types
  <1>5. Progress'
    BY <1>3 DEF Types, Progress, InStream
  <1>6. Chain' /\ Listed' /\ Cancelling'
    BY <1>3 DEF Chain, Listed, Cancelling, InStream
  <1>7. KeyNamesOneOrder'
    BY DEF Types, KeyNamesOneOrder, KeyTaken
  <1> QED BY <1>2, <1>4, <1>5, <1>6, <1>7 DEF InFunds

\* The order is inserted behind its margin.
LEMMA InsertInv ==
    ASSUME IInv, NEW r \in Request, Insert(r) PROVE IInv'
  <1> USE DEF IInv, Insert, Goto
  <1>1. Types'
    BY DEF Types
  <1>2. \A q \in Request : orders[q] # "none" => orders'[q] # "none"
    BY DEF Types
  <1>3. Progress'
    BY <1>2 DEF Types, Progress, InStream
  <1>4. Chain'
    BY <1>2 DEF Types, Progress, Chain, InStream
  <1>5. Cancelling'
    BY <1>2 DEF Cancelling, InStream
  <1>6. Listed' /\ InFunds'
    BY DEF Types, Listed, InFunds, InStream
  <1>7. KeyNamesOneOrder'
    <2>1. CASE KeyTaken(r)
      BY <2>1 DEF Types, KeyNamesOneOrder, KeyTaken
    <2>2. CASE ~KeyTaken(r)
      <3>1. \A q \in Request : orders'[q] # "none" /\ q # r => orders[q] # "none" /\ ~SameKey(r, q)
        BY <2>2 DEF Types, KeyTaken
      <3>2. \A p, q \in Request :
              orders'[p] # "none" /\ orders'[q] # "none" /\ SameKey(p, q) => p = q
        BY <3>1 DEF KeyNamesOneOrder, SameKey
      <3>3. \A q \in Request : at'[q] = "known" => KeyTaken(q)'
        BY <1>2, <2>2 DEF Types, KeyNamesOneOrder, KeyTaken
      <3> QED BY <3>2, <3>3 DEF KeyNamesOneOrder, SameKey
    <2> QED BY <2>1, <2>2
  <1> QED BY <1>1, <1>3, <1>4, <1>5, <1>6, <1>7

\* The outbox row is inserted behind its order.
LEMMA RecordInv ==
    ASSUME IInv, NEW r \in Request, Record(r) PROVE IInv'
  <1> USE DEF IInv, Record, Goto
  <1>1. Types'
    BY DEF Types
  <1>2. \A q \in Request : outbox[q] # "none" => outbox'[q] # "none"
    BY DEF Types
  <1>3. Progress'
    BY <1>2 DEF Types, Progress, InStream
  <1>4. Chain'
    BY DEF Types, Progress, Chain, InStream
  <1>5. Listed'
    <2>1. worker.pending \in Seq(Request)
      BY DEF Types
    <2>2. \A i \in 1..Len(worker.pending) : worker.pending[i] \in Request
      BY <2>1
    <2> QED BY <1>2, <2>2 DEF Listed, InStream
  <1>6. Cancelling' /\ InFunds'
    BY DEF Cancelling, InFunds, InStream
  <1>7. KeyNamesOneOrder'
    BY DEF Types, KeyNamesOneOrder, KeyTaken
  <1> QED BY <1>1, <1>3, <1>4, <1>5, <1>6, <1>7

\* The command is sent behind its order.
LEMMA PublishInv ==
    ASSUME IInv, NEW r \in Request, Publish(r) PROVE IInv'
  <1> USE DEF IInv, Publish, Goto
  <1>1. Place(r) \in Command /\ stream \in Seq(Command)
    BY Commands DEF Types
  <1>2. stream' \in Seq(Command) /\ ToSet(stream') = ToSet(stream) \union {Place(r)}
    BY <1>1, Appended
  <1>3. Types'
    BY <1>2 DEF Types
  <1>4. /\ \A c : InStream(c) => InStream(c)'
        /\ InStream(Place(r))'
        /\ \A q \in Request : InStream(Place(q))' => InStream(Place(q)) \/ q = r
    BY <1>2, Commands DEF InStream
  <1>5. Progress'
    BY <1>4 DEF Types, Progress
  <1>6. Chain'
    BY <1>4 DEF Types, Progress, Chain
  <1>7. Listed'
    BY <1>4 DEF Listed
  <1>8. Cancelling'
    BY <1>4 DEF Cancelling
  <1>9. KeyNamesOneOrder' /\ InFunds'
    BY DEF Types, KeyNamesOneOrder, KeyTaken, InFunds
  <1> QED BY <1>3, <1>5, <1>6, <1>7, <1>8, <1>9

\* The row is ticked off behind its command.
LEMMA MarkInv ==
    ASSUME IInv, NEW r \in Request, Mark(r) PROVE IInv'
  <1> USE DEF IInv, Mark, Goto
  <1>1. Types'
    BY DEF Types
  <1>2. \A q \in Request : outbox[q] # "none" => outbox'[q] # "none"
    BY DEF Types
  <1>3. Progress'
    BY <1>2 DEF Types, Progress, InStream
  <1>4. Chain'
    BY DEF Types, Progress, Chain, InStream
  <1>5. Listed'
    <2>1. worker.pending \in Seq(Request)
      BY DEF Types
    <2>2. \A i \in 1..Len(worker.pending) : worker.pending[i] \in Request
      BY <2>1
    <2> QED BY <1>2, <2>2 DEF Listed, InStream
  <1>6. Cancelling' /\ InFunds'
    BY DEF Cancelling, InFunds, InStream
  <1>7. KeyNamesOneOrder'
    BY DEF Types, KeyNamesOneOrder, KeyTaken
  <1> QED BY <1>1, <1>3, <1>4, <1>5, <1>6, <1>7

\* A request that fails leaves the chain as far as it came.
LEMMA FailRequestInv ==
    ASSUME IInv, NEW r \in Request, FailRequest(r) PROVE IInv'
  <1> USE DEF IInv, FailRequest, Goto
  <1>1. Types'
    BY PathAssumption DEF Types
  <1>2. Progress'
    BY DEF Types, Progress, InStream
  <1>3. Chain' /\ Listed' /\ Cancelling' /\ InFunds'
    BY DEF Chain, Listed, Cancelling, InFunds, InStream
  <1>4. KeyNamesOneOrder'
    BY DEF Types, KeyNamesOneOrder, KeyTaken
  <1> QED BY <1>1, <1>2, <1>3, <1>4

\* The outbox worker.
LEMMA ReadOutboxInv ==
    ASSUME IInv, ReadOutbox PROVE IInv'
  <1> USE DEF IInv, ReadOutbox
  <1>1. IsFiniteSet(Pending)
    <2>1. Pending \subseteq locked
      BY DEF Pending, Chain, Types
    <2> QED BY <2>1, FS_Subset DEF Types
  <1>2. PICK rows \in SetToAllKPermutations(Pending) :
          rows # <<>> /\ worker' = [pending |-> rows, at |-> "send"]
    OBVIOUS
  <1>3. rows \in Seq(Pending) /\ Pending \subseteq Request
    BY <1>1, ReadRows DEF Pending
  <1>4. rows \in Seq(Request) /\ \A i \in 1..Len(rows) : rows[i] \in Pending
    BY <1>3
  <1>5. Types'
    BY <1>2, <1>4 DEF Types
  <1>6. Listed'
    BY <1>2, <1>4 DEF Listed, Pending
  <1>7. Progress' /\ Chain' /\ Cancelling' /\ InFunds' /\ KeyNamesOneOrder'
    BY DEF Progress, Chain, Cancelling, InFunds, KeyNamesOneOrder, KeyTaken, InStream
  <1> QED BY <1>5, <1>6, <1>7

\* The worker sends only rows, whose orders exist.
LEMMA SendRowInv ==
    ASSUME IInv, SendRow PROVE IInv'
  <1> USE DEF IInv, SendRow
  <1> DEFINE r == Head(worker.pending)
  <1>1. worker.pending \in Seq(Request) /\ worker.pending # <<>>
    BY DEF Types, Listed
  <1>2. r \in Request /\ r = worker.pending[1] /\ 1 \in 1..Len(worker.pending)
    BY <1>1
  <1>3. Place(r) \in Command /\ stream \in Seq(Command)
    BY <1>2, Commands DEF Types
  <1>4. stream' \in Seq(Command) /\ ToSet(stream') = ToSet(stream) \union {Place(r)}
    BY <1>3, Appended
  <1>5. /\ \A c : InStream(c) => InStream(c)'
        /\ InStream(Place(r))'
        /\ \A q \in Request : InStream(Place(q))' => InStream(Place(q)) \/ q = r
    BY <1>2, <1>4, Commands DEF InStream
  <1>6. outbox[r] # "none" /\ orders[r] # "none"
    BY <1>2 DEF Listed, Chain
  <1>7. worker' = [pending |-> worker.pending, at |-> "mark"]
    BY DEF Types
  <1>8. Types'
    BY <1>1, <1>4, <1>7 DEF Types
  <1>9. Progress' /\ Chain'
    BY <1>5, <1>6 DEF Progress, Chain
  <1>10. Listed'
    <2>1. InStream(Place(worker.pending[1]))'
      BY <1>2, <1>5, <1>7
    <2> QED BY <1>1, <1>7, <2>1 DEF Listed
  <1>11. Cancelling'
    BY <1>5 DEF Cancelling
  <1>12. KeyNamesOneOrder' /\ InFunds'
    BY DEF KeyNamesOneOrder, KeyTaken, InFunds
  <1> QED BY <1>8, <1>9, <1>10, <1>11, <1>12

\* The worker ticks off what it has just sent.
LEMMA MarkRowInv ==
    ASSUME IInv, MarkRow PROVE IInv'
  <1> USE DEF IInv, MarkRow
  <1> DEFINE r == Head(worker.pending)
  <1>1. worker.pending \in Seq(Request) /\ worker.pending # <<>> /\ worker.at # "asleep"
    BY DEF Types, Listed
  <1>2. r \in Request /\ InStream(Place(r)) /\ outbox[r] # "none"
    <2>1. r \in Request /\ r = worker.pending[1] /\ 1 \in 1..Len(worker.pending)
      BY <1>1
    <2> QED BY <2>1 DEF Listed
  <1>3. \A q \in Request : /\ outbox[q] # "none" <=> outbox'[q] # "none"
                           /\ outbox'[q] = "published" => outbox[q] = "published" \/ q = r
    BY <1>2 DEF Types
  <1>4. /\ NextRow \in [pending: Seq(Request), at: {"asleep", "send", "mark"}]
        /\ NextRow.at # "mark"
        /\ NextRow.at # "asleep" => NextRow.pending # <<>>
        /\ \A i \in 1..Len(NextRow.pending) : outbox[NextRow.pending[i]] # "none"
    BY <1>1, Rest
  <1>5. Types'
    BY <1>2, <1>4 DEF Types
  <1>6. Progress' /\ Chain'
    BY <1>2, <1>3 DEF Progress, Chain, InStream
  <1>7. Listed'
    <2>1. \A i \in 1..Len(NextRow.pending) : NextRow.pending[i] \in Request
      BY <1>4
    <2> QED BY <1>3, <1>4, <2>1 DEF Listed
  <1>8. Cancelling' /\ InFunds' /\ KeyNamesOneOrder'
    BY DEF Cancelling, InFunds, KeyNamesOneOrder, KeyTaken, InStream
  <1> QED BY <1>5, <1>6, <1>7, <1>8

\* A row that cannot be sent is left for the next round.
LEMMA FailRowInv ==
    ASSUME IInv, FailRow PROVE IInv'
  <1> USE DEF IInv, FailRow
  <1>1. /\ NextRow \in [pending: Seq(Request), at: {"asleep", "send", "mark"}]
        /\ NextRow.at # "mark"
        /\ NextRow.at # "asleep" => NextRow.pending # <<>>
        /\ \A i \in 1..Len(NextRow.pending) : outbox[NextRow.pending[i]] # "none"
    BY Rest
  <1>2. Types'
    BY <1>1, PathAssumption DEF Types
  <1>3. Listed'
    BY <1>1 DEF Listed
  <1>4. Progress' /\ Chain' /\ Cancelling' /\ InFunds' /\ KeyNamesOneOrder'
    BY DEF Progress, Chain, Cancelling, InFunds, KeyNamesOneOrder, KeyTaken, InStream
  <1> QED BY <1>2, <1>3, <1>4

-----------------------------------------------------------------------------
\* A canceller goes on, and keeps its type.
LEMMA Advanced ==
    ASSUME cancel \in [Canceller -> Job], NEW k \in Canceller,
           NEW todo \in SUBSET Request, NEW next \in {"new", "read", "send", "mark", "gone"}
    PROVE  /\ [cancel EXCEPT ![k].at = next] \in [Canceller -> Job]
           /\ [cancel EXCEPT ![k].at = next, ![k].todo = todo] \in [Canceller -> Job]
  <1>1. cancel[k] \in Job
    OBVIOUS
  <1>2. [cancel[k] EXCEPT !.at = next] \in Job /\ [cancel[k] EXCEPT !.at = next, !.todo = todo] \in Job
    BY <1>1 DEF Job
  <1>3. /\ [cancel EXCEPT ![k] = [cancel[k] EXCEPT !.at = next]] \in [Canceller -> Job]
        /\ [cancel EXCEPT ![k] = [cancel[k] EXCEPT !.at = next, !.todo = todo]] \in [Canceller -> Job]
    BY <1>2
  <1>4. /\ [cancel EXCEPT ![k].at = next] = [cancel EXCEPT ![k] = [cancel[k] EXCEPT !.at = next]]
        /\ [cancel EXCEPT ![k].at = next, ![k].todo = todo]
              = [cancel EXCEPT ![k] = [cancel[k] EXCEPT !.at = next, !.todo = todo]]
    OBVIOUS
  <1> QED BY <1>3, <1>4

\* cancelOrder() and cancelAllOpenOrders().
LEMMA BeginCancelInv ==
    ASSUME IInv, NEW k \in Canceller, BeginCancel(k) PROVE IInv'
  <1> USE DEF IInv, BeginCancel
  <1>1. Types'
    <2> DEFINE todo == IF k \in CancelAll THEN {r \in TargetOf[k] : orders[r] = "open"}
                       ELSE TargetOf[k]
    <2>1. todo \in SUBSET Request
      BY PathAssumption
    <2>2. cancel' \in [Canceller -> Job]
      BY <2>1, Advanced DEF Types
    <2> QED BY <2>2 DEF Types
  <1>2. Cancelling'
    BY DEF Types, Job, Cancelling, InStream
  <1>3. Progress' /\ Chain' /\ Listed' /\ InFunds' /\ KeyNamesOneOrder'
    BY DEF Progress, Chain, Listed, InFunds, KeyNamesOneOrder, KeyTaken, InStream
  <1> QED BY <1>1, <1>2, <1>3

\* A canceller reads an order that is there.
LEMMA ReadOrderInv ==
    ASSUME IInv, NEW k \in Canceller, NEW r \in Request, ReadOrder(k, r) PROVE IInv'
  <1> USE DEF IInv, ReadOrder
  <1>1. Types'
    BY DEF Types, Job
  <1>2. Cancelling'
    BY DEF Types, Job, Cancelling, InStream
  <1>3. Progress' /\ Chain' /\ Listed' /\ InFunds' /\ KeyNamesOneOrder'
    BY DEF Progress, Chain, Listed, InFunds, KeyNamesOneOrder, KeyTaken, InStream
  <1> QED BY <1>1, <1>2, <1>3

\* A cancel command adds nothing that needs an order of its own.
LEMMA SendCancelInv ==
    ASSUME IInv, NEW k \in Canceller, SendCancel(k) PROVE IInv'
  <1> USE DEF IInv, SendCancel
  <1> DEFINE r == cancel[k].order
  <1>1. r \in Request
    BY DEF Cancelling
  <1>2. CancelOf(r) \in Command /\ stream \in Seq(Command)
    BY <1>1, Commands DEF Types
  <1>3. stream' \in Seq(Command) /\ ToSet(stream') = ToSet(stream) \union {CancelOf(r)}
    BY <1>2, Appended
  <1>4. /\ \A c : InStream(c) => InStream(c)'
        /\ InStream(CancelOf(r))'
        /\ \A q \in Request : InStream(Place(q))' => InStream(Place(q))
    BY <1>1, <1>3, Commands DEF InStream
  <1>5. Types'
    BY <1>3, Advanced DEF Types
  <1>6. Progress' /\ Chain' /\ Listed'
    BY <1>4 DEF Progress, Chain, Listed
  <1>7. Cancelling'
    BY <1>1, <1>4 DEF Types, Job, Cancelling
  <1>8. InFunds' /\ KeyNamesOneOrder'
    BY DEF InFunds, KeyNamesOneOrder, KeyTaken
  <1> QED BY <1>5, <1>6, <1>7, <1>8

\* An order that is marked canceled is there.
LEMMA MarkCanceledInv ==
    ASSUME IInv, NEW k \in Canceller, MarkCanceled(k) PROVE IInv'
  <1> USE DEF IInv, MarkCanceled
  <1> DEFINE r == cancel[k].order
  <1>1. r \in Request
    BY DEF Cancelling
  <1>2. orders[r] # "none"
    BY <1>1 DEF Cancelling
  <1>3. Types'
    BY <1>1, Advanced DEF Types
  <1>4. \A q \in Request : orders'[q] # "none" <=> orders[q] # "none"
    BY <1>1, <1>2 DEF Types
  <1>5. Progress' /\ Chain' /\ KeyNamesOneOrder'
    BY <1>4 DEF Progress, Chain, KeyNamesOneOrder, KeyTaken, SameKey, InStream
  <1>6. Cancelling'
    BY DEF Types, Job, Cancelling, InStream
  <1>7. Listed' /\ InFunds'
    BY DEF Listed, InFunds, InStream
  <1> QED BY <1>3, <1>5, <1>6, <1>7

\* A cancel that fails leaves the order as it was.
LEMMA FailCancelInv ==
    ASSUME IInv, NEW k \in Canceller, FailCancel(k) PROVE IInv'
  <1> USE DEF IInv, FailCancel
  <1>1. Types'
    <2>1. cancel' \in [Canceller -> Job]
      BY Advanced DEF Types
    <2>2. faults' \in 0..MaxFaults
      BY PathAssumption DEF Types
    <2> QED BY <2>1, <2>2 DEF Types
  <1>2. Cancelling'
    BY DEF Types, Job, Cancelling, InStream
  <1>3. Progress' /\ Chain' /\ Listed' /\ InFunds' /\ KeyNamesOneOrder'
    BY DEF Progress, Chain, Listed, InFunds, KeyNamesOneOrder, KeyTaken, InStream
  <1> QED BY <1>1, <1>2, <1>3

\* A crash forgets calls and the list of the worker, and no row.
LEMMA CrashInv ==
    ASSUME IInv, Crash PROVE IInv'
  <1> USE DEF IInv, Crash
  <1>1. Types'
    <2>1. worker' \in [pending: Seq(Request), at: {"asleep", "send", "mark"}]
      <3>1. <<>> \in Seq(Request)
        OBVIOUS
      <3> QED BY <3>1 DEF Resting
    <2>2. cancel' \in [Canceller -> Job]
      <3> DEFINE after(k) == IF cancel[k].at = "new" THEN cancel[k]
                             ELSE [cancel[k] EXCEPT !.at = "gone"]
      <3>1. ASSUME NEW k \in Canceller PROVE after(k) \in Job
        <4>1. cancel[k] \in Job
          BY DEF Types
        <4>2. [cancel[k] EXCEPT !.at = "gone"] \in Job
          BY <4>1 DEF Job
        <4> QED BY <4>1, <4>2
      <3>2. cancel' = [k \in Canceller |-> after(k)]
        OBVIOUS
      <3> HIDE DEF after
      <3> QED BY <3>1, <3>2, Zenon
    <2>3. at' \in [Request -> {"new", "lock", "insert", "record", "publish", "mark",
                               "done", "known", "refused", "failed"}]
      BY DEF Types
    <2>4. faults' \in 0..MaxFaults
      BY PathAssumption DEF Types
    <2> QED BY <2>1, <2>2, <2>3, <2>4 DEF Types
  <1>2. Progress'
    BY DEF Types, Progress, InStream, Begun
  <1>3. Listed'
    BY DEF Listed, Resting
  <1>4. Cancelling'
    BY DEF Types, Job, Cancelling, InStream
  <1>5. KeyNamesOneOrder'
    BY DEF Types, KeyNamesOneOrder, KeyTaken, Begun
  <1>6. Chain' /\ InFunds'
    BY DEF Chain, InFunds, InStream
  <1> QED BY <1>1, <1>2, <1>3, <1>4, <1>5, <1>6

-----------------------------------------------------------------------------
\* Every action keeps the invariant.
LEMMA NextInv == IInv /\ [Next]_vars => IInv'
  <1> SUFFICES ASSUME IInv, [Next]_vars PROVE IInv'
    OBVIOUS
  <1>1. ASSUME NEW r \in Request, Check(r) \/ Serve(r) \/ FailRequest(r) PROVE IInv'
    BY <1>1, CheckInv, LockInv, InsertInv, RecordInv, PublishInv, MarkInv, FailRequestInv DEF Serve
  <1>2. ASSUME Worker \/ FailRow PROVE IInv'
    BY <1>2, ReadOutboxInv, SendRowInv, MarkRowInv, FailRowInv DEF Worker
  <1>3. ASSUME NEW k \in Canceller, BeginCancel(k) \/ CancelStep(k) \/ FailCancel(k) PROVE IInv'
    BY <1>3, BeginCancelInv, ReadOrderInv, SendCancelInv, MarkCanceledInv, FailCancelInv DEF CancelStep
  <1>4. CASE Crash
    BY <1>4, CrashInv
  <1>5. CASE UNCHANGED vars
    BY <1>5 DEF vars, IInv, Types, Progress, Chain, Listed, Cancelling, InFunds,
                KeyNamesOneOrder, KeyTaken, InStream
  <1> QED BY <1>1, <1>2, <1>3, <1>4, <1>5 DEF Next

\* Every behaviour of the order path keeps the inductive invariant.
THEOREM Invariance == Spec => []IInv
  <1> QED BY InitInv, NextInv, PTL DEF Spec

\* Every variable of the order path keeps its type; the status of an order is
\* one of the order_status enumeration.
THEOREM TypeCorrect == Spec => []PathTypeOK
  <1>1. IInv => PathTypeOK
    BY DEF IInv, Types, PathTypeOK, Command, Job
  <1> QED BY <1>1, Invariance, PTL

\* However many requests carry a clientOrderId and however they overlap, fail
\* or crash, it names at most one order (the unique index of the orders table).
THEOREM OneOrderPerKey == Spec => []KeyNamesOneOrder
  <1>1. IInv => KeyNamesOneOrder
    BY DEF IInv
  <1> QED BY <1>1, Invariance, PTL

\* No command reaches the stream without locked margin, and no more is locked
\* than there are funds (lockBalance() before the insert).
THEOREM AlwaysMargin == Spec => []MarginBehindEveryOrder
  <1>1. IInv => MarginBehindEveryOrder
    BY DEF IInv, Chain, InFunds, MarginBehindEveryOrder
  <1> QED BY <1>1, Invariance, PTL

\* What a client was told is placed, or the outbox ticks off, is in the
\* stream, through any number of failed statements and crashes.
THEOREM NeverAnsweredInVain == Spec => []AnsweredIsPlaced
  <1>1. IInv => AnsweredIsPlaced
    BY DEF IInv, Progress, Chain, AnsweredIsPlaced
  <1> QED BY <1>1, Invariance, PTL

-----------------------------------------------------------------------------
(* At most twice: once by the request, once by the worker. *)

\* The worker has a row of r on its list that it has not sent yet.
ToSend(r) ==
    \E i \in 1..Len(worker.pending) :
        worker.pending[i] = r /\ (i > 1 \/ worker.at = "send")

\* The worker may still send the command of r: a row of it is on its list, or
\* may be read again because nobody has ticked it off.
MaySend(r) ==
    \/ ToSend(r) \/ outbox[r] = "none"
    \/ outbox[r] = "pending" /\ ~ (worker.at = "mark" /\ worker.pending[1] = r)

\* What has been sent is one command for a request that has come past its
\* XADD, and one for a row the worker has done with.
SentOnce(r) ==
    Times(Place(r)) <= (IF at[r] \in {"mark", "done"} THEN 1 ELSE 0)
                        + (IF MaySend(r) THEN 0 ELSE 1)

\* A request before its outbox row has none.
Unrecorded ==
    \A r \in Request : at[r] \in {"new", "lock", "insert", "record"} => outbox[r] = "none"

\* A row is on the worker's list once.
RowsDiffer ==
    \A i, j \in 1..Len(worker.pending) : worker.pending[i] = worker.pending[j] => i = j

TwiceInv == faults = 0 => RowsDiffer /\ \A r \in Request : SentOnce(r)

\* Occurrences are counted by naturals.
LEMMA TimesNat ==
    ASSUME stream \in Seq(Command), NEW d
    PROVE  /\ IsFiniteSet({i \in 1..Len(stream) : stream[i] = d})
           /\ Times(d) \in Nat
  <1> DEFINE A == {i \in 1..Len(stream) : stream[i] = d}
  <1>1. Len(stream) \in Nat
    OBVIOUS
  <1>2. IsFiniteSet(1..Len(stream)) /\ A \subseteq 1..Len(stream)
    BY <1>1, FS_Interval
  <1>3. IsFiniteSet(A)
    BY <1>2, FS_Subset
  <1> QED BY <1>3, FS_CardinalityType DEF Times

\* A command that is appended is there once more, the others as often as before.
LEMMA TimesAppended ==
    ASSUME stream \in Seq(Command), NEW c \in Command, stream' = Append(stream, c)
    PROVE  /\ \A d : Times(d) \in Nat
           /\ Times(c)' = Times(c) + 1
           /\ \A d : d # c => Times(d)' = Times(d)
  <1> DEFINE n == Len(stream)
             At(d) == {i \in 1..n : stream[i] = d}
  <1>1. n \in Nat /\ Len(stream') = n + 1
    OBVIOUS
  <1>2. stream'[n + 1] = c /\ \A i \in 1..n : stream'[i] = stream[i]
    OBVIOUS
  <1>3. ASSUME NEW d
        PROVE  IsFiniteSet(At(d)) /\ Times(d) = Cardinality(At(d)) /\ Times(d) \in Nat
    BY TimesNat DEF Times
  <1>4. Times(c)' = Times(c) + 1
    <2>1. {i \in 1..Len(stream') : stream'[i] = c} = At(c) \union {n + 1}
      BY <1>1, <1>2
    <2>2. n + 1 \notin At(c)
      BY <1>1
    <2>3. Cardinality(At(c) \union {n + 1}) = Cardinality(At(c)) + 1
      BY <1>3, <2>2, FS_AddElement
    <2> QED BY <1>3, <2>1, <2>3 DEF Times
  <1>5. ASSUME NEW d, d # c
        PROVE  Times(d)' = Times(d)
    <2>1. {i \in 1..Len(stream') : stream'[i] = d} = At(d)
      BY <1>1, <1>2, <1>5
    <2> QED BY <1>3, <2>1 DEF Times
  <1> QED BY <1>3, <1>4, <1>5

\* A step that sends nothing keeps the count, if it gives the worker nothing
\* more to send and takes no request back behind its XADD.
LEMMA NothingSent ==
    ASSUME IInv, TwiceInv, faults' = faults, stream' = stream, faults = 0 => RowsDiffer',
           \A r \in Request : at[r] \in {"mark", "done"} => at'[r] \in {"mark", "done"},
           \A r \in Request : faults = 0 /\ MaySend(r)' => MaySend(r)
    PROVE  TwiceInv'
  <1> SUFFICES ASSUME faults = 0 PROVE RowsDiffer' /\ \A r \in Request : SentOnce(r)'
    BY DEF TwiceInv
  <1>1. ASSUME NEW r \in Request PROVE SentOnce(r)'
    <2> DEFINE c == Place(r)
    <2>1. SentOnce(r)
      BY DEF TwiceInv
    <2>2. Times(c)' = Times(c)
      BY DEF Times
    <2>3. Times(c) \in Nat
      BY TimesNat DEF IInv, Types
    <2>4. MaySend(r)' => MaySend(r)
      OBVIOUS
    <2>5. at[r] \in {"mark", "done"} => at'[r] \in {"mark", "done"}
      OBVIOUS
    <2>6. Place(r)' = c
      BY DEF Place
    <2> HIDE DEF c
    <2>7. Times(c)' <= (IF at'[r] \in {"mark", "done"} THEN 1 ELSE 0)
                        + (IF MaySend(r)' THEN 0 ELSE 1)
      BY <2>1, <2>2, <2>3, <2>4, <2>5 DEF SentOnce, c
    <2> QED BY <2>7 DEF SentOnce, c
  <1> QED BY <1>1

\* A step that leaves list, rows and stream alone.
LEMMA Elsewhere ==
    ASSUME IInv, TwiceInv, UNCHANGED <<faults, stream, worker, outbox>>,
           \A r \in Request : at[r] \in {"mark", "done"} => at'[r] \in {"mark", "done"}
    PROVE  TwiceInv'
  <1>1. faults = 0 => RowsDiffer'
    BY DEF TwiceInv, RowsDiffer
  <1>2. \A r \in Request : MaySend(r)' => MaySend(r)
    BY DEF MaySend, ToSend
  <1> QED BY <1>1, <1>2, NothingSent

\* The steps of a request.  Its XADD takes it from before to behind the XADD.
LEMMA ServeTwice ==
    ASSUME IInv, Unrecorded, TwiceInv, NEW r \in Request, Check(r) \/ Serve(r)
    PROVE  TwiceInv'
  <1>0. /\ at \in [Request -> {"new", "lock", "insert", "record", "publish", "mark",
                           "done", "known", "refused", "failed"}]
        /\ outbox \in [Request -> {"none", "pending", "published"}]
        /\ stream \in Seq(Command)
    BY DEF IInv, Types
  <1>1. CASE Check(r) \/ Lock(r) \/ Insert(r)
    <2>1. \A q \in Request : at[q] \in {"mark", "done"} => at'[q] \in {"mark", "done"}
      BY <1>0, <1>1 DEF Check, Lock, Insert, Goto
    <2> QED BY <1>1, <2>1, Elsewhere DEF Check, Lock, Insert
  <1>2. CASE Record(r) \/ Mark(r)
    <2>1. \A q \in Request : at[q] \in {"mark", "done"} => at'[q] \in {"mark", "done"}
      BY <1>0, <1>2 DEF Record, Mark, Goto
    <2>2. UNCHANGED <<faults, stream, worker>>
      BY <1>2 DEF Record, Mark
    <2>3. faults = 0 => RowsDiffer'
      BY <2>2 DEF TwiceInv, RowsDiffer
    <2>4. ASSUME NEW q \in Request, faults = 0, MaySend(q)' PROVE MaySend(q)
      <3>1. ToSend(q)' <=> ToSend(q)
        BY <2>2 DEF ToSend
      <3>2. CASE q # r
        <4>1. outbox'[q] = outbox[q]
          BY <1>0, <1>2, <3>2 DEF Record, Mark
        <4> QED BY <2>2, <2>4, <3>1, <4>1 DEF MaySend
      <3>3. CASE q = r /\ Mark(r)
        <4>1. outbox'[q] = "published"
          BY <1>0, <3>3 DEF Mark
        <4> QED BY <2>4, <3>1, <4>1 DEF MaySend
      <3>4. CASE q = r /\ Record(r)
        <4>1. outbox[q] = "none"
          BY <3>4 DEF Unrecorded, Record
        <4> QED BY <4>1 DEF MaySend
      <3> QED BY <1>2, <3>2, <3>3, <3>4
    <2> QED BY <2>1, <2>2, <2>3, <2>4, NothingSent
  <1>3. CASE Publish(r)
    <2> SUFFICES ASSUME faults = 0 PROVE RowsDiffer' /\ \A q \in Request : SentOnce(q)'
      BY <1>3 DEF TwiceInv, Publish
    <2>1. /\ UNCHANGED <<outbox, worker>> /\ stream' = Append(stream, Place(r))
          /\ at[r] = "publish" /\ at' = [at EXCEPT ![r] = "mark"]
      BY <1>3 DEF Publish, Goto
    <2>2. RowsDiffer'
      BY <2>1 DEF TwiceInv, RowsDiffer
    <2>3. ASSUME NEW q \in Request PROVE SentOnce(q)'
      <3>1. MaySend(q)' <=> MaySend(q)
        BY <2>1 DEF MaySend, ToSend
      <3>2. /\ \A d : Times(d) \in Nat
            /\ Times(Place(r))' = Times(Place(r)) + 1
            /\ \A d : d # Place(r) => Times(d)' = Times(d)
        BY <1>0, <2>1, Commands, TimesAppended
      <3>3. SentOnce(q)
        BY DEF TwiceInv
      <3>4. CASE q = r
        <4>1. at'[q] = "mark" /\ at[q] = "publish"
          BY <1>0, <2>1, <3>4
        <4>2. Times(Place(q)) <= IF MaySend(q) THEN 0 ELSE 1
          BY <3>2, <3>3, <4>1 DEF SentOnce
        <4>3. Times(Place(q))' <= 1 + (IF MaySend(q)' THEN 0 ELSE 1)
          BY <3>1, <3>2, <3>4, <4>2
        <4> QED BY <4>1, <4>3 DEF SentOnce, Place
      <3>5. CASE q # r
        <4>1. at'[q] = at[q] /\ Place(q) # Place(r)
          BY <1>0, <2>1, <3>5, Commands
        <4>2. Times(Place(q))' = Times(Place(q))
          BY <3>2, <4>1
        <4> QED BY <3>1, <3>3, <4>1, <4>2 DEF SentOnce, Place
      <3> QED BY <3>4, <3>5
    <2> QED BY <2>2, <2>3
  <1> QED BY <1>1, <1>2, <1>3 DEF Serve

\* The list the worker reads has a row once, and only rows it may send.
LEMMA ReadTwice ==
    ASSUME IInv, TwiceInv, ReadOutbox PROVE TwiceInv'
  <1>1. PICK rows \in SetToAllKPermutations(Pending) :
          rows # <<>> /\ worker' = [pending |-> rows, at |-> "send"]
    BY DEF ReadOutbox
  <1>2. IsFiniteSet(Pending)
    <2>1. Pending \subseteq locked
      BY DEF Pending, Chain, Types, IInv
    <2> QED BY <2>1, FS_Subset DEF Types, IInv
  <1>3. /\ rows \in Seq(Pending)
        /\ \A i, j \in 1..Len(rows) : rows[i] = rows[j] => i = j
    <2>1. PICK s \in SUBSET Pending : rows \in SetToSeqs(s)
      BY <1>1 DEF SetToAllKPermutations
    <2>2. Cardinality(s) \in Nat
      BY <1>2, FS_Subset, FS_CardinalityType
    <2>3. /\ rows \in [1..Cardinality(s) -> s]
          /\ \A i, j \in 1..Cardinality(s) : i # j => rows[i] # rows[j]
      BY <2>1 DEF SetToSeqs
    <2>4. Len(rows) = Cardinality(s)
      BY <2>2, <2>3
    <2> QED BY <1>2, <2>3, <2>4, ReadRows
  <1>4. \A i \in 1..Len(rows) : outbox[rows[i]] = "pending"
    BY <1>3 DEF Pending
  <1>5. RowsDiffer'
    BY <1>1, <1>3 DEF RowsDiffer
  <1>6. UNCHANGED <<at, outbox, stream, faults>> /\ worker.at = "asleep"
    BY DEF ReadOutbox
  <1>7. ASSUME NEW q \in Request, MaySend(q)' PROVE MaySend(q)
    <2>1. CASE ToSend(q)'
      <3>1. outbox[q] = "pending"
        BY <1>1, <1>4, <2>1 DEF ToSend
      <3> QED BY <1>6, <3>1 DEF MaySend
    <2>2. CASE outbox[q] \in {"none", "pending"}
      BY <1>6, <2>2 DEF MaySend
    <2> QED BY <1>6, <1>7, <2>1, <2>2 DEF MaySend
  <1> QED BY <1>5, <1>6, <1>7, NothingSent

\* A row that is sent is done with.
LEMMA SendTwice ==
    ASSUME IInv, TwiceInv, SendRow PROVE TwiceInv'
  <1> SUFFICES ASSUME faults = 0 PROVE RowsDiffer' /\ \A q \in Request : SentOnce(q)'
    BY DEF TwiceInv, SendRow
  <1>1. /\ worker.pending \in Seq(Request) /\ worker.pending # <<>> /\ stream \in Seq(Command)
        /\ worker.at = "send"
        /\ worker \in [pending: Seq(Request), at: {"asleep", "send", "mark"}]
    BY DEF SendRow, IInv, Types, Listed
  <1>2. PICK r \in Request :
          r = Head(worker.pending) /\ r = worker.pending[1] /\ 1 \in 1..Len(worker.pending)
    BY <1>1
  <1>3. /\ UNCHANGED <<at, outbox>> /\ stream' = Append(stream, Place(r))
        /\ worker'.pending = worker.pending /\ worker'.at = "mark"
    BY <1>1, <1>2 DEF SendRow
  <1>4. RowsDiffer /\ RowsDiffer'
    BY <1>3 DEF TwiceInv, RowsDiffer
  <1>5. outbox[r] # "none"
    BY <1>2 DEF IInv, Listed
  <1>6. ToSend(r) /\ ~ ToSend(r)'
    <2>1. \A i \in 1..Len(worker.pending) : worker.pending[i] = r => i = 1
      BY <1>2, <1>4 DEF RowsDiffer
    <2>2. ~ ToSend(r)'
      BY <1>3, <2>1 DEF ToSend
    <2> QED BY <1>1, <1>2, <2>2 DEF ToSend
  <1>7. MaySend(r) /\ ~ MaySend(r)'
    BY <1>2, <1>3, <1>5, <1>6 DEF MaySend
  <1>8. /\ \A d : Times(d) \in Nat
        /\ Times(Place(r))' = Times(Place(r)) + 1
        /\ \A d : d # Place(r) => Times(d)' = Times(d)
    BY <1>1, <1>2, <1>3, Commands, TimesAppended
  <1>9. ASSUME NEW q \in Request PROVE SentOnce(q)'
    <2>1. SentOnce(q)
      BY DEF TwiceInv
    <2>2. CASE q = r
      <3>1. Times(Place(q)) <= IF at[q] \in {"mark", "done"} THEN 1 ELSE 0
        BY <1>7, <1>8, <2>1, <2>2 DEF SentOnce
      <3>2. Times(Place(q))' <= (IF at[q] \in {"mark", "done"} THEN 1 ELSE 0) + 1
        BY <1>8, <2>2, <3>1
      <3>3. ~ MaySend(q)'
        BY <1>7, <2>2
      <3> QED BY <1>3, <3>2, <3>3 DEF SentOnce, Place
    <2>3. CASE q # r
      <3>1. MaySend(q)' => MaySend(q)
        <4>1. ToSend(q)' => ToSend(q)
          BY <1>1, <1>3 DEF ToSend
        <4> QED BY <1>1, <1>3, <4>1 DEF MaySend
      <3>2. Times(Place(q))' = Times(Place(q))
        BY <1>2, <1>8, <2>3, Commands
      <3>3. Times(Place(q))' <= (IF at[q] \in {"mark", "done"} THEN 1 ELSE 0)
                                  + (IF MaySend(q)' THEN 0 ELSE 1)
        BY <1>8, <2>1, <3>1, <3>2 DEF SentOnce
      <3> QED BY <1>3, <3>3 DEF SentOnce, Place
    <2> QED BY <2>2, <2>3
  <1> QED BY <1>4, <1>9

\* What is left of the list has each of its rows once, none of them the head.
LEMMA RestDiffers ==
    ASSUME IInv, RowsDiffer, worker.at # "asleep", worker' = NextRow
    PROVE  /\ RowsDiffer'
           /\ worker'.at # "mark"
           /\ \A q : ToSend(q)' => ToSend(q) /\ q # worker.pending[1]
  <1>1. worker.pending \in Seq(Request) /\ worker.pending # <<>>
    BY DEF IInv, Types, Listed
  <1>2. CASE Len(worker.pending) = 1
    <2>1. worker'.pending = <<>> /\ worker'.at = "asleep"
      BY <1>2 DEF NextRow, Resting
    <2> QED BY <2>1 DEF RowsDiffer, ToSend
  <1>3. CASE Len(worker.pending) # 1
    <2>1. worker'.pending = Tail(worker.pending) /\ worker'.at = "send"
      BY <1>3 DEF NextRow
    <2>2. /\ Tail(worker.pending) \in Seq(Request) /\ Len(worker.pending) > 1
          /\ Len(Tail(worker.pending)) = Len(worker.pending) - 1
          /\ \A i \in 1..Len(Tail(worker.pending)) :
                Tail(worker.pending)[i] = worker.pending[i + 1]
      BY <1>1, <1>3, TailOfMore
    <2>3. /\ \A i \in 1..Len(Tail(worker.pending)) : i + 1 \in 1..Len(worker.pending) /\ i + 1 > 1
          /\ 1 \in 1..Len(worker.pending)
      BY <2>2
    <2>4. RowsDiffer'
      <3>1. ASSUME NEW i \in 1..Len(Tail(worker.pending)), NEW j \in 1..Len(Tail(worker.pending)),
                   Tail(worker.pending)[i] = Tail(worker.pending)[j]
            PROVE  i = j
        <4>1. i + 1 = j + 1
          BY <2>2, <2>3, <3>1 DEF RowsDiffer
        <4> QED BY <4>1
      <3> QED BY <2>1, <3>1 DEF RowsDiffer
    <2>5. ASSUME NEW q, ToSend(q)'
          PROVE  ToSend(q) /\ q # worker.pending[1]
      <3>1. PICK i \in 1..Len(Tail(worker.pending)) : Tail(worker.pending)[i] = q
        BY <2>1, <2>5 DEF ToSend
      <3>2. worker.pending[i + 1] = q /\ i + 1 \in 1..Len(worker.pending) /\ i + 1 > 1
        BY <2>2, <2>3, <3>1
      <3>3. q # worker.pending[1]
        BY <2>3, <3>2 DEF RowsDiffer
      <3> QED BY <3>2, <3>3 DEF ToSend
    <2> QED BY <2>1, <2>4, <2>5
  <1> QED BY <1>2, <1>3

\* A row that is ticked off is not read again.
LEMMA MarkTwice ==
    ASSUME IInv, TwiceInv, MarkRow PROVE TwiceInv'
  <1>1. /\ UNCHANGED <<at, stream, faults>> /\ worker' = NextRow /\ worker.at = "mark"
        /\ outbox' = [outbox EXCEPT ![Head(worker.pending)] = "published"]
    BY DEF MarkRow
  <1>2. worker.pending \in Seq(Request) /\ worker.pending # <<>> /\ outbox \in [Request -> {"none", "pending", "published"}]
    BY <1>1 DEF IInv, Types, Listed
  <1>3. PICK r \in Request : r = Head(worker.pending) /\ r = worker.pending[1]
    BY <1>2
  <1>4. faults = 0 =>
          RowsDiffer' /\ \A q : ToSend(q)' => ToSend(q) /\ q # worker.pending[1]
    BY <1>1, RestDiffers DEF TwiceInv
  <1>5. ASSUME NEW q \in Request, faults = 0, MaySend(q)' PROVE MaySend(q)
    <2>1. CASE q = r
      <3>1. outbox'[q] = "published"
        BY <1>1, <1>2, <1>3, <2>1
      <3> QED BY <1>3, <1>4, <1>5, <2>1, <3>1 DEF MaySend
    <2>2. CASE q # r
      <3>1. outbox'[q] = outbox[q]
        BY <1>1, <1>2, <1>3, <2>2
      <3> QED BY <1>3, <1>4, <1>5, <2>2, <3>1 DEF MaySend
    <2> QED BY <2>1, <2>2
  <1> QED BY <1>1, <1>4, <1>5, NothingSent

\* A cancel command is not a place command.
LEMMA CancelTwice ==
    ASSUME IInv, TwiceInv, NEW k \in Canceller, BeginCancel(k) \/ CancelStep(k)
    PROVE  TwiceInv'
  <1>1. CASE BeginCancel(k) \/ (\E r \in Request : ReadOrder(k, r)) \/ MarkCanceled(k)
    BY <1>1, Elsewhere DEF BeginCancel, ReadOrder, MarkCanceled
  <1>2. CASE SendCancel(k)
    <2> SUFFICES ASSUME faults = 0 PROVE RowsDiffer' /\ \A q \in Request : SentOnce(q)'
      BY <1>2 DEF TwiceInv, SendCancel
    <2> DEFINE c == CancelOf(cancel[k].order)
    <2>1. UNCHANGED <<at, outbox, worker>> /\ stream' = Append(stream, c)
      BY <1>2 DEF SendCancel
    <2>2. cancel[k].order \in Request /\ stream \in Seq(Command)
      BY <1>2 DEF SendCancel, IInv, Types, Cancelling
    <2>3. c \in Command /\ \A q \in Request : Place(q) # c
      BY <2>2, Commands
    <2> HIDE DEF c
    <2>4. RowsDiffer'
      BY <2>1 DEF TwiceInv, RowsDiffer
    <2>5. ASSUME NEW q \in Request PROVE SentOnce(q)'
      <3>1. Times(Place(q))' = Times(Place(q))
        BY <2>1, <2>2, <2>3, TimesAppended
      <3>2. MaySend(q)' <=> MaySend(q)
        BY <2>1 DEF MaySend, ToSend
      <3>3. SentOnce(q)
        BY DEF TwiceInv
      <3> QED BY <2>1, <3>1, <3>2, <3>3 DEF SentOnce, Place
    <2> QED BY <2>4, <2>5
  <1> QED BY <1>1, <1>2 DEF CancelStep

\* Every action keeps the count; a fault ends the claim.
LEMMA TwiceNext == IInv /\ Unrecorded /\ TwiceInv /\ [Next]_vars => TwiceInv'
  <1> SUFFICES ASSUME IInv, Unrecorded, TwiceInv, [Next]_vars PROVE TwiceInv'
    OBVIOUS
  <1>0. faults \in Nat
    BY PathAssumption DEF IInv, Types
  <1>1. ASSUME NEW r \in Request, Check(r) \/ Serve(r) PROVE TwiceInv'
    BY <1>1, ServeTwice
  <1>2. CASE Worker
    BY <1>2, ReadTwice, SendTwice, MarkTwice DEF Worker
  <1>3. ASSUME NEW k \in Canceller, BeginCancel(k) \/ CancelStep(k) PROVE TwiceInv'
    BY <1>3, CancelTwice
  <1>4. ASSUME \/ \E r \in Request : FailRequest(r)
               \/ FailRow \/ Crash
               \/ \E k \in Canceller : FailCancel(k)
        PROVE  TwiceInv'
    <2>1. faults' = faults + 1
      BY <1>4 DEF FailRequest, FailRow, Crash, FailCancel
    <2> QED BY <1>0, <2>1 DEF TwiceInv
  <1>5. CASE UNCHANGED vars
    BY <1>5, Elsewhere DEF vars
  <1> QED BY <1>1, <1>2, <1>3, <1>4, <1>5 DEF Next

\* Only the request inserts its row; the worker ticks off rows that are there.
LEMMA UnrecordedNext == IInv /\ Unrecorded /\ [Next]_vars => Unrecorded'
  <1> SUFFICES ASSUME IInv, Unrecorded, [Next]_vars PROVE Unrecorded'
    OBVIOUS
  <1>0. /\ at \in [Request -> {"new", "lock", "insert", "record", "publish", "mark",
                           "done", "known", "refused", "failed"}]
        /\ outbox \in [Request -> {"none", "pending", "published"}]
    BY DEF IInv, Types
  <1>1. ASSUME NEW r \in Request, Check(r) \/ Serve(r) \/ FailRequest(r)
        PROVE  Unrecorded'
    <2>1. ASSUME NEW q \in Request, q # r
          PROVE  at'[q] = at[q] /\ outbox'[q] = outbox[q]
      BY <1>0, <1>1, <2>1 DEF Check, Serve, Lock, Insert, Record, Publish, Mark, FailRequest, Goto
    <2>2. at'[r] \in {"new", "lock", "insert", "record"} => outbox'[r] = "none"
      <3>1. CASE Check(r) \/ Lock(r) \/ Insert(r)
        BY <1>0, <3>1 DEF Check, Lock, Insert, Goto, Unrecorded
      <3>2. CASE Record(r) \/ Publish(r) \/ Mark(r) \/ FailRequest(r)
        <4>1. at'[r] \in {"publish", "mark", "done", "failed"}
          BY <1>0, <3>2 DEF Record, Publish, Mark, FailRequest, Goto
        <4> QED BY <4>1
      <3> QED BY <1>1, <3>1, <3>2 DEF Serve
    <2> QED BY <2>1, <2>2 DEF Unrecorded
  <1>2. CASE MarkRow
    <2>1. worker.pending \in Seq(Request) /\ worker.pending # <<>>
      BY <1>2 DEF MarkRow, IInv, Types, Listed
    <2>2. PICK r \in Request : r = Head(worker.pending) /\ r = worker.pending[1]
      BY <2>1
    <2>3. outbox[r] # "none"
      BY <2>1, <2>2 DEF IInv, Listed
    <2>4. at' = at /\ \A q \in Request : q # r => outbox'[q] = outbox[q]
      BY <1>0, <1>2, <2>2 DEF MarkRow
    <2> QED BY <2>3, <2>4 DEF Unrecorded
  <1>3. CASE Crash
    <2>1. \A r \in Request : at'[r] = at[r] \/ at'[r] = "failed"
      BY <1>0, <1>3 DEF Crash
    <2> QED BY <1>3, <2>1 DEF Crash, Unrecorded
  <1>4. CASE \/ ReadOutbox \/ SendRow \/ FailRow \/ UNCHANGED vars
             \/ \E k \in Canceller : BeginCancel(k) \/ CancelStep(k) \/ FailCancel(k)
    <2>1. UNCHANGED <<at, outbox>>
      BY <1>4 DEF ReadOutbox, SendRow, FailRow, vars, BeginCancel, CancelStep, ReadOrder,
                  SendCancel, MarkCanceled, FailCancel
    <2> QED BY <2>1 DEF Unrecorded
  <1> QED BY <1>1, <1>2, <1>3, <1>4 DEF Next, Worker

\* As long as nothing fails, the engine gets a PLACE_ORDER at most twice: from
\* the request, and from the worker that read its row before it was ticked off.
THEOREM AtMostTwice == Spec => []PlacedAtMostTwice
  <1>1. Init => TwiceInv /\ Unrecorded
    <2> SUFFICES ASSUME Init PROVE TwiceInv /\ Unrecorded
      OBVIOUS
    <2>1. ASSUME NEW r \in Request PROVE SentOnce(r)
      <3>1. {i \in 1..Len(stream) : stream[i] = Place(r)} = {}
        BY DEF Init
      <3>2. Times(Place(r)) = 0
        BY <3>1, FS_EmptySet DEF Times
      <3> QED BY <3>2 DEF SentOnce
    <2>2. RowsDiffer
      BY DEF Init, Resting, RowsDiffer
    <2>3. Unrecorded
      BY DEF Init, Unrecorded
    <2> QED BY <2>1, <2>2, <2>3 DEF TwiceInv
  <1>2. IInv /\ TwiceInv => PlacedAtMostTwice
    <2> SUFFICES ASSUME IInv, TwiceInv, faults = 0, NEW r \in Request
                 PROVE  Times(Place(r)) <= 2
      BY DEF PlacedAtMostTwice
    <2>1. Times(Place(r)) \in Nat
      BY TimesNat DEF IInv, Types
    <2> QED BY <2>1 DEF TwiceInv, SentOnce
  <1> QED BY <1>1, <1>2, InitInv, NextInv, UnrecordedNext, TwiceNext, PTL DEF Spec
=============================================================================
