---------------------------- MODULE PositionsProofs ----------------------------
(***************************************************************************)
(* Theorems about Positions, for any number of close calls, polls, fills,  *)
(* faults and seconds.                                                     *)
(***************************************************************************)
EXTENDS Positions, SequenceTheorems, TLAPS

-----------------------------------------------------------------------------
(* Types. *)

\* Time does not run backwards, and the feed keeps its types.
LEMMA FeedStep ==
    ASSUME FeedTypeOK, FeedNext \/ UNCHANGED feed
    PROVE  FeedTypeOK' /\ now \in Nat /\ now' \in Nat /\ now <= now'
<1>1. now \in Nat /\ MaxClock \in Nat /\ Expiry \in Nat
  BY FeedAssumption DEF FeedTypeOK
<1>2. CASE UNCHANGED feed
  BY <1>1, <1>2 DEF feed, FeedTypeOK
<1>3. CASE Connect \/ Close \/ Stop
  BY <1>1, <1>3 DEF Connect, Close, Stop, FeedTypeOK
<1>4. CASE Pass
  BY <1>1, <1>4 DEF Pass, FeedTypeOK, NoKey
<1>5. ASSUME NEW time \in 1..MaxClock, Message(time)
      PROVE  FeedTypeOK' /\ now \in Nat /\ now' \in Nat /\ now <= now'
  BY <1>1, <1>5 DEF Message, FeedTypeOK
<1> QED BY <1>2, <1>3, <1>4, <1>5 DEF FeedNext

\* No price in Redis is from the future.
LEMMA FeedTimes ==
    ASSUME FeedTypeOK
    PROVE  now \in Nat /\ key.price \in 0..now
  BY FeedAssumption DEF FeedTypeOK

\* What has been a position or a poll's price stays one as time passes.
LEMMA TypesGrow ==
    ASSUME now \in Nat, now' \in Nat, now <= now'
    PROVE  /\ Position \subseteq Position'
           /\ \A p \in 0..now : p \in (0..now)'
  BY DEF Position

\* A fill turns a position into a position or none.
LEMMA UpdatedType ==
    ASSUME PositionsTypeOK, NEW fill \in FillOf
    PROVE  /\ Updated(fill) \in Position \union {NoPosition}
           /\ Net \in Int
           /\ Signed(fill.side, fill.lots) \in Int
<1>1. now \in Nat
  BY FeedTimes DEF PositionsTypeOK
<1>2. fill.lots \in Nat \ {0} /\ fill.side \in {"buy", "sell"}
  BY DEF FillOf
<1>3. Updated(fill) \in Position \union {NoPosition}
  <2>1. Opens(fill.side) \in {"long", "short"}
    BY DEF Opens
  <2>2. position = NoPosition \/ position \in Position
    BY DEF PositionsTypeOK
  <2>3. CASE position = NoPosition
    BY <1>1, <1>2, <2>1, <2>3 DEF Position, NoPosition, Updated
  <2>4. CASE position \in Position
    <3>1. /\ position.lots \in Nat \ {0} /\ position.side \in {"long", "short"}
          /\ position = [side |-> position.side, lots |-> position.lots, mark |-> position.mark]
      BY <2>4 DEF Position
    <3>2. CASE position = NoPosition \/ position.side = Opens(fill.side)
      BY <1>1, <1>2, <2>1, <3>1, <3>2 DEF Position, Updated
    <3>3. CASE ~(position = NoPosition \/ position.side = Opens(fill.side)) /\ position.lots <= fill.lots
      BY <3>3 DEF Updated
    <3>4. CASE ~(position = NoPosition \/ position.side = Opens(fill.side)) /\ ~(position.lots <= fill.lots)
      <4>1. Updated(fill) = [side |-> position.side, lots |-> position.lots - fill.lots, mark |-> 0]
        BY <3>4 DEF Updated
      <4>2. position.lots - fill.lots \in Nat \ {0}
        BY <1>2, <3>1, <3>4
      <4> QED BY <1>1, <3>1, <4>1, <4>2 DEF Position
    <3> QED BY <3>2, <3>3, <3>4
  <2> QED BY <2>2, <2>3, <2>4
<1>4. Net \in Int
  BY DEF PositionsTypeOK, Net, Last
<1> QED BY <1>2, <1>3, <1>4 DEF Signed

\* The types hold of an account without position.
LEMMA TypeInit == Init => PositionsTypeOK
  BY FeedAssumption, PositionsAssumption
  DEF Init, FeedInit, PositionsTypeOK, FeedTypeOK, NoKey, Closing, NoClose, NoPoll

\* The fills that are on their way have lots.
LEMMA FillTypes ==
    ASSUME PositionsTypeOK, NEW i \in 1..Len(fills)
    PROVE  fills[i].lots \in Nat \ {0} /\ fills[i].left \in Nat
<1>1. fills \in Seq(FillOf)
  BY DEF PositionsTypeOK
<1>2. fills[i] \in FillOf
  BY <1>1, ElementOfSeq
<1> QED BY <1>2 DEF FillOf

\* A close call that changes alone keeps the types.
LEMMA ClosesChange ==
    ASSUME PositionsTypeOK, NEW k \in Closer, NEW c \in Closing,
           closes' = [closes EXCEPT ![k] = c],
           c.at \in {"send", "sent"} => c.side # "none" /\ c.lots > 0
    PROVE  /\ closes' \in [Closer -> Closing]
           /\ \A l \in Closer :
                 closes'[l].at \in {"send", "sent"} => closes'[l].side # "none" /\ closes'[l].lots > 0
  BY DEF PositionsTypeOK

\* The types are kept by each action.
LEMMA TypeNext == PositionsTypeOK /\ [Next]_vars => PositionsTypeOK'
<1> SUFFICES ASSUME PositionsTypeOK, [Next]_vars
             PROVE  PositionsTypeOK'
  OBVIOUS
<1>0. now \in Nat /\ key.price \in 0..now
  BY FeedTimes DEF PositionsTypeOK
<1>1. CASE /\ FeedNext \/ UNCHANGED feed
           /\ UNCHANGED <<position, closes, fills, polls, since, disturbed, overshot, others, faults>>
  <2>1. FeedTypeOK' /\ now' \in Nat /\ now <= now'
    BY <1>1, FeedStep DEF PositionsTypeOK
  <2>2. Position \subseteq Position' /\ \A p \in 0..now : p \in (0..now)'
    BY <1>0, <2>1, TypesGrow
  <2>3. polls' \in [Poll -> [at: {"idle", "select", "write"}, price: 0..now']]
    BY <1>0, <1>1, <2>1 DEF PositionsTypeOK
  <2> QED BY <1>1, <2>1, <2>2, <2>3 DEF PositionsTypeOK, FillOf, Closing
<1>2. ASSUME NEW k \in Closer, ReadForClose(k) \/ SendClose(k) \/ LoseClose(k)
      PROVE  PositionsTypeOK'
  <2>1. /\ UNCHANGED <<feed, position, fills, polls, since, disturbed, overshot, others, faults>>
        /\ now' = now
    BY <1>2 DEF ReadForClose, SendClose, LoseClose, feed
  <2>2. /\ closes' = [closes EXCEPT ![k] = closes'[k]]
        /\ closes'[k] \in Closing
        /\ closes'[k].at \in {"send", "sent"} => closes'[k].side # "none" /\ closes'[k].lots > 0
    <3>1. CASE ReadForClose(k)
      BY <3>1 DEF ReadForClose, PositionsTypeOK, Closing, Position
    <3>2. CASE SendClose(k)
      BY <3>2 DEF SendClose, PositionsTypeOK, Closing
    <3>3. CASE LoseClose(k)
      BY <3>3 DEF LoseClose, Over, PositionsTypeOK, Closing
    <3> QED BY <1>2, <3>1, <3>2, <3>3
  <2>3. /\ closes' \in [Closer -> Closing]
        /\ \A l \in Closer :
              closes'[l].at \in {"send", "sent"} => closes'[l].side # "none" /\ closes'[l].lots > 0
    BY <2>2, ClosesChange
  <2> QED BY <2>1, <2>3 DEF PositionsTypeOK, feed, FeedTypeOK, Position, FillOf
<1>8. CASE Crash
  <2>1. /\ UNCHANGED <<feed, position, since, disturbed, overshot, others>> /\ now' = now
        /\ fills' = <<>> /\ faults' \in 0..MaxFaults
        /\ polls' = [t \in Poll |-> NoPoll]
    BY <1>8, PositionsAssumption DEF Crash, feed, PositionsTypeOK
  <2>2. ASSUME NEW k \in Closer
        PROVE  /\ closes'[k] \in Closing
               /\ closes'[k].at \in {"send", "sent"} => closes'[k].side # "none" /\ closes'[k].lots > 0
    <3>1. closes[k] \in Closing
      BY DEF PositionsTypeOK
    <3>2. closes'[k] = IF closes[k].at = "send" THEN Over(closes[k])
                       ELSE closes[k]
      BY <1>8 DEF Crash
    <3>3. Over(closes[k]) \in Closing
      BY <3>1 DEF Over, Closing
    <3>4. CASE closes[k].at = "send"
      BY <3>2, <3>3, <3>4 DEF Over
    <3>5. CASE closes[k].at # "send"
      BY <3>1, <3>2, <3>5 DEF PositionsTypeOK
    <3> QED BY <3>4, <3>5
  <2>3. closes' \in [Closer -> Closing]
    <3>1. closes' = [k \in Closer |-> closes'[k]]
      BY <1>8 DEF Crash
    <3> QED BY <2>2, <3>1
  <2>4. polls' \in [Poll -> [at: {"idle", "select", "write"}, price: 0..now]]
    BY <1>0, <2>1 DEF NoPoll
  <2>5. fills' \in Seq(FillOf)
    BY <2>1
  <2> QED BY <2>1, <2>2, <2>3, <2>4, <2>5 DEF PositionsTypeOK, feed, FeedTypeOK, Position, FillOf
<1>3. ASSUME NEW k \in Closer, FillClose(k)
      PROVE  PositionsTypeOK'
  <2>1. PICK n \in 0..closes[k].lots :
          /\ fills' = IF n = 0 THEN fills
                      ELSE Append(fills, [of |-> k, side |-> closes[k].side, lots |-> n,
                                          left |-> closes[k].lots - n])
          /\ closes' = [closes EXCEPT ![k] = Traded(@, n)]
    BY <1>3 DEF FillClose
  <2>2. closes[k].lots \in Nat /\ closes[k].side \in {"buy", "sell"} /\ closes[k] \in Closing
    BY <1>3 DEF FillClose, PositionsTypeOK, Closing
  <2>3. fills' \in Seq(FillOf)
    <3>1. CASE n = 0
      BY <2>1, <3>1 DEF PositionsTypeOK
    <3>2. CASE n # 0
      <4>1. [of |-> k, side |-> closes[k].side, lots |-> n, left |-> closes[k].lots - n] \in FillOf
        BY <2>2, <3>2 DEF FillOf
      <4> QED BY <2>1, <3>2, <4>1, AppendProperties DEF PositionsTypeOK
    <3> QED BY <3>1, <3>2
  <2>4. /\ closes' \in [Closer -> Closing]
        /\ \A l \in Closer :
              closes'[l].at \in {"send", "sent"} => closes'[l].side # "none" /\ closes'[l].lots > 0
    <3>1. closes' = [closes EXCEPT ![k] = closes'[k]]
      BY <2>1 DEF PositionsTypeOK
    <3>2. closes'[k] = Traded(closes[k], n)
      BY <2>1 DEF PositionsTypeOK
    <3>3. /\ closes'[k] \in Closing
          /\ closes'[k].at \in {"send", "sent"} => closes'[k].side # "none" /\ closes'[k].lots > 0
      BY <2>2, <3>2 DEF Closing, Over, Traded
    <3> QED BY <3>1, <3>3, ClosesChange
  <2>5. UNCHANGED <<feed, position, polls, since, disturbed, overshot, others, faults>> /\ now' = now
    BY <1>3 DEF FillClose, feed
  <2> QED BY <2>3, <2>4, <2>5 DEF PositionsTypeOK, feed, FeedTypeOK, Position
<1>4. CASE FillOther
  <2>1. PICK side \in {"buy", "sell"}, n \in 1..MaxLots :
          fills' = Append(fills, [of |-> Other, side |-> side, lots |-> n, left |-> 0])
    BY <1>4 DEF FillOther
  <2>2. [of |-> Other, side |-> side, lots |-> n, left |-> 0] \in FillOf
    BY PositionsAssumption DEF FillOf
  <2>3. fills' \in Seq(FillOf)
    BY <2>1, <2>2, AppendProperties DEF PositionsTypeOK
  <2>4. /\ UNCHANGED <<feed, position, closes, polls, since, disturbed, overshot, faults>>
        /\ now' = now /\ others' \in 0..MaxFills
    BY <1>4, PositionsAssumption DEF FillOther, feed, PositionsTypeOK
  <2> QED BY <2>3, <2>4 DEF PositionsTypeOK, feed, FeedTypeOK, Position, Closing
<1>5. CASE ApplyFill
  <2> DEFINE fill == Head(fills)
  <2>1. fill \in FillOf /\ Tail(fills) \in Seq(FillOf)
    BY <1>5, HeadTailProperties DEF ApplyFill, PositionsTypeOK
  <2>2. position' \in Position \union {NoPosition}
    BY <1>5, <2>1, UpdatedType DEF ApplyFill
  <2>3. since' \in Seq(Int)
    <3>1. Net + Signed(fill.side, fill.lots) \in Int
      BY <2>1, UpdatedType
    <3>2. Append(since, Net + Signed(fill.side, fill.lots)) \in Seq(Int)
      BY <3>1, AppendProperties DEF PositionsTypeOK
    <3> QED BY <1>5, <3>2 DEF ApplyFill
  <2>4. disturbed' \union overshot' \subseteq Closer
    BY <1>5 DEF ApplyFill, PositionsTypeOK
  <2>5. UNCHANGED <<feed, closes, others, polls, faults>> /\ fills' = Tail(fills) /\ now' = now
    BY <1>5 DEF ApplyFill, calls, feed
  <2> QED BY <2>1, <2>2, <2>3, <2>4, <2>5
          DEF PositionsTypeOK, feed, FeedTypeOK, Position, Closing, FillOf
<1>6. CASE DropFill
  <2>1. Tail(fills) \in Seq(FillOf)
    BY <1>6, HeadTailProperties DEF DropFill, PositionsTypeOK
  <2>2. /\ UNCHANGED <<feed, closes, others, position, polls, since, disturbed, overshot, faults>>
        /\ fills' = Tail(fills) /\ now' = now
    BY <1>6 DEF DropFill, calls, feed
  <2> QED BY <2>1, <2>2 DEF PositionsTypeOK, feed, FeedTypeOK, Position, Closing, FillOf
<1>7. ASSUME NEW t \in Poll, Updater(t) \/ FailPoll(t)
      PROVE  PositionsTypeOK'
  <2>1. /\ UNCHANGED <<feed, closes, others, fills, since, disturbed, overshot>> /\ now' = now
        /\ faults' \in 0..MaxFaults
    BY <1>7, PositionsAssumption
    DEF Updater, FailPoll, ReadKey, SelectOpen, WriteMark, feed, calls, PositionsTypeOK
  <2>2. polls[t] \in [at: {"idle", "select", "write"}, price: 0..now]
    BY DEF PositionsTypeOK
  <2>3. polls' \in [Poll -> [at: {"idle", "select", "write"}, price: 0..now]]
    BY <1>0, <1>7, <2>2
    DEF Updater, FailPoll, ReadKey, SelectOpen, WriteMark, NoPoll, PositionsTypeOK
  <2>4. position' \in Position \union {NoPosition}
    BY <1>7, <2>2
    DEF Updater, FailPoll, ReadKey, SelectOpen, WriteMark, PositionsTypeOK, Position
  <2> QED BY <2>1, <2>3, <2>4 DEF PositionsTypeOK, feed, FeedTypeOK, Position, Closing, FillOf
<1>9. CASE UNCHANGED vars
  BY <1>1, <1>9 DEF vars
<1> QED BY <1>1, <1>2, <1>3, <1>4, <1>5, <1>6, <1>7, <1>8, <1>9 DEF Next

\* The types of positions, close calls, fills and polls.
THEOREM PositionsTyped == Spec => []PositionsTypeOK
  BY TypeInit, TypeNext, PTL DEF Spec

-----------------------------------------------------------------------------
(* A position is the net of the fills since it was opened. *)

\* What a fill appends to the history is the last sum, and what was there stays.
LEMMA NetAppended ==
    ASSUME PositionsTypeOK, NEW n \in Int, since' = Append(since, n)
    PROVE  /\ since' # <<>> /\ Net' = n /\ Len(since') = Len(since) + 1
           /\ \A i \in 1..Len(since') : since'[i] = IF i <= Len(since) THEN since[i] ELSE n
<1>1. since \in Seq(Int) /\ Len(since) \in Nat
  BY DEF PositionsTypeOK
<1>2. /\ Len(since') = Len(since) + 1
      /\ \A i \in 1..(Len(since) + 1) : since'[i] = IF i <= Len(since) THEN since[i] ELSE n
  BY <1>1, AppendProperties
<1>3. since' # <<>> /\ since'[Len(since')] = n
  BY <1>1, <1>2
<1> QED BY <1>2, <1>3 DEF Net, Last

\* A fill changes the position by its quantity, in each of the four cases.
LEMMA NetNext == PositionsTypeOK /\ PositionIsNet /\ [Next]_vars => PositionIsNet'
<1> SUFFICES ASSUME PositionsTypeOK, PositionIsNet, [Next]_vars
             PROVE  PositionIsNet'
  OBVIOUS
<1>1. CASE ApplyFill
  <2> DEFINE fill == Head(fills)
             n    == Net + Signed(fill.side, fill.lots)
  <2>1. fill \in FillOf /\ n \in Int /\ position' = Updated(fill)
        /\ since' = IF position' = NoPosition THEN <<>> ELSE Append(since, n)
    BY <1>1, HeadTailProperties, UpdatedType DEF ApplyFill, PositionsTypeOK
  <2>2. CASE position' = NoPosition
    BY <2>1, <2>2 DEF PositionIsNet
  <2>3. CASE position' # NoPosition
    <3>1. since' = Append(since, n)
      BY <2>1, <2>3
    <3>2. fill.lots \in Nat \ {0} /\ fill.side \in {"buy", "sell"}
      BY <2>1 DEF FillOf
    <3>3. /\ since' # <<>> /\ Net' = n
          /\ \A i \in 1..Len(since') : since'[i] = IF i <= Len(since) THEN since[i] ELSE n
      BY <2>1, <3>1, NetAppended
    <3>4. Len(since) \in Nat /\ since \in Seq(Int) /\ Len(since') = Len(since) + 1
      BY <2>1, <3>1, NetAppended DEF PositionsTypeOK
    <3>5. CASE position = NoPosition
      <4>1. since = <<>> /\ Net = 0 /\ Len(since) = 0
        BY <3>5 DEF PositionIsNet, Net
      <4>2. /\ position'.side = Opens(fill.side) /\ position'.lots = fill.lots
            /\ n = Signed(fill.side, fill.lots)
        BY <2>1, <3>2, <3>5, <4>1 DEF Updated, NoPosition, Signed
      <4> QED BY <2>3, <3>2, <3>3, <3>4, <4>1, <4>2 DEF PositionIsNet, Signed, Opens
    <3>6. CASE position # NoPosition
      <4>1. position.lots \in Nat \ {0} /\ position.side \in {"long", "short"}
        BY <3>6 DEF PositionsTypeOK, Position
      <4>2. /\ Net = Signed(position.side, position.lots)
            /\ \A i \in 1..Len(since) : IF position.side = "long" THEN since[i] > 0 ELSE since[i] < 0
        BY <3>6 DEF PositionIsNet
      <4>3. /\ position'.side = position.side
            /\ position'.lots \in Nat \ {0}
            /\ n = Signed(position.side, position'.lots)
        <5>1. CASE position.side = Opens(fill.side)
          BY <2>1, <3>2, <3>6, <4>1, <4>2, <5>1 DEF Updated, Signed, Opens
        <5>2. CASE position.side # Opens(fill.side)
          <6>1. /\ ~(position.lots <= fill.lots)
                /\ position'.side = position.side /\ position'.lots = position.lots - fill.lots
            BY <2>1, <2>3, <3>6, <5>2 DEF Updated
          <6> QED BY <3>2, <4>1, <4>2, <5>2, <6>1 DEF Signed, Opens
        <5> QED BY <5>1, <5>2
      <4>4. \A i \in 1..Len(since') : IF position'.side = "long" THEN since'[i] > 0 ELSE since'[i] < 0
        <5>1. IF position'.side = "long" THEN n > 0 ELSE n < 0
          BY <4>1, <4>3 DEF Signed
        <5> QED BY <2>1, <3>3, <3>4, <4>2, <4>3, <5>1
      <4> QED BY <2>3, <3>3, <4>3, <4>4 DEF PositionIsNet
    <3> QED BY <3>5, <3>6
  <2> QED BY <2>2, <2>3
<1>2. ASSUME NEW t \in Poll, WriteMark(t)
      PROVE  PositionIsNet'
  <2>1. since' = since /\ (position' = NoPosition <=> position = NoPosition)
        /\ position'.side = position.side /\ position'.lots = position.lots
    BY <1>2 DEF WriteMark, PositionsTypeOK, Position, NoPosition
  <2> QED BY <2>1 DEF PositionIsNet, Net
<1>3. CASE position' = position /\ since' = since
  BY <1>3 DEF PositionIsNet, Net
<1>4. ASSUME NEW t \in Poll, ReadKey(t) \/ SelectOpen(t) \/ FailPoll(t)
      PROVE  position' = position /\ since' = since
  BY <1>4 DEF ReadKey, SelectOpen, FailPoll
<1>5. ASSUME NEW k \in Closer, ReadForClose(k) \/ SendClose(k) \/ LoseClose(k) \/ FillClose(k)
      PROVE  position' = position /\ since' = since
  BY <1>5 DEF ReadForClose, SendClose, LoseClose, FillClose
<1>6. CASE FillOther \/ DropFill \/ Crash \/ UNCHANGED vars
  BY <1>3, <1>6 DEF FillOther, DropFill, Crash, vars
<1> QED BY <1>1, <1>2, <1>3, <1>4, <1>5, <1>6 DEF Next, Updater

\* However the writer's fills follow each other, an open position is their sum
\* since it was opened, and the sum was never on the other side.
THEOREM PositionNet == Spec => []PositionIsNet
<1>1. Init => PositionIsNet
  BY DEF Init, PositionIsNet, NoPosition
<1> QED BY <1>1, NetNext, PositionsTyped, PTL DEF Spec

-----------------------------------------------------------------------------
(* A close call does no more than close. *)

\* n lots of that side leave a position that they reduce.
Reduces(side, n) ==
    position # NoPosition /\ position.side # Opens(side) /\ n <= position.lots

\* The fills of a close order that are on their way, with what the order has
\* left, were one quantity when the position was read: each fill starts from
\* what the one before has left.
FillsFollow ==
    \A i \in 1..Len(fills) : fills[i].of \in Closer =>
        /\ closes[fills[i].of].at \in {"sent", "done"}
        /\ closes[fills[i].of].lots <= fills[i].left
        /\ \A j \in 1..(i - 1) :
              fills[j].of = fills[i].of => fills[i].lots + fills[i].left <= fills[j].left

\* A close call beside which no other fill is applied can close what it has read.
StillCloses ==
    \A k \in Closer \ disturbed :
        /\ closes[k].at \in {"send", "sent"} => Reduces(closes[k].side, closes[k].lots)
        /\ \A i \in 1..Len(fills) :
              fills[i].of = k => Reduces(fills[i].side, fills[i].lots + fills[i].left)

CloseInv == FillsFollow /\ StillCloses /\ CloseOnlyCloses

\* Steps that change the mark price at most.
LEMMA CloseStays ==
    ASSUME CloseInv,
           closes' = closes, fills' = fills, disturbed' = disturbed, overshot' = overshot,
           position' = NoPosition <=> position = NoPosition,
           position'.side = position.side, position'.lots = position.lots
    PROVE  CloseInv'
<1>1. \A side, n : Reduces(side, n) => Reduces(side, n)'
  BY DEF Reduces
<1> QED BY <1>1 DEF CloseInv, FillsFollow, StillCloses, CloseOnlyCloses

\* The fills that are left when the first is taken away.
LEMMA TailFollows ==
    ASSUME PositionsTypeOK, FillsFollow, fills # <<>>, fills' = Tail(fills), closes' = closes
    PROVE  /\ FillsFollow'
           /\ \A i \in 1..Len(fills') : i + 1 \in 1..Len(fills) /\ fills'[i] = fills[i + 1]
<1>1. fills \in Seq(FillOf) /\ Len(fills) \in Nat
  BY DEF PositionsTypeOK
<1>2. Len(fills') = Len(fills) - 1 /\ \A i \in 1..Len(fills') : fills'[i] = fills[i + 1]
  BY <1>1, HeadTailProperties
<1>3. \A i \in 1..Len(fills') : i + 1 \in 1..Len(fills)
  BY <1>1, <1>2
<1>4. ASSUME NEW i \in 1..Len(fills'), fills'[i].of \in Closer
      PROVE  /\ closes[fills'[i].of].at \in {"sent", "done"}
             /\ closes[fills'[i].of].lots <= fills'[i].left
             /\ \A j \in 1..(i - 1) :
                   fills'[j].of = fills'[i].of => fills'[i].lots + fills'[i].left <= fills'[j].left
  <2>1. /\ closes[fills[i + 1].of].at \in {"sent", "done"}
        /\ closes[fills[i + 1].of].lots <= fills[i + 1].left
        /\ \A j \in 1..i :
              fills[j].of = fills[i + 1].of => fills[i + 1].lots + fills[i + 1].left <= fills[j].left
    BY <1>2, <1>3, <1>4 DEF FillsFollow
  <2>2. \A j \in 1..(i - 1) : j \in 1..Len(fills') /\ j + 1 \in 1..i
    BY <1>1, <1>2
  <2> QED BY <1>2, <2>1, <2>2
<1> QED BY <1>2, <1>3, <1>4 DEF FillsFollow

\* Another fill keeps what is known of the close orders.
LEMMA ApplyFillCloses == ASSUME PositionsTypeOK, CloseInv, ApplyFill PROVE CloseInv'
<1> DEFINE fill == Head(fills)
<1>1. /\ fills # <<>> /\ fills' = Tail(fills) /\ closes' = closes
      /\ position' = Updated(fill)
      /\ disturbed' = disturbed \union {k \in Closer \ {fill.of} : closes[k] # NoClose}
  BY DEF ApplyFill, calls
<1>2. /\ FillsFollow'
      /\ \A i \in 1..Len(fills') : i + 1 \in 1..Len(fills) /\ fills'[i] = fills[i + 1]
  BY <1>1, TailFollows DEF CloseInv
<1>3. fills \in Seq(FillOf) /\ fill = fills[1] /\ 1 \in 1..Len(fills) /\ fill \in FillOf
  BY <1>1, HeadTailProperties DEF PositionsTypeOK
<1>4. /\ fill.lots \in Nat \ {0} /\ fill.left \in Nat
      /\ \A i \in 1..Len(fills) : fills[i].lots \in Nat \ {0} /\ fills[i].left \in Nat
  BY <1>3, FillTypes
<1>5. ASSUME fill.of \in Closer \ disturbed
      PROVE  /\ Reduces(fill.side, fill.lots + fill.left)
             /\ position.lots \in Nat \ {0}
             /\ fill.lots <= position.lots
  <2>1. Reduces(fill.side, fill.lots + fill.left)
    BY <1>3, <1>5 DEF CloseInv, StillCloses
  <2>2. position.lots \in Nat \ {0}
    BY <2>1 DEF Reduces, PositionsTypeOK, Position
  <2> QED BY <1>4, <2>1, <2>2 DEF Reduces
<1>6. CloseOnlyCloses'
  <2>1. ASSUME fill.of \in Closer, fill.of \notin disturbed
        PROVE  (position # NoPosition /\ position.side # Opens(fill.side)) /\ fill.lots <= position.lots
    BY <1>5, <2>1 DEF Reduces
  <2> QED BY <1>1, <2>1 DEF ApplyFill, CloseInv, CloseOnlyCloses
<1>7. ASSUME NEW k \in Closer \ disturbed'
      PROVE  /\ closes'[k].at \in {"send", "sent"} => Reduces(closes[k].side, closes[k].lots)'
             /\ \A i \in 1..Len(fills') :
                   fills'[i].of = k => Reduces(fills[i].side, fills[i].lots + fills[i].left)'
  <2>1. k \in Closer \ disturbed /\ (k = fill.of \/ closes[k] = NoClose)
    BY <1>1
  <2>2. CASE closes[k] = NoClose
    <3>1. closes[k].at \notin {"send", "sent", "done"}
      BY <2>2 DEF NoClose
    <3>2. \A i \in 1..Len(fills) : fills[i].of # k
      BY <3>1 DEF CloseInv, FillsFollow
    <3> QED BY <1>1, <1>2, <3>1, <3>2
  <2>3. CASE k = fill.of
    <3>1. /\ position # NoPosition /\ position.side # Opens(fill.side)
          /\ fill.lots + fill.left <= position.lots /\ position.lots \in Nat \ {0}
      BY <1>5, <2>1, <2>3 DEF Reduces
    <3>2. ASSUME NEW side, NEW n \in Nat \ {0}, n <= fill.left, position.side # Opens(side)
          PROVE  Reduces(side, n)'
      <4>1. ~(position.lots <= fill.lots) /\ n <= position.lots - fill.lots
        BY <1>4, <3>1, <3>2
      <4>2. position' = [side |-> position.side, lots |-> position.lots - fill.lots, mark |-> 0]
        BY <1>1, <3>1, <4>1 DEF Updated
      <4>3. position' # NoPosition /\ position'.side = position.side
            /\ position'.lots = position.lots - fill.lots
        BY <1>4, <3>1, <4>1, <4>2 DEF NoPosition
      <4> QED BY <3>2, <4>1, <4>3 DEF Reduces, Opens
    <3>3. ASSUME closes[k].at \in {"send", "sent"}
          PROVE  Reduces(closes[k].side, closes[k].lots)'
      <4>1. closes[k].lots \in Nat \ {0} /\ Reduces(closes[k].side, closes[k].lots)
        BY <2>1, <3>3 DEF CloseInv, StillCloses, PositionsTypeOK, Closing
      <4>2. closes[k].lots <= fill.left
        BY <1>3, <2>3 DEF CloseInv, FillsFollow
      <4>3. position.side # Opens(closes[k].side)
        BY <4>1 DEF Reduces
      <4> QED BY <1>1, <3>2, <4>1, <4>2, <4>3 DEF Reduces, Opens
    <3>4. ASSUME NEW i \in 1..Len(fills'), fills'[i].of = k
          PROVE  Reduces(fills[i].side, fills[i].lots + fills[i].left)'
      <4> DEFINE later == fills[i + 1]
      <4>1. i + 1 \in 1..Len(fills) /\ fills'[i] = later
        BY <1>2
      <4>2. 1 \in 1..(i + 1 - 1)
        BY <4>1
      <4>3. later.lots + later.left <= fill.left
        BY <1>3, <2>3, <3>4, <4>1, <4>2 DEF CloseInv, FillsFollow
      <4>4. later.lots + later.left \in Nat \ {0}
        BY <1>4, <4>1
      <4>5. Reduces(later.side, later.lots + later.left)
        BY <2>1, <3>4, <4>1 DEF CloseInv, StillCloses
      <4> QED BY <3>2, <4>1, <4>3, <4>4, <4>5 DEF Reduces
    <3> QED BY <1>1, <3>3, <3>4
  <2> QED BY <2>1, <2>2, <2>3
<1> QED BY <1>2, <1>6, <1>7 DEF CloseInv, StillCloses

\* So does a fill of a close order.
LEMMA FillCloseCloses ==
    ASSUME PositionsTypeOK, CloseInv, NEW k \in Closer, FillClose(k)
    PROVE  CloseInv'
<1> DEFINE c == closes[k]
<1>1. PICK n \in 0..c.lots :
        /\ fills' = IF n = 0 THEN fills
                    ELSE Append(fills, [of |-> k, side |-> c.side, lots |-> n, left |-> c.lots - n])
        /\ closes' = [closes EXCEPT ![k] = Traded(c, n)]
  BY DEF FillClose
<1>2. c \in Closing /\ c.lots \in Nat /\ c.at = "sent" /\ closes \in [Closer -> Closing]
  BY DEF FillClose, PositionsTypeOK, Closing
<1>3. /\ UNCHANGED <<position, disturbed, overshot>>
      /\ \A side, m : Reduces(side, m)' <=> Reduces(side, m)
  BY DEF FillClose, Reduces
<1> HIDE DEF c
<1>4. /\ closes'[k] = Traded(c, n)
      /\ \A l \in Closer : l # k => closes'[l] = closes[l]
      /\ c = closes[k]
  BY <1>1, <1>2 DEF c
<1>5. /\ Traded(c, n).at \in {"sent", "done"} /\ Traded(c, n).lots \in Nat
      /\ Traded(c, n).lots <= c.lots - n
      /\ Traded(c, n).at = "sent" => n # 0 /\ Traded(c, n).lots = c.lots - n
      /\ Traded(c, n).side = c.side
  BY <1>2 DEF Traded, Over, Closing
<1>6. fills \in Seq(FillOf) /\ Len(fills) \in Nat
  BY DEF PositionsTypeOK
<1>7. \A i \in 1..Len(fills) : fills[i].left \in Nat /\ fills[i].lots \in Nat \ {0}
  BY FillTypes
<1>8. Reduces(c.side, c.lots) \/ k \in disturbed
  BY <1>2, <1>4 DEF CloseInv, StillCloses
<1>9. ASSUME NEW i \in 1..Len(fills), fills[i].of = k
      PROVE  c.lots <= fills[i].left
  BY <1>4, <1>9 DEF CloseInv, FillsFollow
<1>10. ASSUME NEW m \in Nat, m <= c.lots, Reduces(c.side, c.lots)
       PROVE  Reduces(c.side, m)
  <2>1. position.lots \in Nat
    BY <1>10 DEF Reduces, PositionsTypeOK, Position
  <2> QED BY <1>2, <1>10, <2>1 DEF Reduces
\* What holds of the fills that were there before.
<1>11. ASSUME NEW i \in 1..Len(fills), fills[i].of \in Closer
       PROVE  /\ closes'[fills[i].of].at \in {"sent", "done"}
              /\ closes'[fills[i].of].lots <= fills[i].left
              /\ \A j \in 1..(i - 1) :
                    fills[j].of = fills[i].of => fills[i].lots + fills[i].left <= fills[j].left
  <2>1. /\ closes[fills[i].of].at \in {"sent", "done"}
        /\ closes[fills[i].of].lots <= fills[i].left
        /\ \A j \in 1..(i - 1) :
              fills[j].of = fills[i].of => fills[i].lots + fills[i].left <= fills[j].left
    BY <1>11 DEF CloseInv, FillsFollow
  <2>2. CASE fills[i].of = k
    BY <1>2, <1>4, <1>5, <1>7, <1>9, <2>1, <2>2
  <2>3. CASE fills[i].of # k
    BY <1>4, <1>11, <2>1, <2>3
  <2> QED BY <2>2, <2>3
<1>12. \A l \in Closer \ disturbed' :
          closes'[l].at \in {"send", "sent"} => Reduces(closes[l].side, closes[l].lots)'
  <2> SUFFICES ASSUME NEW l \in Closer \ disturbed', closes'[l].at \in {"send", "sent"}
               PROVE  Reduces(closes'[l].side, closes'[l].lots)
    BY <1>3
  <2>1. CASE l = k
    BY <1>2, <1>3, <1>4, <1>5, <1>8, <1>10, <2>1
  <2>2. CASE l # k
    BY <1>3, <1>4, <2>2 DEF CloseInv, StillCloses
  <2> QED BY <2>1, <2>2
<1>13. CloseOnlyCloses'
  BY <1>3 DEF CloseInv, CloseOnlyCloses
<1>14. CASE n = 0
  <2>1. fills' = fills
    BY <1>1, <1>14
  <2> QED BY <1>3, <1>11, <1>12, <1>13, <2>1 DEF CloseInv, FillsFollow, StillCloses
<1>15. CASE n # 0
  <2> DEFINE f == [of |-> k, side |-> c.side, lots |-> n, left |-> c.lots - n]
  <2>1. /\ Len(fills') = Len(fills) + 1 /\ fills'[Len(fills) + 1] = f
        /\ \A i \in 1..Len(fills) : fills'[i] = fills[i]
    BY <1>1, <1>6, <1>15, AppendProperties
  <2>2. f.of = k /\ f.side = c.side /\ f.lots + f.left = c.lots /\ f.left = c.lots - n
    BY <1>2
  <2> HIDE DEF f
  <2>3. \A i \in 1..Len(fills') : i \in 1..Len(fills) \/ i = Len(fills) + 1
    BY <1>6, <2>1
  <2>4. FillsFollow'
    <3> SUFFICES ASSUME NEW i \in 1..Len(fills'), fills'[i].of \in Closer
                 PROVE  /\ closes'[fills'[i].of].at \in {"sent", "done"}
                        /\ closes'[fills'[i].of].lots <= fills'[i].left
                        /\ \A j \in 1..(i - 1) :
                              fills'[j].of = fills'[i].of =>
                                 fills'[i].lots + fills'[i].left <= fills'[j].left
      BY DEF FillsFollow
    <3>1. CASE i \in 1..Len(fills)
      <4>1. \A j \in 1..(i - 1) : fills'[j] = fills[j]
        BY <1>6, <2>1, <3>1
      <4> QED BY <1>11, <2>1, <3>1, <4>1
    <3>2. CASE i = Len(fills) + 1
      <4>1. \A j \in 1..(i - 1) : j \in 1..Len(fills) /\ fills'[j] = fills[j]
        BY <1>6, <2>1, <3>2
      <4> QED BY <1>4, <1>5, <1>9, <2>1, <2>2, <3>2, <4>1
    <3> QED BY <2>3, <3>1, <3>2
  <2>5. \A l \in Closer \ disturbed' : \A i \in 1..Len(fills') :
           fills'[i].of = l => Reduces(fills'[i].side, fills'[i].lots + fills'[i].left)
    <3> SUFFICES ASSUME NEW l \in Closer \ disturbed', NEW i \in 1..Len(fills'), fills'[i].of = l
                 PROVE  Reduces(fills'[i].side, fills'[i].lots + fills'[i].left)
      OBVIOUS
    <3>1. CASE i \in 1..Len(fills)
      BY <1>3, <2>1, <3>1 DEF CloseInv, StillCloses
    <3>2. CASE i = Len(fills) + 1
      BY <1>3, <1>8, <2>1, <2>2, <3>2
    <3> QED BY <2>3, <3>1, <3>2
  <2> QED BY <1>3, <1>12, <1>13, <2>4, <2>5 DEF CloseInv, StillCloses
<1> QED BY <1>14, <1>15

\* Every action keeps what is known of the close orders.
LEMMA CloseInvNext == PositionsTypeOK /\ CloseInv /\ [Next]_vars => CloseInv'
<1> SUFFICES ASSUME PositionsTypeOK, CloseInv, [Next]_vars
             PROVE  CloseInv'
  OBVIOUS
<1>0. closes \in [Closer -> Closing] /\ fills \in Seq(FillOf) /\ Len(fills) \in Nat
  BY DEF PositionsTypeOK
<1>1. CASE ApplyFill
  BY <1>1, ApplyFillCloses
<1>2. ASSUME NEW k \in Closer, FillClose(k)
      PROVE  CloseInv'
  BY <1>2, FillCloseCloses
<1>3. ASSUME NEW k \in Closer, ReadForClose(k)
      PROVE  CloseInv'
  <2>1. /\ closes[k] = NoClose /\ position # NoPosition
        /\ UNCHANGED <<position, fills, disturbed, overshot>>
        /\ closes'[k] = [at |-> "send", side |-> IF position.side = "long" THEN "sell" ELSE "buy",
                         lots |-> position.lots]
        /\ \A l \in Closer : l # k => closes'[l] = closes[l]
    BY <1>0, <1>3 DEF ReadForClose
  <2>2. \A i \in 1..Len(fills) : fills[i].of # k
    BY <2>1 DEF CloseInv, FillsFollow, NoClose
  <2>3. Reduces(closes'[k].side, closes'[k].lots)
    <3>1. position.lots \in Nat /\ position.side \in {"long", "short"}
      BY <2>1 DEF PositionsTypeOK, Position
    <3> QED BY <2>1, <3>1 DEF Reduces, Opens
  <2>4. \A side, m : Reduces(side, m)' <=> Reduces(side, m)
    BY <2>1 DEF Reduces
  <2> QED BY <2>1, <2>2, <2>3, <2>4 DEF CloseInv, FillsFollow, StillCloses, CloseOnlyCloses
<1>4. ASSUME NEW k \in Closer, SendClose(k) \/ LoseClose(k)
      PROVE  CloseInv'
  <2>1. /\ closes[k].at = "send"
        /\ UNCHANGED <<position, fills, disturbed, overshot>>
        /\ closes'[k].at = "sent" \/ closes'[k].at = "done"
        /\ closes'[k].at = "sent" => closes'[k].side = closes[k].side /\ closes'[k].lots = closes[k].lots
        /\ \A l \in Closer : l # k => closes'[l] = closes[l]
    <3>1. CASE SendClose(k)
      <4>1. closes[k] \in Closing /\ closes'[k] = [closes[k] EXCEPT !.at = "sent"]
        BY <1>0, <3>1 DEF SendClose
      <4> QED BY <1>0, <3>1, <4>1 DEF SendClose, Closing
    <3>2. CASE LoseClose(k)
      BY <1>0, <3>2 DEF LoseClose, Over
    <3> QED BY <1>4, <3>1, <3>2
  <2>2. \A i \in 1..Len(fills) : fills[i].of # k
    BY <2>1 DEF CloseInv, FillsFollow
  <2>3. \A side, m : Reduces(side, m)' <=> Reduces(side, m)
    BY <2>1 DEF Reduces
  <2> QED BY <2>1, <2>2, <2>3 DEF CloseInv, FillsFollow, StillCloses, CloseOnlyCloses
<1>5. CASE FillOther
  <2>1. PICK f : f.of = Other /\ fills' = Append(fills, f)
    BY <1>5 DEF FillOther
  <2>2. /\ Len(fills') = Len(fills) + 1 /\ fills'[Len(fills) + 1].of \notin Closer
        /\ \A i \in 1..Len(fills) : fills'[i] = fills[i]
        /\ \A i \in 1..Len(fills') : fills'[i].of \in Closer => i \in 1..Len(fills)
    BY <1>0, <2>1, PositionsAssumption
  <2>3. UNCHANGED <<position, closes, disturbed, overshot>>
    BY <1>5 DEF FillOther
  <2>4. \A side, m : Reduces(side, m)' <=> Reduces(side, m)
    BY <2>3 DEF Reduces
  <2>5. \A i \in 1..Len(fills) : \A j \in 1..(i - 1) : j \in 1..Len(fills)
    BY <1>0
  <2> QED BY <2>2, <2>3, <2>4, <2>5 DEF CloseInv, FillsFollow, StillCloses, CloseOnlyCloses
<1>6. CASE DropFill
  <2>1. fills # <<>> /\ fills' = Tail(fills) /\ UNCHANGED <<position, closes, disturbed, overshot>>
    BY <1>6 DEF DropFill, calls
  <2>2. /\ FillsFollow'
        /\ \A i \in 1..Len(fills') : i + 1 \in 1..Len(fills) /\ fills'[i] = fills[i + 1]
    BY <2>1, TailFollows DEF CloseInv
  <2>3. \A side, m : Reduces(side, m)' <=> Reduces(side, m)
    BY <2>1 DEF Reduces
  <2> QED BY <2>1, <2>2, <2>3 DEF CloseInv, StillCloses, CloseOnlyCloses
<1>7. CASE Crash
  <2>1. /\ fills' = <<>> /\ UNCHANGED <<position, disturbed, overshot>>
        /\ \A k \in Closer : closes'[k] = IF closes[k].at = "send" THEN Over(closes[k]) ELSE closes[k]
    BY <1>7 DEF Crash
  <2>2. \A k \in Closer : closes'[k].at \in {"send", "sent"} => closes'[k] = closes[k]
    <3> SUFFICES ASSUME NEW k \in Closer, closes'[k].at \in {"send", "sent"}
                 PROVE  closes'[k] = closes[k]
      OBVIOUS
    <3>1. CASE closes[k].at = "send"
      <4>1. closes'[k] = Over(closes[k])
        BY <2>1, <3>1
      <4>2. closes'[k].at = "done"
        BY <4>1 DEF Over
      <4> QED BY <4>2
    <3>2. CASE closes[k].at # "send"
      BY <2>1, <3>2
    <3> QED BY <3>1, <3>2
  <2>3. \A side, m : Reduces(side, m)' <=> Reduces(side, m)
    BY <2>1 DEF Reduces
  <2> QED BY <2>1, <2>2, <2>3 DEF CloseInv, FillsFollow, StillCloses, CloseOnlyCloses
<1>8. ASSUME NEW t \in Poll, Updater(t) \/ FailPoll(t)
      PROVE  CloseInv'
  <2>1. /\ closes' = closes /\ fills' = fills /\ disturbed' = disturbed /\ overshot' = overshot
        /\ position' = NoPosition <=> position = NoPosition
        /\ position'.side = position.side /\ position'.lots = position.lots
    BY <1>8 DEF Updater, FailPoll, ReadKey, SelectOpen, WriteMark, calls,
                PositionsTypeOK, Position, NoPosition
  <2> QED BY <2>1, CloseStays
<1>9. CASE UNCHANGED <<position, closes, fills, polls, since, disturbed, overshot, others, faults>>
  BY <1>9, CloseStays
<1>10. CASE UNCHANGED vars
  BY <1>9, <1>10 DEF vars
<1> QED BY <1>1, <1>2, <1>3, <1>4, <1>5, <1>6, <1>7, <1>8, <1>9, <1>10 DEF Next

\* Unless another fill is applied after it has read the position, the order of
\* a close call never trades more than the position has, and never turns it over.
THEOREM ClosesOnlyClose == Spec => []CloseOnlyCloses
<1>1. Init => CloseInv
  BY DEF Init, CloseInv, FillsFollow, StillCloses, CloseOnlyCloses, NoClose
<1>2. CloseInv => CloseOnlyCloses
  BY DEF CloseInv
<1> QED BY <1>1, <1>2, CloseInvNext, PositionsTyped, PTL DEF Spec
=============================================================================
