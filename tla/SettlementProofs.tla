--------------------------- MODULE SettlementProofs ---------------------------
(***************************************************************************)
(* Theorems about Settlement, for every finite set of orders and users,    *)
(* any terms, funds, fees, cancels, fills at the mark price and restarts,  *)
(* whichever PLACE commands are sent again and whichever CANCEL overtakes  *)
(* its PLACE.                                                              *)
(***************************************************************************)
EXTENDS Settlement, SumLemmas, SequenceTheorems, TLAPS

Statuses   == {"none", "open", "partially_filled", "filled", "canceled", "rejected"}
RowValue   == [status: Statuses, filled: Nat]
Message    == [type: {"accepted", "trade", "outside", "filled", "canceled", "rejected"},
               order: Order, maker: Order, price: Nat, quantity: Nat]
Command    == {c \in [op: {"place", "cancel"}, order: Order] : c.op = "cancel" => c.order \in MayCancel}
Stations   == {"new", "insert", "record", "send", "done", "gone", "owed"}
Closing    == {"canceled", "rejected"}
TradeSteps == {"maker", "fillMaker", "writeMaker", "fillTaker", "writeTaker", "commit"}
Steps      == {"idle", "unlock", "close"} \union TradeSteps

\* The orders a message is about, and the lots it tells of them.
Names(e, x)    == e.order = x \/ e.maker = x
Lots(e, x)     == IF e.type = "trade" /\ Names(e, x) THEN e.quantity ELSE 0
Volume(es, x)  == SumFunctionOnSet([i \in 1..Len(es) |-> Lots(es[i], x)], 1..Len(es))

\* A trade is between two orders of opposite sides, at the maker's price.
Fair(e) ==
    IF e.type = "trade"
    THEN /\ e.order # e.maker /\ e.quantity > 0
         /\ T(e.maker).side # T(e.order).side
         /\ e.price = T(e.maker).price
    ELSE e.maker = e.order

\* No buyer but those in d pays more than the price its margin was locked for.
Cheap(e, d) ==
    e.type = "trade" /\ T(e.order).side = "buy" /\ Id(e.order) \notin d => e.price <= T(e.order).price

-----------------------------------------------------------------------------
(* Volumes of sequences of messages. *)

\* What an order's terms are.
LEMMA TermsType ==
    ASSUME NEW x \in Order
    PROVE  /\ T(x) \in [owner: User \union {External}, side: {"buy", "sell"},
                        type: {"limit", "market"}, price: Nat \ {0}, quantity: Nat \ {0},
                        tif: {"GTC", "IOC", "FOK"}, postOnly: BOOLEAN]
           /\ T(x).owner \in User \union {External} /\ T(x).side \in {"buy", "sell"}
           /\ T(x).price \in Nat /\ T(x).price > 0 /\ T(x).quantity \in Nat /\ T(x).quantity > 0
           /\ ~IsExternal(x) => T(x).owner \in User
           /\ Pays(x) \in AnyRow /\ Gets(x) \in AnyRow /\ Quote(x) \in AnyRow
           /\ ~IsExternal(x) => Pays(x) \in Row /\ Gets(x) \in Row /\ Quote(x) \in Row
           /\ Id(x) \in Order /\ Id(Id(x)) = Id(x) /\ T(Id(x)) = T(x)
           /\ IsExternal(x) => Id(x) = x
<1>1. T(x) \in [owner: User \union {External}, side: {"buy", "sell"},
                type: {"limit", "market"}, price: Nat \ {0}, quantity: Nat \ {0},
                tif: {"GTC", "IOC", "FOK"}, postOnly: BOOLEAN]
  BY SettlementAssumption DEF T
<1>2. ~IsExternal(x) => T(x).owner \in User
  BY <1>1 DEF IsExternal
<1>3. T(x).price > 0 /\ T(x).quantity > 0
  BY <1>1
<1>4. Id(x) \in Order /\ Id(Id(x)) = Id(x) /\ T(Id(x)) = T(x) /\ (IsExternal(x) => Id(x) = x)
  <2>1. IdOf[x] \in Order
    BY SettlementAssumption
  <2>2. /\ TermsOf[IdOf[x]] = TermsOf[x] /\ IdOf[IdOf[x]] = IdOf[x]
        /\ TermsOf[x].owner = External => IdOf[x] = x
    BY SettlementAssumption
  <2> QED BY <2>1, <2>2 DEF T, Id, IsExternal
<1> HIDE DEF T, Id
<1> QED BY <1>1, <1>2, <1>3, <1>4 DEF Pays, Gets, Quote, AnyRow, Row, Asset

\* Lots are numbers, and so is a volume.
LEMMA VolumeType ==
    ASSUME NEW es \in Seq(Message), NEW x
    PROVE  /\ Len(es) \in Nat
           /\ Numbers([i \in 1..Len(es) |-> Lots(es[i], x)], 1..Len(es))
           /\ Volume(es, x) \in Nat
           /\ \A i \in 1..Len(es) : Lots(es[i], x) \in Nat /\ Lots(es[i], x) <= Volume(es, x)
<1> DEFINE f == [i \in 1..Len(es) |-> Lots(es[i], x)]
<1>1. Len(es) \in Nat /\ \A i \in 1..Len(es) : es[i] \in Message
  BY LenProperties, ElementOfSeq
<1>2. \A i \in 1..Len(es) : Lots(es[i], x) \in Nat
  BY <1>1 DEF Lots, Message
<1>3. \A i \in 1..Len(es) : f[i] = Lots(es[i], x) /\ f[i] \in Int /\ f[i] >= 0
  BY <1>2
<1>4. IsFiniteSet(1..Len(es))
  BY <1>1, FS_Interval
<1>5. Volume(es, x) = SumFunctionOnSet(f, 1..Len(es))
  BY DEF Volume
<1> HIDE DEF f
<1>6. Numbers(f, 1..Len(es))
  BY <1>3, <1>4 DEF Numbers
<1>7. /\ SumFunctionOnSet(f, 1..Len(es)) \in Int /\ SumFunctionOnSet(f, 1..Len(es)) >= 0
      /\ \A i \in 1..Len(es) : f[i] <= SumFunctionOnSet(f, 1..Len(es))
  BY <1>3, <1>6, SumType, SumBounds
<1> QED BY <1>1, <1>2, <1>3, <1>5, <1>6, <1>7 DEF f

\* Messages that tell no lots of x have no volume of it.
LEMMA VolumeNone ==
    ASSUME NEW es \in Seq(Message), NEW x, \A i \in 1..Len(es) : Lots(es[i], x) = 0
    PROVE  Volume(es, x) = 0
<1> DEFINE f == [i \in 1..Len(es) |-> Lots(es[i], x)]
<1>1. \A i \in 1..Len(es) : f[i] = 0
  OBVIOUS
<1>2. IsFiniteSet(1..Len(es))
  BY LenProperties, FS_Interval
<1> HIDE DEF f
<1>3. SumFunctionOnSet(f, 1..Len(es)) = 0
  BY <1>1, <1>2, SumZero
<1> QED BY <1>3 DEF f, Volume

\* The message in front.
LEMMA VolumeTail ==
    ASSUME NEW es \in Seq(Message), es # <<>>, NEW x
    PROVE  /\ Head(es) \in Message /\ Head(es) = es[1] /\ 1 \in 1..Len(es)
           /\ Tail(es) \in Seq(Message) /\ Len(es) \in Nat /\ Len(Tail(es)) = Len(es) - 1
           /\ \A i \in 1..Len(Tail(es)) : i + 1 \in 1..Len(es) /\ Tail(es)[i] = es[i + 1]
           /\ Lots(Head(es), x) \in Nat /\ Volume(Tail(es), x) \in Nat
           /\ Volume(es, x) = Lots(Head(es), x) + Volume(Tail(es), x)
<1> DEFINE n == Len(es) - 1
           f == [i \in 1..Len(es) |-> Lots(es[i], x)]
           g == [i \in 1..Len(Tail(es)) |-> Lots(Tail(es)[i], x)]
<1>1. n \in Nat /\ Len(es) = n + 1 /\ 1 \in 1..Len(es) /\ Head(es) = es[1] /\ Head(es) \in Message
  OBVIOUS
<1>2. /\ Tail(es) \in Seq(Message) /\ Len(Tail(es)) = n
      /\ \A i \in 1..n : Tail(es)[i] = es[i + 1]
  BY HeadTailProperties
<1>3. Numbers(f, 1..Len(es)) /\ Volume(Tail(es), x) \in Nat /\ Lots(es[1], x) \in Nat
  BY <1>1, <1>2, VolumeType
<1>4. f[1] = Lots(es[1], x) /\ \A i \in 1..n : g[i] = f[i + 1]
  BY <1>1, <1>2
<1>5. Volume(es, x) = SumFunctionOnSet(f, 1..Len(es)) /\ Volume(Tail(es), x) = SumFunctionOnSet(g, 1..n)
  BY <1>2 DEF Volume
<1>6. \A i \in 1..n : i + 1 \in 1..Len(es)
  BY <1>1
<1> HIDE DEF f, g, n
<1>7. SumFunctionOnSet(f, 1..(n + 1)) = f[1] + SumFunctionOnSet(g, 1..n)
  BY <1>1, <1>3, <1>4, SumRest
<1>8. Len(es) - 1 = n /\ Len(es) \in Nat
  BY <1>1 DEF n
<1> QED BY <1>1, <1>2, <1>3, <1>4, <1>5, <1>6, <1>7, <1>8

\* Messages that follow others.
LEMMA VolumeConcat ==
    ASSUME NEW es \in Seq(Message), NEW fs \in Seq(Message), NEW x
    PROVE  /\ es \o fs \in Seq(Message)
           /\ Len(es \o fs) = Len(es) + Len(fs)
           /\ \A i \in 1..Len(es \o fs) :
                (es \o fs)[i] = IF i <= Len(es) THEN es[i] ELSE fs[i - Len(es)]
           /\ Volume(es \o fs, x) = Volume(es, x) + Volume(fs, x)
<1> DEFINE m == Len(es)
           n == Len(fs)
           gs == es \o fs
           f == [i \in 1..Len(gs) |-> Lots(gs[i], x)]
           d == [i \in 1..Len(es) |-> Lots(es[i], x)]
           g == [i \in 1..Len(fs) |-> Lots(fs[i], x)]
<1>1. /\ gs \in Seq(Message) /\ Len(gs) = m + n /\ m \in Nat /\ n \in Nat
      /\ \A i \in 1..(m + n) : gs[i] = IF i <= m THEN es[i] ELSE fs[i - m]
  BY ConcatProperties, LenProperties
<1> HIDE DEF m, n, gs
<1>2. Numbers(f, 1..(m + n))
  BY <1>1, VolumeType
<1>3. \A i \in 1..m : f[i] = d[i]
  BY <1>1 DEF m
<1>4. \A i \in 1..n : g[i] = f[m + i]
  <2>1. \A i \in 1..n : m + i \in 1..(m + n) /\ ~(m + i <= m) /\ (m + i) - m = i
    BY <1>1
  <2> QED BY <1>1, <2>1 DEF n
<1>5. /\ Volume(gs, x) = SumFunctionOnSet(f, 1..(m + n))
      /\ Volume(es, x) = SumFunctionOnSet(d, 1..m)
      /\ Volume(fs, x) = SumFunctionOnSet(g, 1..n)
  BY <1>1 DEF Volume, m, n
<1> HIDE DEF f, d, g
<1>6. /\ Numbers(f, 1..m)
      /\ SumFunctionOnSet(f, 1..(m + n)) = SumFunctionOnSet(f, 1..m) + SumFunctionOnSet(g, 1..n)
  BY <1>1, <1>2, <1>4, SumConcat
<1>7. SumFunctionOnSet(f, 1..m) = SumFunctionOnSet(d, 1..m)
  BY <1>3, <1>6, SumSame
<1> QED BY <1>1, <1>5, <1>6, <1>7 DEF gs, m, n

\* ... as a fact about every order.
LEMMA VolumesAdd ==
    ASSUME NEW es \in Seq(Message), NEW fs \in Seq(Message)
    PROVE  \A x : Volume(es \o fs, x) = Volume(es, x) + Volume(fs, x)
BY VolumeConcat

\* Three sequences of messages in a row, joined from either end.
LEMMA Regroup ==
    ASSUME NEW a \in Seq(Message), NEW b \in Seq(Message), NEW c \in Seq(Message),
           NEW ab, ab = a \o b, NEW bc, bc = b \o c
    PROVE  ab \in Seq(Message) /\ bc \in Seq(Message) /\ ab \o c = a \o bc
BY ConcatAssociative, ConcatProperties

-----------------------------------------------------------------------------
(* What a placed order does: its makers, its trades, the messages. *)

\* A sum of which only a part is not zero.
LEMMA SumPart ==
    ASSUME NEW U, NEW f, Numbers(f, U), NEW S, S \subseteq U, NEW g,
           \A i \in S : f[i] = g[i], \A i \in U : i \notin S => f[i] = 0
    PROVE  SumFunctionOnSet(f, U) = SumFunctionOnSet(g, S)
<1>1. S \in SUBSET U /\ \A i \in U \ S : f[i] = 0
  OBVIOUS
<1>2. Numbers(f, S) /\ SumFunctionOnSet(f, U) = SumFunctionOnSet(f, S)
  BY <1>1, SumSupport
<1> QED BY <1>2, SumSame

\* Every maker crosses, is met once, and gives at least a lot and no more than it has.
LEMMA MakersMeet ==
    ASSUME left \in [Order -> Nat], resting \subseteq Order, \A q \in resting : left[q] > 0,
           NEW x \in Order, NEW ms \in MakersOf(x)
    PROVE  /\ Len(ms) \in Nat
           /\ \A i \in 1..Len(ms) : ms[i] \in Crossing(x)
           /\ \A i, j \in 1..Len(ms) : i # j => ms[i] # ms[j]
           /\ LeftAfter(x, ms, 0) = T(x).quantity
           /\ \A i \in 0..Len(ms) : LeftAfter(x, ms, i) \in 0..T(x).quantity
           /\ \A i \in 1..Len(ms) : LeftAfter(x, ms, i - 1) - LeftAfter(x, ms, i) \in 1..left[ms[i]]
<1>1. PICK s \in SUBSET Crossing(x) : ms \in SetToSeqs(s)
  BY DEF MakersOf, SetToAllKPermutations
<1>2. /\ ms \in [1..Cardinality(s) -> s]
      /\ \A i, j \in 1..Cardinality(s) : i # j => ms[i] # ms[j]
  BY <1>1 DEF SetToSeqs
<1>3. s \subseteq Order /\ IsFiniteSet(s) /\ Cardinality(s) \in Nat
  BY <1>1, TablesAssumption, FS_Subset, FS_CardinalityType DEF Crossing
<1>4. Len(ms) = Cardinality(s)
  BY <1>2, <1>3
<1>5. \A i \in 1..Len(ms) : ms[i] \in Crossing(x) /\ ms[i] \in Order /\ left[ms[i]] \in Nat /\ left[ms[i]] > 0
  BY <1>1, <1>2, <1>3, <1>4 DEF Crossing
<1> DEFINE n == Len(ms)
           f == [j \in 1..Len(ms) |-> left[ms[j]]]
           S(i) == SumFunctionOnSet(f, 1..i)
           Q == T(x).quantity
<1>6. n \in Nat /\ \A i \in 1..n : f[i] = left[ms[i]] /\ f[i] \in Nat /\ f[i] > 0
  BY <1>3, <1>4, <1>5
<1>7. \A i : LeftAfter(x, ms, i) = IF S(i) < Q THEN Q - S(i) ELSE 0
  BY DEF LeftAfter
<1>8. Q \in Nat /\ Q > 0
  BY TermsType
<1> HIDE DEF f, Q
<1>9. ASSUME NEW i \in 0..n
      PROVE  Numbers(f, 1..i) /\ S(i) \in Int /\ S(i) >= 0
  <2>1. IsFiniteSet(1..i) /\ \A j \in 1..i : j \in 1..n
    BY <1>6, FS_Interval
  <2>2. Numbers(f, 1..i) /\ \A j \in 1..i : f[j] >= 0
    BY <1>6, <2>1 DEF Numbers
  <2> QED BY <2>2, SumType, SumBounds
<1>10. S(0) = 0
  <2>1. 1..0 = {}
    OBVIOUS
  <2> QED BY <2>1, SumEmpty
<1>11. ASSUME NEW i \in 1..n
       PROVE  S(i) = S(i - 1) + f[i]
  <2>1. i - 1 \in Nat /\ (i - 1) + 1 = i /\ i \in 0..n
    BY <1>6
  <2>2. Numbers(f, 1..((i - 1) + 1))
    BY <1>9, <2>1
  <2>3. SumFunctionOnSet(f, 1..((i - 1) + 1)) = SumFunctionOnSet(f, 1..(i - 1)) + f[(i - 1) + 1]
    BY <2>1, <2>2, SumLast
  <2> QED BY <2>1, <2>3
<1>12. LeftAfter(x, ms, 0) = Q
  BY <1>7, <1>8, <1>10
<1>13. \A i \in 0..n : LeftAfter(x, ms, i) \in 0..Q
  BY <1>7, <1>8, <1>9
<1>14. ASSUME NEW i \in 1..n
       PROVE  LeftAfter(x, ms, i - 1) - LeftAfter(x, ms, i) \in 1..left[ms[i]]
  <2>1. LeftAfter(x, ms, i - 1) > 0
    BY DEF MakersOf
  <2>2. i \in 0..n /\ i - 1 \in 0..n
    BY <1>6
  <2> PICK a \in Int : a = S(i - 1)
    BY <1>9, <2>2
  <2> PICK b \in Int : b = f[i]
    BY <1>6
  <2>3. a >= 0 /\ S(i) = a + b /\ b > 0 /\ b = left[ms[i]]
    BY <1>6, <1>9, <1>11, <2>2
  <2>4. LeftAfter(x, ms, i - 1) = Q - a /\ a < Q
    BY <1>7, <1>8, <2>1
  <2>5. LeftAfter(x, ms, i) = IF a + b < Q THEN Q - (a + b) ELSE 0
    BY <1>7, <2>3
  <2> HIDE DEF S
  <2> QED BY <1>8, <2>3, <2>4, <2>5
<1> QED BY <1>2, <1>4, <1>5, <1>6, <1>12, <1>13, <1>14 DEF Q

\* The lots that the maker q gives.
Given(x, ms, q) ==
    SumFunctionOnSet([i \in 1..Len(ms) |-> Trades(x, ms)[i].quantity], {i \in 1..Len(ms) : ms[i] = q})

\* The trades tell, of each order, what it has given or got.
LEMMA TradesTell ==
    ASSUME left \in [Order -> Nat], resting \subseteq Order, \A q \in resting : left[q] > 0,
           NEW x \in Order, x \notin resting, NEW ms \in MakersOf(x)
    PROVE  /\ Trades(x, ms) \in Seq(Message) /\ Len(Trades(x, ms)) = Len(ms)
           /\ \A i \in 1..Len(ms) :
                /\ Fair(Trades(x, ms)[i]) /\ Trades(x, ms)[i].type = "trade"
                /\ Trades(x, ms)[i].order = x /\ Trades(x, ms)[i].maker = ms[i]
                /\ ms[i] \in resting
                /\ Trades(x, ms)[i].quantity \in 1..left[ms[i]]
                /\ Volume(Trades(x, ms), ms[i]) = Trades(x, ms)[i].quantity
           /\ Volume(Trades(x, ms), x) = T(x).quantity - LeftAfter(x, ms, Len(ms))
           /\ \A q \in Order \ {x} :
                /\ Volume(Trades(x, ms), q) = Given(x, ms, q)
                /\ (\A i \in 1..Len(ms) : ms[i] # q) => Volume(Trades(x, ms), q) = 0
<1> DEFINE n == Len(ms)
           t == Trades(x, ms)
           h == [i \in 0..n |-> LeftAfter(x, ms, i)]
<1>1. /\ n \in Nat
      /\ \A i \in 1..n : ms[i] \in Crossing(x)
      /\ \A i, j \in 1..n : i # j => ms[i] # ms[j]
      /\ LeftAfter(x, ms, 0) = T(x).quantity
      /\ \A i \in 0..n : LeftAfter(x, ms, i) \in 0..T(x).quantity
      /\ \A i \in 1..n : LeftAfter(x, ms, i - 1) - LeftAfter(x, ms, i) \in 1..left[ms[i]]
  BY MakersMeet
<1>2. \A i \in 1..n : ms[i] \in resting /\ ms[i] \in Order /\ ms[i] # x
  BY <1>1 DEF Crossing
<1>3. DOMAIN t = 1..n /\ \A i \in 1..n :
        t[i] = [type |-> "trade", order |-> x, maker |-> ms[i], price |-> T(ms[i]).price,
                quantity |-> LeftAfter(x, ms, i - 1) - LeftAfter(x, ms, i)]
  BY DEF Trades
<1>4. ASSUME NEW i \in 1..n
      PROVE  /\ t[i] \in Message /\ t[i].type = "trade" /\ t[i].order = x /\ t[i].maker = ms[i]
             /\ t[i].quantity = LeftAfter(x, ms, i - 1) - LeftAfter(x, ms, i)
             /\ t[i].quantity \in 1..left[ms[i]] /\ t[i].quantity \in Nat /\ Fair(t[i])
  <2>1. /\ t[i].type = "trade" /\ t[i].order = x /\ t[i].maker = ms[i]
        /\ t[i].price = T(ms[i]).price
        /\ t[i].quantity = LeftAfter(x, ms, i - 1) - LeftAfter(x, ms, i)
    BY <1>3
  <2>2. t[i].quantity \in 1..left[ms[i]]
    BY <1>1, <2>1
  <2>3. left[ms[i]] \in Nat
    BY <1>2
  <2>4. t[i].quantity \in Nat /\ t[i].quantity > 0
    BY <2>2, <2>3
  <2>5. t[i] \in Message
    <3>1. T(ms[i]).price \in Nat
      BY <1>2, TermsType
    <3> QED BY <1>2, <1>3, <2>1, <2>4, <3>1 DEF Message
  <2>6. Fair(t[i])
    <3>1. T(ms[i]).side # T(x).side
      BY <1>1 DEF Crossing
    <3> QED BY <1>2, <2>1, <2>4, <3>1 DEF Fair
  <2> QED BY <2>1, <2>2, <2>4, <2>5, <2>6
<1>5. t \in Seq(Message) /\ Len(t) = n
  <2>1. t \in [1..n -> Message]
    BY <1>3, <1>4 DEF Trades
  <2> QED BY <1>1, <2>1
<1> HIDE DEF t, n
<1> DEFINE L(q) == [i \in 1..Len(t) |-> Lots(t[i], q)]
           k == [i \in 1..n |-> t[i].quantity]
<1>6. \A q : Volume(t, q) = SumFunctionOnSet(L(q), 1..n) /\ Numbers(L(q), 1..n)
  BY <1>5, VolumeType DEF Volume
<1>7. ASSUME NEW q, NEW i \in 1..n
      PROVE  L(q)[i] = IF q = x \/ ms[i] = q THEN t[i].quantity ELSE 0
  BY <1>4, <1>5 DEF Lots, Names
<1>a. \A i \in 1..n : k[i] = t[i].quantity
  OBVIOUS
<1> HIDE DEF L, k
<1>8. Volume(t, x) = T(x).quantity - LeftAfter(x, ms, n)
  <2> PICK f : f = L(x)
    OBVIOUS
  <2>1. \A i \in 1..n : i - 1 \in 0..n /\ i \in 0..n
    BY <1>1 DEF n
  <2>2. \A i \in 0..n : h[i] = LeftAfter(x, ms, i) /\ h[i] \in Int
    BY <1>1 DEF n
  <2>3. \A i \in 1..n : f[i] = h[i - 1] - h[i]
    BY <1>4, <1>7, <2>1, <2>2
  <2>4. 0 \in 0..n /\ n \in 0..n /\ n \in Nat
    BY <1>1 DEF n
  <2> HIDE DEF h
  <2>5. SumFunctionOnSet(f, 1..n) = h[0] - h[n]
    BY <2>2, <2>3, <2>4, SumTelescope
  <2>6. h[0] = T(x).quantity /\ h[n] = LeftAfter(x, ms, n)
    BY <1>1, <2>2, <2>4
  <2> QED BY <1>6, <2>5, <2>6
<1>9. ASSUME NEW q \in Order, q # x
      PROVE  Volume(t, q) = SumFunctionOnSet(k, {i \in 1..n : ms[i] = q})
  <2> DEFINE f == L(q)
  <2> DEFINE S == {i \in 1..n : ms[i] = q}
  <2>1. \A i \in 1..n : i \notin S => f[i] = 0
    BY <1>7, <1>9
  <2>2. \A i \in S : f[i] = k[i]
    BY <1>7, <1>a
  <2>3. Numbers(f, 1..n) /\ Volume(t, q) = SumFunctionOnSet(f, 1..n)
    BY <1>6
  <2>4. S \subseteq 1..n
    OBVIOUS
  <2> HIDE DEF S, f, h
  <2> DEFINE N == 1..n
  <2>6. Numbers(f, N) /\ S \subseteq N /\ (\A i \in N : i \notin S => f[i] = 0)
    BY <2>1, <2>3, <2>4
  <2> HIDE DEF N
  <2>5. SumFunctionOnSet(f, N) = SumFunctionOnSet(k, S)
    BY <2>2, <2>6, SumPart
  <2> QED BY <2>3, <2>5 DEF S, f, N
<1>10. ASSUME NEW q \in Order, q # x, \A i \in 1..n : ms[i] # q
       PROVE  Volume(t, q) = 0
  <2>1. {i \in 1..n : ms[i] = q} = {}
    BY <1>10
  <2> QED BY <1>9, <1>10, <2>1, SumEmpty
<1>11. ASSUME NEW j \in 1..n
       PROVE  Volume(t, ms[j]) = t[j].quantity
  <2>1. {i \in 1..n : ms[i] = ms[j]} = {j}
    BY <1>1 DEF n
  <2>2. k[j] = t[j].quantity /\ k[j] \in Int
    BY <1>4, <1>a
  <2>3. SumFunctionOnSet(k, {j}) = k[j]
    BY <2>2, SumOne
  <2> QED BY <1>2, <1>9, <2>1, <2>2, <2>3
<1>12. ASSUME NEW q \in Order
       PROVE  SumFunctionOnSet(k, {i \in 1..n : ms[i] = q}) = Given(x, ms, q)
  BY DEF Given, k, n, t
<1> HIDE DEF k
<1>13. \A q \in Order \ {x} : Volume(t, q) = Given(x, ms, q)
  BY <1>9, <1>12
<1> QED BY <1>2, <1>4, <1>5, <1>8, <1>10, <1>11, <1>13 DEF n, t

\* What the engine's step says of the order x it is about.
Tells(x, new) ==
    /\ new \in Seq(Message) /\ events' = events \o new
    /\ \A i \in 1..Len(new) :
         /\ Fair(new[i]) /\ new[i].order = x /\ (new[i].maker = x \/ new[i].maker \in resting)
         /\ Cheap(new[i], dear')
         /\ new[i].type = "accepted" => i = 1
         /\ new[i].type = "outside" => x \in outside'
         /\ new[i].type \in Closing => i = Len(new) /\ x \notin resting'
         /\ new[i].type = "filled" => i = Len(new) /\ (x \in outside' \/ x \notin resting')
    /\ dear \subseteq dear' /\ dear' \subseteq Order
    /\ left' \in [Order -> Nat] /\ resting' \subseteq Order
    /\ outside \subseteq outside' /\ outside' \subseteq MayFillOutside
    /\ \A q \in Order : q \in resting' <=> left'[q] > 0
    /\ \A q \in Order : q # x => left'[q] + Volume(new, q) = left[q]

Closes(new) == \E i \in 1..Len(new) : new[i].type \in Closing
Fills(new)  == \E i \in 1..Len(new) : new[i].type = "filled"
Accepts(new) == \E i \in 1..Len(new) : new[i].type = "accepted"

Places(x, new) ==
    /\ Tells(x, new)
    /\ new # <<>>
    /\ left'[x] + Volume(new, x) <= T(x).quantity
    /\ \/ x \in outside'
       \/ Closes(new) /\ Volume(new, x) < T(x).quantity
       \/ ~Closes(new) /\ left'[x] + Volume(new, x) = T(x).quantity
    /\ Fills(new) => x \in outside' \/ Volume(new, x) = T(x).quantity

Cancels(x, new) ==
    /\ Tells(x, new)
    /\ outside' = outside
    /\ \A q \in Order : Volume(new, q) = 0
    /\ ~Fills(new) /\ ~Accepts(new)
    /\ \/ x \in resting /\ left'[x] = 0 /\ Closes(new)
       \/ /\ x \notin resting \/ Doubled(x)
          /\ new = <<>> /\ left' = left /\ resting' = resting

\* Messages that are no trades.
LEMMA SaysType ==
    ASSUME NEW x \in Order, NEW type \in {"accepted", "outside", "filled", "canceled", "rejected"}
    PROVE  /\ Says(type, x) \in Message /\ Fair(Says(type, x))
           /\ Says(type, x).type = type /\ Says(type, x).order = x /\ Says(type, x).maker = x
           /\ \A q : Lots(Says(type, x), q) = 0
           /\ <<Says(type, x)>> \in Seq(Message) /\ \A q : Volume(<<Says(type, x)>>, q) = 0
<1>1. Says(type, x) \in Message
  BY DEF Says, Message
<1>2. Says(type, x).type = type /\ Says(type, x).order = x /\ Says(type, x).maker = x
  BY DEF Says
<1>3. Fair(Says(type, x))
  BY <1>2 DEF Fair
<1>4. \A q : Lots(Says(type, x), q) = 0
  BY <1>2 DEF Lots
<1> HIDE DEF Says
<1>5. /\ <<Says(type, x)>> \in Seq(Message) /\ Len(<<Says(type, x)>>) = 1
      /\ \A i \in 1..1 : <<Says(type, x)>>[i] = Says(type, x)
  BY <1>1
<1> DEFINE s == <<Says(type, x)>>
<1>6. s \in Seq(Message) /\ Len(s) = 1 /\ \A q : \A i \in 1..Len(s) : Lots(s[i], q) = 0
  BY <1>4, <1>5
<1> HIDE DEF s
<1>7. \A q : Volume(s, q) = 0
  BY <1>6, VolumeNone
<1> QED BY <1>1, <1>2, <1>3, <1>4, <1>6, <1>7 DEF s

\* The engine refuses an order.
LEMMA RejectTells ==
    ASSUME left \in [Order -> Nat], resting \subseteq Order, outside \subseteq MayFillOutside, dear \subseteq Order,
           \A q \in Order : q \in resting <=> left[q] > 0, events \in Seq(Message),
           NEW x \in Order, x \notin resting, EngineRejects(x)
    PROVE  \E new : Places(x, new)
<1> DEFINE a == <<Says("accepted", x)>>
           b == <<Says("rejected", x)>>
           new == <<Says("accepted", x), Says("rejected", x)>>
<1>1. /\ Says("accepted", x) \in Message /\ Fair(Says("accepted", x))
      /\ Says("accepted", x).type = "accepted" /\ Says("accepted", x).order = x
      /\ Says("accepted", x).maker = x /\ \A q : Lots(Says("accepted", x), q) = 0
  BY SaysType
<1>2. /\ Says("rejected", x) \in Message /\ Fair(Says("rejected", x))
      /\ Says("rejected", x).type = "rejected" /\ Says("rejected", x).order = x
      /\ Says("rejected", x).maker = x /\ \A q : Lots(Says("rejected", x), q) = 0
  BY SaysType
<1>3. /\ new \in Seq(Message) /\ Len(new) = 2 /\ new # <<>>
      /\ new[1] = Says("accepted", x) /\ new[2] = Says("rejected", x)
  BY <1>1, <1>2
<1>4. events' = events \o new /\ left' = left /\ resting' = resting /\ outside' = outside /\ dear' = dear
  BY DEF EngineRejects, engine
<1> HIDE DEF new
<1>5. \A i \in 1..Len(new) : i = 1 \/ i = 2
  BY <1>3
<1>6. \A q : \A i \in 1..Len(new) : Lots(new[i], q) = 0
  BY <1>1, <1>2, <1>3, <1>5
<1>7. \A q : Volume(new, q) = 0
  BY <1>3, <1>6, VolumeNone
<1>8. left[x] = 0
  OBVIOUS
<1>9. \A i \in 1..Len(new) :
         /\ Fair(new[i]) /\ new[i].order = x /\ (new[i].maker = x \/ new[i].maker \in resting)
         /\ new[i].type = "accepted" => i = 1
         /\ new[i].type = "outside" => x \in outside'
         /\ new[i].type \in Closing => i = Len(new) /\ x \notin resting'
         /\ new[i].type # "filled" /\ new[i].type # "trade"
  BY <1>1, <1>2, <1>3, <1>4, <1>5 DEF Closing
<1>10. \A q \in Order : q # x => left'[q] + Volume(new, q) = left[q]
  BY <1>4, <1>7
<1>11. Tells(x, new)
  BY <1>3, <1>4, <1>9, <1>10 DEF Tells, Cheap
<1>12. Closes(new)
  BY <1>2, <1>3 DEF Closes, Closing
<1>13. ~Fills(new)
  BY <1>9 DEF Fills
<1>14. T(x).quantity \in Nat /\ T(x).quantity > 0
  BY TermsType
<1>15. Places(x, new)
  BY <1>3, <1>4, <1>7, <1>8, <1>11, <1>12, <1>13, <1>14 DEF Places
<1> QED BY <1>15

\* The engine takes an order out of its book, or finds nothing to take out.
LEMMA CancelTells ==
    ASSUME left \in [Order -> Nat], resting \subseteq Order, outside \subseteq MayFillOutside, dear \subseteq Order,
           \A q \in Order : q \in resting <=> left[q] > 0, events \in Seq(Message),
           NEW x \in Order, Id(x) = x, EngineCancels(x)
    PROVE  \E y \in Order : Id(y) = x /\ (y \notin resting => y = x) /\ \E new : Cancels(y, new)
<1>1. ASSUME NEW y \in resting, Id(y) = x, resting' = resting \ {y}, left' = [left EXCEPT ![y] = 0],
             events' = Append(events, Says("canceled", y)), UNCHANGED <<outside, dear>>
      PROVE  \E new : Cancels(y, new)
  <2> DEFINE new == <<Says("canceled", y)>>
  <2>0. y \in Order
    OBVIOUS
  <2>1. /\ Fair(Says("canceled", y)) /\ Says("canceled", y).type = "canceled"
        /\ Says("canceled", y) \in Message
        /\ Says("canceled", y).order = y /\ Says("canceled", y).maker = y
        /\ new \in Seq(Message) /\ \A q : Volume(new, q) = 0
    BY <2>0, SaysType
  <2>2. Len(new) = 1 /\ new[1] = Says("canceled", y)
    OBVIOUS
  <2>3. events' = events \o new
    <3>1. Append(events, Says("canceled", y)) = events \o new
      BY <2>1, AppendIsConcat
    <3> HIDE DEF new
    <3> QED BY <1>1, <3>1
  <2> HIDE DEF new
  <2>4. \A i \in 1..Len(new) : i = 1 /\ i = Len(new) /\ new[i] = Says("canceled", y)
    BY <2>2
  <2>5. left' \in [Order -> Nat] /\ left'[y] = 0 /\ \A q \in Order : q # y => left'[q] = left[q]
    BY <1>1, <2>0
  <2>6. \A i \in 1..Len(new) :
         /\ Fair(new[i]) /\ new[i].order = y /\ (new[i].maker = y \/ new[i].maker \in resting)
         /\ new[i].type # "accepted" /\ new[i].type # "outside" /\ new[i].type # "trade"
         /\ new[i].type \in Closing => i = Len(new) /\ y \notin resting'
         /\ new[i].type # "filled"
    BY <1>1, <2>1, <2>4
  <2>7. \A q \in Order : q # y => left'[q] + Volume(new, q) = left[q]
    BY <2>1, <2>5
  <2>8. \A q \in Order : q \in resting' <=> left'[q] > 0
    BY <1>1, <2>5
  <2>9. Tells(y, new)
    BY <1>1, <2>1, <2>3, <2>5, <2>6, <2>7, <2>8 DEF Tells, Cheap
  <2>10. Closes(new)
    BY <2>1, <2>2 DEF Closes, Closing
  <2>11. ~Fills(new) /\ ~Accepts(new)
    BY <2>6 DEF Fills, Accepts
  <2>12. Cancels(y, new)
    BY <1>1, <2>1, <2>5, <2>9, <2>10, <2>11 DEF Cancels
  <2> QED BY <2>12
<1>2. ASSUME x \notin resting \/ Doubled(x), UNCHANGED <<engine, events>>
      PROVE  \E new : Cancels(x, new)
  <2> DEFINE new == <<>>
  <2>1. left' = left /\ resting' = resting /\ outside' = outside /\ dear' = dear /\ events' = events
    BY <1>2 DEF engine
  <2>2. new \in Seq(Message) /\ Len(new) = 0 /\ events' = events \o new /\ 1..Len(new) = {}
    BY <2>1
  <2> HIDE DEF new
  <2>3. \A q : Volume(new, q) = 0
    BY <2>2, VolumeNone
  <2>4. Tells(x, new)
    BY <2>1, <2>2, <2>3 DEF Tells
  <2>5. ~Fills(new) /\ ~Accepts(new)
    BY <2>2 DEF Fills, Accepts
  <2>6. Cancels(x, new)
    BY <1>2, <2>1, <2>3, <2>4, <2>5 DEF Cancels, new
  <2> QED BY <2>6
<1>3. CASE \E y \in resting : /\ Id(y) = x /\ resting' = resting \ {y} /\ left' = [left EXCEPT ![y] = 0]
                              /\ events' = Append(events, Says("canceled", y))
                              /\ UNCHANGED <<outside, dear>>
  <2> PICK y \in resting : /\ Id(y) = x /\ resting' = resting \ {y} /\ left' = [left EXCEPT ![y] = 0]
                           /\ events' = Append(events, Says("canceled", y))
                           /\ UNCHANGED <<outside, dear>>
    BY <1>3
  <2>1. \E new : Cancels(y, new)
    BY <1>1
  <2> QED BY <2>1
<1>4. CASE (Doubled(x) \/ ~ \E y \in resting : Id(y) = x) /\ UNCHANGED <<engine, events>>
  BY <1>2, <1>4
<1> QED BY <1>3, <1>4 DEF EngineCancels

\* The engine matches an order, puts what is left in its book or not, and may
\* fill it at the mark price.
LEMMA MatchTells ==
    ASSUME left \in [Order -> Nat], resting \subseteq Order, outside \subseteq MayFillOutside, dear \subseteq Order,
           \A q \in Order : q \in resting <=> left[q] > 0, events \in Seq(Message),
           NEW x \in Order, x \notin resting, EnginePlaces(x)
    PROVE  \E new : Places(x, new)
<1>0. PICK ms \in MakersOf(x), atMark \in BOOLEAN :
      LET rest == LeftAfter(x, ms, Len(ms))
          stays == rest > 0 /\ Rests(x)
          done == {ms[i] : i \in {j \in 1..Len(ms) : Trades(x, ms)[j].quantity = left[ms[j]]}}
      IN  /\ atMark => rest > 0 /\ x \in MayFillOutside
          /\ outside' = IF atMark THEN outside \union {x} ELSE outside
          /\ dear' = IF T(x).side = "buy" /\ \E i \in 1..Len(ms) : T(ms[i]).price > T(x).price
                     THEN dear \union {Id(x)} ELSE dear
          /\ left' = [q \in Order |->
                        IF q = x THEN IF stays THEN rest ELSE 0
                        ELSE left[q] - SumFunctionOnSet(
                               [i \in 1..Len(ms) |-> Trades(x, ms)[i].quantity],
                               {i \in 1..Len(ms) : ms[i] = q})]
          /\ resting' = (resting \ done) \union (IF stays THEN {x} ELSE {})
          /\ events' = events \o <<Says("accepted", x)>> \o Trades(x, ms)
                         \o (IF atMark THEN <<Says("outside", x), Says("filled", x)>>
                             ELSE IF rest = 0 THEN <<Says("filled", x)>>
                             ELSE IF stays THEN <<>> ELSE <<Says("canceled", x)>>)
  BY DEF EnginePlaces
<1> DEFINE n == Len(ms)
           t == Trades(x, ms)
           rest == LeftAfter(x, ms, n)
           stays == rest > 0 /\ Rests(x)
           Q == T(x).quantity
           a == <<Says("accepted", x)>>
           last == IF atMark THEN <<Says("outside", x), Says("filled", x)>>
                   ELSE IF rest = 0 THEN <<Says("filled", x)>>
                   ELSE IF stays THEN <<>> ELSE <<Says("canceled", x)>>
           b == a \o t
           new == b \o last
<1>1. /\ t \in Seq(Message) /\ Len(t) = n /\ n \in Nat
      /\ \A i \in 1..n :
           /\ Fair(t[i]) /\ t[i].type = "trade" /\ t[i].order = x /\ t[i].maker = ms[i]
           /\ ms[i] \in resting /\ t[i].quantity \in 1..left[ms[i]]
           /\ Volume(t, ms[i]) = t[i].quantity
      /\ Volume(t, x) = Q - rest
      /\ \A q \in Order : q # x =>
           /\ Volume(t, q) = Given(x, ms, q)
           /\ (\A i \in 1..n : ms[i] # q) => Volume(t, q) = 0
  <2>1. \A q \in resting : left[q] > 0
    OBVIOUS
  <2>2. n \in Nat
    BY <2>1, MakersMeet
  <2> HIDE DEF n
  <2> HIDE DEF t
  <2>3. /\ Trades(x, ms) \in Seq(Message) /\ Len(Trades(x, ms)) = Len(ms)
        /\ \A i \in 1..Len(ms) :
             /\ Fair(Trades(x, ms)[i]) /\ Trades(x, ms)[i].type = "trade"
             /\ Trades(x, ms)[i].order = x /\ Trades(x, ms)[i].maker = ms[i]
             /\ ms[i] \in resting
             /\ Trades(x, ms)[i].quantity \in 1..left[ms[i]]
             /\ Volume(Trades(x, ms), ms[i]) = Trades(x, ms)[i].quantity
        /\ Volume(Trades(x, ms), x) = T(x).quantity - LeftAfter(x, ms, Len(ms))
    BY <2>1, TradesTell
  <2>4. \A q \in Order \ {x} :
             /\ Volume(Trades(x, ms), q) = Given(x, ms, q)
             /\ (\A i \in 1..Len(ms) : ms[i] # q) => Volume(Trades(x, ms), q) = 0
    BY <2>1, TradesTell
  <2>5. \A q \in Order : q # x => q \in Order \ {x}
    OBVIOUS
  <2> QED BY <2>2, <2>3, <2>4, <2>5 DEF n, t
<1>2. rest \in 0..Q /\ Q \in Nat /\ Q > 0
  <2>1. \A q \in resting : left[q] > 0
    OBVIOUS
  <2>2. \A i \in 0..Len(ms) : LeftAfter(x, ms, i) \in 0..T(x).quantity
    BY <2>1, MakersMeet
  <2> QED BY <1>1, <2>2, TermsType
<1>3. /\ Says("accepted", x).type = "accepted" /\ Says("accepted", x).order = x
      /\ Says("accepted", x).maker = x /\ Fair(Says("accepted", x))
      /\ a \in Seq(Message) /\ \A q : Volume(a, q) = 0
  BY SaysType
<1>4. Len(a) = 1 /\ a[1] = Says("accepted", x)
  OBVIOUS
<1>5. \A type \in {"outside", "filled", "canceled"} :
        /\ Says(type, x) \in Message /\ Fair(Says(type, x)) /\ Says(type, x).type = type
        /\ Says(type, x).order = x /\ Says(type, x).maker = x
        /\ \A q : Lots(Says(type, x), q) = 0
  <2> DEFINE Plain(type) == /\ Says(type, x) \in Message /\ Fair(Says(type, x)) /\ Says(type, x).type = type
                            /\ Says(type, x).order = x /\ Says(type, x).maker = x
                            /\ \A q : Lots(Says(type, x), q) = 0
  <2>1. Plain("outside")
    BY SaysType
  <2>2. Plain("filled")
    BY SaysType
  <2>3. Plain("canceled")
    BY SaysType
  <2> HIDE DEF Plain
  <2>4. \A type \in {"outside", "filled", "canceled"} : Plain(type)
    BY <2>1, <2>2, <2>3
  <2> QED BY <2>4 DEF Plain
<1>6. /\ atMark => rest > 0 /\ x \in MayFillOutside
      /\ outside' = IF atMark THEN outside \union {x} ELSE outside
      /\ dear' = IF T(x).side = "buy" /\ \E i \in 1..n : T(ms[i]).price > T(x).price
                 THEN dear \union {Id(x)} ELSE dear
      /\ left' = [q \in Order |->
                    IF q = x THEN IF stays THEN rest ELSE 0
                    ELSE left[q] - SumFunctionOnSet([i \in 1..n |-> t[i].quantity],
                                                    {i \in 1..n : ms[i] = q})]
      /\ resting' = (resting \ {ms[i] : i \in {j \in 1..n : t[j].quantity = left[ms[j]]}})
                      \union (IF stays THEN {x} ELSE {})
      /\ events' = ((events \o a) \o t) \o last
  BY <1>0
<1> HIDE DEF n, t, a
<1>7. /\ last \in Seq(Message) /\ Len(last) \in 0..2
      /\ \A i \in 1..Len(last) :
           /\ Fair(last[i]) /\ last[i].order = x /\ last[i].maker = x
           /\ \A q : Lots(last[i], q) = 0
           /\ last[i].type \in {"outside", "filled", "canceled"}
           /\ last[i].type = "outside" => atMark
           /\ last[i].type = "filled" => i = Len(last) /\ (atMark \/ rest = 0)
           /\ last[i].type = "canceled" => i = Len(last) /\ ~stays /\ rest > 0 /\ ~atMark
      /\ Len(last) = 0 => stays /\ ~atMark
      /\ ~atMark /\ rest > 0 /\ ~stays => Len(last) = 1 /\ last[1].type = "canceled"
  <2>1. CASE atMark
    <3>1. last = <<Says("outside", x), Says("filled", x)>>
      BY <2>1
    <3> HIDE DEF last
    <3>2. /\ last \in Seq(Message) /\ Len(last) = 2
          /\ last[1] = Says("outside", x) /\ last[2] = Says("filled", x)
      BY <3>1, <1>5
    <3>3. \A i \in 1..Len(last) : i = 1 \/ i = 2
      BY <3>2
    <3> QED BY <1>5, <2>1, <3>2, <3>3
  <2>2. CASE ~atMark /\ rest = 0
    <3>1. last = <<Says("filled", x)>>
      BY <2>2
    <3> HIDE DEF last
    <3>2. last \in Seq(Message) /\ Len(last) = 1 /\ last[1] = Says("filled", x)
      BY <3>1, <1>5
    <3>3. \A i \in 1..Len(last) : i = 1
      BY <3>2
    <3> QED BY <1>5, <2>2, <3>2, <3>3
  <2>3. CASE ~atMark /\ rest # 0 /\ stays
    <3>1. last = <<>>
      BY <2>3
    <3> HIDE DEF last
    <3>2. last \in Seq(Message) /\ Len(last) = 0 /\ 1..Len(last) = {}
      BY <3>1
    <3> QED BY <2>3, <3>2
  <2>4. CASE ~atMark /\ rest # 0 /\ ~stays
    <3>1. last = <<Says("canceled", x)>>
      BY <2>4
    <3> HIDE DEF last
    <3>2. last \in Seq(Message) /\ Len(last) = 1 /\ last[1] = Says("canceled", x)
      BY <3>1, <1>5
    <3>3. \A i \in 1..Len(last) : i = 1
      BY <3>2
    <3>4. rest > 0
      BY <1>2, <2>4
    <3> QED BY <1>5, <2>4, <3>2, <3>3, <3>4
  <2> QED BY <2>1, <2>2, <2>3, <2>4
<1> HIDE DEF last, rest, Q
<1>8. /\ b \in Seq(Message) /\ Len(b) = 1 + n
      /\ \A i \in 1..(1 + n) : b[i] = IF i <= 1 THEN a[i] ELSE t[i - 1]
      /\ \A q : Volume(b, q) = Volume(t, q)
  <2>1. /\ a \o t \in Seq(Message) /\ Len(a \o t) = Len(a) + Len(t)
        /\ \A i \in 1..Len(a \o t) : (a \o t)[i] = IF i <= Len(a) THEN a[i] ELSE t[i - Len(a)]
    BY <1>1, <1>3, VolumeConcat
  <2>2. ASSUME NEW q
        PROVE  Volume(a \o t, q) = Volume(t, q)
    <3>1. Volume(a \o t, q) = Volume(a, q) + Volume(t, q)
      BY <1>1, <1>3, VolumesAdd
    <3>2. Volume(t, q) \in Nat
      BY <1>1, VolumeType
    <3> QED BY <1>3, <3>1, <3>2
  <2> QED BY <1>1, <1>4, <2>1, <2>2
<1>c. new = b \o last
  OBVIOUS
<1>d. ((events \o a) \o t) \o last = events \o new
  <2> DEFINE ea == events \o a
             eab == ea \o t
  <2>1. a \in Seq(Message) /\ t \in Seq(Message) /\ last \in Seq(Message) /\ events \in Seq(Message)
    BY <1>1, <1>3, <1>7
  <2>2. b = a \o t
    OBVIOUS
  <2>6. new = b \o last
    OBVIOUS
  <2>3. ea = events \o a
    OBVIOUS
  <2>4. eab = ea \o t
    OBVIOUS
  <2> HIDE DEF ea, eab, b, new
  <2>5. eab \o last = events \o new
    <3>1. b \in Seq(Message) /\ ea \o t = events \o b
      BY <2>1, <2>2, <2>3, Regroup
    <3>2. eab = events \o b
      BY <2>4, <3>1
    <3>3. ASSUME NEW f \in Seq(Message), NEW g \in Seq(Message), NEW h \in Seq(Message)
          PROVE  (f \o g) \o h = f \o (g \o h)
      BY ConcatAssociative
    <3>4. (events \o b) \o last = events \o (b \o last)
      BY <2>1, <3>1, <3>3
    <3> QED BY <2>6, <3>2, <3>4
  <2> QED BY <2>5 DEF eab, ea
<1> HIDE DEF b, new
<1>9. /\ new \in Seq(Message) /\ Len(new) = (1 + n) + Len(last)
      /\ \A i \in 1..Len(new) : new[i] = IF i <= 1 + n THEN b[i] ELSE last[i - (1 + n)]
      /\ \A q : Volume(new, q) = Volume(t, q)
  <2>0. b \in Seq(Message) /\ \A q : Volume(b, q) = Volume(t, q)
    BY <1>8
  <2>1. /\ b \o last \in Seq(Message) /\ Len(b \o last) = Len(b) + Len(last)
        /\ \A i \in 1..Len(b \o last) :
             (b \o last)[i] = IF i <= Len(b) THEN b[i] ELSE last[i - Len(b)]
    BY <1>7, <2>0, VolumeConcat
  <2>2. ASSUME NEW q
        PROVE  Volume(b \o last, q) = Volume(t, q)
    <3>1. Volume(b \o last, q) = Volume(b, q) + Volume(last, q)
      BY <1>7, <2>0, VolumesAdd
    <3>2. \A i \in 1..Len(last) : Lots(last[i], q) = 0
      BY <1>7
    <3>3. Volume(last, q) = 0
      BY <1>7, <3>2, VolumeNone
    <3>4. Volume(t, q) \in Nat
      BY <1>1, VolumeType
    <3> QED BY <2>0, <3>1, <3>3, <3>4
  <2>3. new = b \o last /\ Len(b) = 1 + n
    BY <1>8, <1>c
  <2>4. new \in Seq(Message) /\ Len(new) = (1 + n) + Len(last)
    BY <2>1, <2>3
  <2>5. \A i \in 1..Len(new) : new[i] = IF i <= 1 + n THEN b[i] ELSE last[i - (1 + n)]
    BY <2>1, <2>3
  <2>6. \A q : Volume(new, q) = Volume(t, q)
    BY <2>2, <2>3
  <2> QED BY <2>4, <2>5, <2>6
<1>10. events' = events \o new
  BY <1>6, <1>d
<1>11. ASSUME NEW i \in 1..Len(new)
       PROVE  \/ i = 1 /\ new[i] = Says("accepted", x)
              \/ \E j \in 1..n : i = 1 + j /\ new[i] = t[j]
              \/ \E j \in 1..Len(last) : i = (1 + n) + j /\ new[i] = last[j]
  <2>1. i \in Nat /\ i >= 1 /\ Len(last) \in Nat /\ n \in Nat /\ i <= (1 + n) + Len(last)
    BY <1>1, <1>7, <1>9
  <2>2. CASE i = 1
    <3>1. i \in 1..(1 + n) /\ i <= 1 + n
      BY <2>1, <2>2
    <3>2. new[i] = a[i]
      <4>1. new[i] = b[i]
        BY <1>9, <3>1
      <4> QED BY <1>8, <2>2, <3>1, <4>1
    <3> QED BY <1>4, <2>2, <3>2
  <2>3. CASE i > 1 /\ i <= 1 + n
    <3>1. i \in 1..(1 + n) /\ ~(i <= 1) /\ i - 1 \in 1..n /\ i = 1 + (i - 1)
      BY <2>1, <2>3
    <3>2. new[i] = t[i - 1]
      BY <1>8, <1>9, <2>3, <3>1
    <3> QED BY <3>1, <3>2
  <2>4. CASE i > 1 + n
    <3>1. ~(i <= 1 + n) /\ i - (1 + n) \in 1..Len(last) /\ i = (1 + n) + (i - (1 + n))
      BY <2>1, <2>4
    <3>2. new[i] = last[i - (1 + n)]
      BY <1>9, <3>1
    <3> QED BY <3>1, <3>2
  <2>5. i = 1 \/ (i > 1 /\ i <= 1 + n) \/ i > 1 + n
    BY <2>1
  <2> QED BY <2>2, <2>3, <2>4, <2>5
<1>12. /\ resting' \subseteq Order /\ outside \subseteq outside' /\ outside' \subseteq MayFillOutside
       /\ x \in resting' <=> stays
       /\ x \in outside' \/ ~atMark
  BY <1>1, <1>6
<1>13. left'[x] = (IF stays THEN rest ELSE 0) /\ left'[x] \in Nat
  <2>1. left'[x] = (IF stays THEN rest ELSE 0)
    BY <1>6
  <2> QED BY <1>2, <2>1
<1>14. ASSUME NEW q \in Order, q # x
       PROVE  /\ left'[q] = left[q] - Volume(t, q) /\ left'[q] \in Nat
              /\ q \in resting' <=> left'[q] > 0
  <2>1. left'[q] = left[q] - Volume(t, q) /\ left[q] \in Nat
    <3>1. left'[q] = left[q] - Given(x, ms, q)
      BY <1>6, <1>14 DEF Given, n, t
    <3> QED BY <1>1, <1>14, <3>1
  <2>2. q \in resting' <=> q \in resting /\ ~\E j \in 1..n : t[j].quantity = left[ms[j]] /\ ms[j] = q
    BY <1>6, <1>14
  <2>3. CASE \A i \in 1..n : ms[i] # q
    <3>1. Volume(t, q) = 0
      BY <1>1, <1>14, <2>3
    <3> QED BY <2>1, <2>2, <2>3, <3>1
  <2>4. ASSUME NEW j \in 1..n, ms[j] = q
        PROVE  left'[q] \in Nat /\ (q \in resting' <=> left'[q] > 0)
    <3>1. q \in resting /\ Volume(t, q) \in 1..left[q]
      BY <1>1, <2>4
    <3>2. \A i \in 1..n : ms[i] = q => t[i].quantity = Volume(t, q)
      BY <1>1
    <3>3. q \in resting' <=> Volume(t, q) # left[q]
      BY <2>2, <2>4, <3>1, <3>2
    <3> QED BY <2>1, <3>1, <3>3
  <2> QED BY <2>1, <2>3, <2>4
<1>15. \A q \in Order : q \in resting' <=> left'[q] > 0
  <2>1. x \in resting' <=> left'[x] > 0
    BY <1>2, <1>12, <1>13
  <2> QED BY <1>14, <2>1
<1>16. left' \in [Order -> Nat]
  <2>1. DOMAIN left' = Order /\ left' = [q \in DOMAIN left' |-> left'[q]]
    BY <1>6
  <2>2. \A q \in Order : left'[q] \in Nat
    BY <1>13, <1>14
  <2> QED BY <2>1, <2>2
<1>17. ASSUME NEW i \in 1..Len(new)
       PROVE  /\ Fair(new[i]) /\ new[i].order = x /\ (new[i].maker = x \/ new[i].maker \in resting)
              /\ new[i].type = "accepted" => i = 1
              /\ new[i].type = "outside" => x \in outside'
              /\ new[i].type \in Closing => i = Len(new) /\ x \notin resting' /\ rest > 0 /\ ~stays
              /\ new[i].type = "filled" => i = Len(new) /\ (x \in outside' \/ rest = 0)
  <2>1. CASE i = 1 /\ new[i] = Says("accepted", x)
    BY <1>3, <2>1 DEF Closing
  <2>2. ASSUME NEW j \in 1..n, i = 1 + j, new[i] = t[j]
        PROVE  <1>17!2
    BY <1>1, <2>2 DEF Closing
  <2>3. ASSUME NEW j \in 1..Len(last), i = (1 + n) + j, new[i] = last[j]
        PROVE  <1>17!2
    <3>1. j = Len(last) => i = Len(new)
      BY <1>9, <2>3
    <3> QED BY <1>7, <1>12, <2>3, <3>1 DEF Closing
  <2> QED BY <1>11, <2>1, <2>2, <2>3
<1>a. dear \subseteq dear' /\ dear' \subseteq Order
  BY <1>6, TermsType
<1>b. ASSUME NEW i \in 1..Len(new)
      PROVE  Cheap(new[i], dear')
  <2> SUFFICES ASSUME new[i].type = "trade", T(new[i].order).side = "buy", Id(new[i].order) \notin dear'
               PROVE  new[i].price <= T(new[i].order).price
    BY DEF Cheap
  <2>1. new[i].order = x /\ new[i].price = T(new[i].maker).price
    BY <1>17 DEF Fair
  <2>2. \E j \in 1..n : new[i].maker = ms[j]
    <3>1. new[i] # Says("accepted", x)
      BY <1>3
    <3>2. \A j \in 1..Len(last) : new[i] # last[j]
      BY <1>7
    <3>3. \E j \in 1..n : new[i] = t[j]
      BY <1>11, <3>1, <3>2
    <3> QED BY <1>1, <3>3
  <2> PICK j \in 1..n : new[i].maker = ms[j]
    BY <2>2
  <2>3. ~(T(ms[j]).price > T(x).price)
    BY <1>6, <2>1
  <2>4. T(ms[j]).price \in Nat /\ T(x).price \in Nat
    BY <1>1, TermsType
  <2> QED BY <2>1, <2>3, <2>4
<1>18. ASSUME NEW q \in Order, q # x
       PROVE  left'[q] + Volume(new, q) = left[q]
  <2>1. Volume(t, q) \in Nat /\ left[q] \in Nat
    BY <1>1, VolumeType
  <2>2. left'[q] = left[q] - Volume(t, q)
    BY <1>14, <1>18
  <2>3. Volume(new, q) = Volume(t, q)
    BY <1>9
  <2> QED BY <2>1, <2>2, <2>3
<1>19. Tells(x, new)
  <2>1. rest = 0 => x \notin resting'
    BY <1>12
  <2> QED BY <1>9, <1>10, <1>12, <1>15, <1>16, <1>17, <1>18, <1>a, <1>b, <2>1
         DEF Tells
<1>20. new # <<>>
  <2>1. Len(new) > 0
    BY <1>1, <1>7, <1>9
  <2> QED BY <2>1
<1>21. Volume(new, x) = Q - rest
  BY <1>1, <1>9
<1>22. left'[x] + Volume(new, x) <= Q
  BY <1>2, <1>13, <1>21
<1>23. Fills(new) => x \in outside' \/ Volume(new, x) = Q
  BY <1>2, <1>17, <1>21 DEF Fills
<1>24. CASE x \in outside'
  BY <1>19, <1>20, <1>22, <1>23, <1>24 DEF Places, Q
<1>25. CASE ~atMark /\ rest > 0 /\ ~stays
  <2>1. Len(last) = 1 /\ last[1].type = "canceled" /\ Len(new) = (1 + n) + 1
    BY <1>7, <1>9, <1>25
  <2>2. Len(new) \in 1..Len(new) /\ ~(Len(new) <= 1 + n) /\ Len(new) - (1 + n) = 1
    BY <1>1, <2>1
  <2>3. new[Len(new)] = last[1]
    BY <1>9, <2>2
  <2>4. Closes(new)
    BY <2>1, <2>2, <2>3 DEF Closes, Closing
  <2>5. Volume(new, x) < Q
    BY <1>2, <1>21, <1>25
  <2> QED BY <1>19, <1>20, <1>22, <1>23, <2>4, <2>5 DEF Places, Q
<1>26. CASE rest = 0 \/ stays
  <2>1. ~Closes(new)
    BY <1>2, <1>17, <1>26 DEF Closes
  <2>2. left'[x] + Volume(new, x) = Q
    BY <1>2, <1>13, <1>21, <1>26
  <2> QED BY <1>19, <1>20, <1>22, <1>23, <2>1, <2>2 DEF Places, Q
<1> QED BY <1>2, <1>12, <1>24, <1>25, <1>26

-----------------------------------------------------------------------------
(* The types, with what ties the parts of the state together. *)

Account == [available: Int, locked: Nat]

TypedTables ==
    /\ orders \in [Order -> RowValue]
    /\ Row \subseteq DOMAIN balance /\ DOMAIN balance \subseteq AnyRow
    /\ balance \in [DOMAIN balance -> Account]
    /\ placing \in [Order -> Stations]
    /\ calls \in [Order -> {"new", "send", "mark", "done"}]
    /\ commands \in Seq(Command) /\ overtaken \subseteq MayCancel
    /\ \A x \in Order : /\ IsExternal(x) => calls[x] # "mark"
                        /\ calls[x] \in {"send", "mark"} => x \in MayCancel

TypedMoney ==
    /\ tx \in [AnyRow -> Int] /\ held \subseteq AnyRow /\ fees \in Nat
    /\ abroad \in [Asset -> Int] /\ crashes \in 0..MaxCrashes
    /\ writer.at \notin TradeSteps => tx = NoTx

TypedBook ==
    /\ left \in [Order -> Nat] /\ resting \subseteq Order /\ outside \subseteq MayFillOutside
    /\ \A x \in Order : x \in resting <=> left[x] > 0
    /\ dear \subseteq Order

TypedFeed ==
    /\ events \in Seq(Message)
    /\ \A i \in 1..Len(events) : Fair(events[i]) /\ Cheap(events[i], dear)
    /\ writer \in [at: Steps, seen: RowValue]
    /\ writer.at # "idle" => events # <<>>
    /\ writer.at \in {"unlock", "close"} => Event.type \in Closing
    /\ writer.at \in TradeSteps => Event.type = "trade"

Typed == TypedTables /\ TypedMoney /\ TypedBook /\ TypedFeed

\* An order whose PLACE is in the stream or has been, one whose PLACE is there
\* still, one that an event names; an order with a row that is placed once.
Offers(cs, kind, x) == \E i \in 1..Len(cs) : cs[i].op = kind /\ cs[i].order = x
Sent(x)     == placing[x] = "done"
Waiting(x)  == Offers(commands, "place", x)
Mentions(es, x) == \E i \in 1..Len(es) : Names(es[i], x)
Named(x)    == Mentions(events, x)
Plain(x)    == ~IsExternal(x) /\ Id(x) = x /\ ~Doubled(x)

\* What the calls of an order have come to, and whether it has a row.
RowedAt(x) ==
    /\ placing[x] \in {"new", "insert"} /\ ~IsExternal(x) => orders[x].status = "none"
    /\ placing[x] \in {"record", "send", "done", "owed"} /\ ~IsExternal(x) => orders[Id(x)].status # "none"
    /\ IsExternal(x) \/ Id(x) # x => placing[x] \in {"new", "done"}
    /\ calls[x] # "new" /\ ~IsExternal(x) => orders[x].status # "none"
    /\ calls[x] # "new" /\ IsExternal(x) => Sent(x)
    /\ crashes = 0 => placing[x] \notin {"gone", "owed"}
Rowed == \A x \in Order : RowedAt(x)

\* Every order is placed once, ahead of any other command for it unless that has
\* overtaken it, and before anything happens to it.
Unsent ==
    \A x \in Order : ~Sent(x) => ~Waiting(x) /\ (Offers(commands, "cancel", x) => x \in overtaken)
Untouched ==
    \A x \in Order : ~Sent(x) \/ Waiting(x) =>
        x \notin resting /\ ~Named(x) /\ (Plain(x) => orders[x].filled = 0)
PlacedFirst ==
    \A i, j \in 1..Len(commands) :
        j < i /\ commands[i].op = "place" /\ commands[j].order = commands[i].order =>
            commands[j].op = "cancel" /\ commands[i].order \in overtaken
Once == Unsent /\ Untouched /\ PlacedFirst

\* Only itself can stand for an order that is placed once.
LEMMA OnlyItself ==
    ASSUME NEW x, NEW y \in Order, Plain(x), Sent(y), Id(y) = x
    PROVE  y = x
BY DEF Plain, Doubled, Again, Sent

\* A sequence of commands with one more, and with one less.
LEMMA CommandsGrow ==
    ASSUME NEW cs \in Seq(Command), NEW c \in Command
    PROVE  /\ Append(cs, c) \in Seq(Command) /\ Len(Append(cs, c)) = Len(cs) + 1 /\ Len(cs) \in Nat
           /\ \A i \in 1..Len(cs) : Append(cs, c)[i] = cs[i] /\ cs[i] \in Command
           /\ Append(cs, c)[Len(cs) + 1] = c
           /\ \A kind, x : Offers(Append(cs, c), kind, x) <=> Offers(cs, kind, x) \/ (c.op = kind /\ c.order = x)
<1>1. /\ Append(cs, c) \in Seq(Command) /\ Len(Append(cs, c)) = Len(cs) + 1 /\ Len(cs) \in Nat
      /\ \A i \in 1..Len(cs) : Append(cs, c)[i] = cs[i] /\ cs[i] \in Command
      /\ Append(cs, c)[Len(cs) + 1] = c
  BY AppendProperties, LenProperties, ElementOfSeq
<1> DEFINE ds == Append(cs, c)
<1> HIDE DEF ds
<1>2. ASSUME NEW kind, NEW x
      PROVE  Offers(ds, kind, x) <=> Offers(cs, kind, x) \/ (c.op = kind /\ c.order = x)
  <2>1. Len(cs) + 1 \in 1..(Len(cs) + 1) /\ \A i \in 1..Len(cs) : i \in 1..(Len(cs) + 1)
    BY <1>1
  <2>2. \A i \in 1..(Len(cs) + 1) : i \in 1..Len(cs) \/ i = Len(cs) + 1
    BY <1>1
  <2>3. /\ \A i \in 1..Len(cs) : ds[i] = cs[i] /\ i \in 1..Len(ds)
        /\ Len(cs) + 1 \in 1..Len(ds) /\ ds[Len(cs) + 1] = c
        /\ \A i \in 1..Len(ds) : i \in 1..Len(cs) \/ i = Len(cs) + 1
    BY <1>1, <2>1, <2>2 DEF ds
  <2>4. ASSUME NEW i \in 1..Len(ds), ds[i].op = kind, ds[i].order = x
        PROVE  Offers(cs, kind, x) \/ (c.op = kind /\ c.order = x)
    <3>1. CASE i = Len(cs) + 1
      BY <2>3, <2>4, <3>1
    <3>2. CASE i \in 1..Len(cs)
      <4>1. cs[i].op = kind /\ cs[i].order = x
        BY <2>3, <2>4, <3>2
      <4>2. Offers(cs, kind, x)
        BY <3>2, <4>1 DEF Offers
      <4> QED BY <4>2
    <3> QED BY <2>3, <3>1, <3>2
  <2>5. Offers(cs, kind, x) => Offers(ds, kind, x)
    BY <2>3 DEF Offers
  <2>6. c.op = kind /\ c.order = x => Offers(ds, kind, x)
    BY <2>3 DEF Offers
  <2> QED BY <2>4, <2>5, <2>6 DEF Offers
<1> QED BY <1>1, <1>2 DEF ds

\* The oldest command is taken off.
LEMMA CommandsShrink ==
    ASSUME NEW cs \in Seq(Command), cs # <<>>
    PROVE  /\ Head(cs) \in Command /\ Head(cs) = cs[1] /\ 1 \in 1..Len(cs) /\ Len(cs) \in Nat
           /\ Tail(cs) \in Seq(Command) /\ Len(Tail(cs)) = Len(cs) - 1
           /\ \A i \in 1..Len(Tail(cs)) : i + 1 \in 1..Len(cs) /\ Tail(cs)[i] = cs[i + 1]
           /\ \A kind, x : Offers(cs, kind, x)
                           <=> Offers(Tail(cs), kind, x) \/ (Head(cs).op = kind /\ Head(cs).order = x)
<1>1. Len(cs) \in Nat /\ Len(cs) > 0 /\ 1 \in 1..Len(cs) /\ Head(cs) = cs[1] /\ Head(cs) \in Command
  OBVIOUS
<1>2. /\ Tail(cs) \in Seq(Command) /\ Len(Tail(cs)) = Len(cs) - 1
      /\ \A i \in 1..Len(Tail(cs)) : Tail(cs)[i] = cs[i + 1]
  BY HeadTailProperties
<1>3. \A i \in 1..Len(Tail(cs)) : i + 1 \in 1..Len(cs)
  BY <1>1, <1>2
<1> DEFINE ds == Tail(cs)
           h == Head(cs)
<1>4. Len(ds) = Len(cs) - 1 /\ (\A i \in 1..Len(ds) : ds[i] = cs[i + 1] /\ i + 1 \in 1..Len(cs)) /\ h = cs[1]
  BY <1>1, <1>2, <1>3
<1> HIDE DEF ds, h
<1>5. ASSUME NEW kind, NEW x
      PROVE  Offers(cs, kind, x) <=> Offers(ds, kind, x) \/ (h.op = kind /\ h.order = x)
  <2>1. ASSUME NEW i \in 1..Len(cs), cs[i].op = kind /\ cs[i].order = x
        PROVE  Offers(ds, kind, x) \/ (h.op = kind /\ h.order = x)
    <3>1. i = 1 \/ (i - 1 \in 1..Len(ds) /\ (i - 1) + 1 = i)
      BY <1>1, <1>4
    <3>2. CASE i = 1
      BY <1>4, <2>1, <3>2
    <3>3. CASE i - 1 \in 1..Len(ds) /\ (i - 1) + 1 = i
      <4> PICK j \in 1..Len(ds) : j = i - 1
        BY <3>3
      <4>1. ds[j] = cs[i]
        BY <1>4, <3>3
      <4>2. ds[j].op = kind /\ ds[j].order = x
        BY <2>1, <4>1
      <4>3. Offers(ds, kind, x)
        BY <4>2 DEF Offers
      <4> QED BY <4>3
    <3> QED BY <3>1, <3>2, <3>3
  <2>2. Offers(ds, kind, x) => Offers(cs, kind, x)
    BY <1>4 DEF Offers
  <2>3. h.op = kind /\ h.order = x => Offers(cs, kind, x)
    BY <1>1, <1>4 DEF Offers
  <2> QED BY <2>1, <2>2, <2>3 DEF Offers
<1> QED BY <1>1, <1>2, <1>3, <1>5 DEF ds, h

\* The messages in hand, with more behind and with the first one done.
LEMMA MessagesGrow ==
    ASSUME NEW es \in Seq(Message), NEW fs \in Seq(Message)
    PROVE  \A x : Mentions(es \o fs, x) <=> Mentions(es, x) \/ Mentions(fs, x)
<1> DEFINE gs == es \o fs
<1>1. /\ Len(es) \in Nat /\ Len(fs) \in Nat /\ Len(gs) = Len(es) + Len(fs)
      /\ \A i \in 1..Len(gs) : gs[i] = IF i <= Len(es) THEN es[i] ELSE fs[i - Len(es)]
  BY VolumeConcat, LenProperties
<1> HIDE DEF gs
<1>2. ASSUME NEW x
      PROVE  Mentions(gs, x) <=> Mentions(es, x) \/ Mentions(fs, x)
  <2>1. ASSUME NEW i \in 1..Len(gs), Names(gs[i], x)
        PROVE  Mentions(es, x) \/ Mentions(fs, x)
    <3>1. (i <= Len(es) /\ i \in 1..Len(es)) \/ (~(i <= Len(es)) /\ i - Len(es) \in 1..Len(fs))
      BY <1>1
    <3> QED BY <1>1, <2>1, <3>1 DEF Mentions
  <2>2. ASSUME NEW i \in 1..Len(es), Names(es[i], x)
        PROVE  Mentions(gs, x)
    <3>1. i <= Len(es) /\ i \in 1..Len(gs)
      BY <1>1
    <3> QED BY <1>1, <2>2, <3>1 DEF Mentions
  <2>3. ASSUME NEW i \in 1..Len(fs), Names(fs[i], x)
        PROVE  Mentions(gs, x)
    <3>1. ~(Len(es) + i <= Len(es)) /\ Len(es) + i \in 1..Len(gs) /\ (Len(es) + i) - Len(es) = i
      BY <1>1
    <3> QED BY <1>1, <2>3, <3>1 DEF Mentions
  <2> QED BY <2>1, <2>2, <2>3 DEF Mentions
<1> QED BY <1>2 DEF gs

\* The message in hand is done.
LEMMA MessagesShrink ==
    ASSUME NEW es \in Seq(Message), es # <<>>
    PROVE  \A x : Mentions(es, x) <=> Names(Head(es), x) \/ Mentions(Tail(es), x)
<1> DEFINE ds == Tail(es)
           h == Head(es)
<1>1. /\ Len(es) \in Nat /\ 1 \in 1..Len(es) /\ h = es[1] /\ Len(ds) = Len(es) - 1
      /\ \A i \in 1..Len(ds) : i + 1 \in 1..Len(es) /\ ds[i] = es[i + 1]
  BY VolumeTail
<1> HIDE DEF ds, h
<1>2. ASSUME NEW x
      PROVE  Mentions(es, x) <=> Names(h, x) \/ Mentions(ds, x)
  <2>1. ASSUME NEW i \in 1..Len(es), Names(es[i], x)
        PROVE  Names(h, x) \/ Mentions(ds, x)
    <3>1. i = 1 \/ (i - 1 \in 1..Len(ds) /\ (i - 1) + 1 = i)
      BY <1>1
    <3> QED BY <1>1, <2>1, <3>1 DEF Mentions
  <2> QED BY <1>1, <2>1 DEF Mentions
<1> QED BY <1>2 DEF ds, h

\* Messages that do not name an order tell nothing of it.
LEMMA VolumeUnnamed ==
    ASSUME NEW es \in Seq(Message), NEW x, ~Mentions(es, x)
    PROVE  Volume(es, x) = 0
<1>1. \A i \in 1..Len(es) : Lots(es[i], x) = 0
  BY DEF Mentions, Lots
<1> QED BY <1>1, VolumeNone

\* The new messages name the order in hand and orders of the book.
LEMMA NewNames ==
    ASSUME NEW x, NEW new, Tells(x, new)
    PROVE  /\ \A y : Mentions(new, y) => y = x \/ y \in resting
           /\ new # <<>> => Mentions(new, x)
<1>1. \A i \in 1..Len(new) : new[i].order = x /\ (new[i].maker = x \/ new[i].maker \in resting)
  BY DEF Tells
<1>2. new # <<>> => 1 \in 1..Len(new)
  BY DEF Tells
<1> QED BY <1>1, <1>2 DEF Mentions, Names

\* An order's row when its status is set.
LEMMA StatusSet ==
    ASSUME orders \in [Order -> RowValue], NEW x \in Order, NEW s \in Statuses, SetStatus(x, s)
    PROVE  /\ orders' \in [Order -> RowValue]
           /\ \A y \in Order : /\ y # x => orders'[y] = orders[y]
                               /\ orders'[y].filled = orders[y].filled
                               /\ orders'[y].status = "none" <=> orders[y].status = "none" \/ (y = x /\ s = "none")
           /\ orders'[x].status = IF orders[x].status = "none" THEN "none" ELSE s
<1>1. \A y \in Order : orders[y] \in RowValue /\ orders[y].status \in Statuses /\ orders[y].filled \in Nat
  BY DEF RowValue
<1>2. CASE orders[x].status = "none"
  <2>1. orders' = orders
    BY <1>2 DEF SetStatus
  <2> QED BY <1>1, <1>2, <2>1
<1>3. CASE orders[x].status # "none"
  <2>1. orders' = [orders EXCEPT ![x].status = s]
    BY <1>3 DEF SetStatus
  <2>2. /\ orders' \in [Order -> RowValue]
        /\ \A y \in Order : y # x => orders'[y] = orders[y]
        /\ orders'[x].status = s /\ orders'[x].filled = orders[x].filled
    BY <1>1, <2>1 DEF RowValue
  <2> QED BY <1>1, <1>3, <2>2
<1> QED BY <1>2, <1>3

\* What the engine does with the oldest command: it is about that order, or,
\* a cancel, about one that is the same by its id.
LEMMA EngineTells ==
    ASSUME Typed, Untouched, EngineStep
    PROVE  \E x \in Order : \E new :
             /\ commands # <<>> /\ Tells(x, new)
             /\ \/ Head(commands).op = "place" /\ Head(commands).order = x /\ x \notin resting /\ Places(x, new)
                \/ /\ Head(commands).op = "cancel" /\ Head(commands).order = Id(x) /\ Id(Id(x)) = Id(x)
                   /\ x \notin resting => Id(x) = x
                   /\ Cancels(x, new)
             /\ commands' = Tail(commands)
             /\ UNCHANGED <<money, orders, api, writer, crashes>>
<1>1. commands # <<>> /\ commands \in Seq(Command)
  BY DEF EngineStep, Typed, TypedTables
<1>2. /\ Head(commands) \in Command
      /\ \A kind, x : Head(commands).op = kind /\ Head(commands).order = x => Offers(commands, kind, x)
  BY <1>1, CommandsShrink
<1>3. PICK x \in Order : x = Head(commands).order
  BY <1>2 DEF Command
<1>4. /\ Head(commands).op \in {"place", "cancel"}
      /\ Head(commands).op = "cancel" => x \in MayCancel
  BY <1>2, <1>3 DEF Command
<1>5. /\ left \in [Order -> Nat] /\ resting \subseteq Order /\ outside \subseteq MayFillOutside
      /\ dear \subseteq Order
      /\ \A q \in Order : q \in resting <=> left[q] > 0
      /\ events \in Seq(Message)
  BY DEF Typed, TypedBook, TypedFeed
<1>6. commands' = Tail(commands) /\ UNCHANGED <<money, orders, api, writer, crashes>>
  BY DEF EngineStep
<1>7. IF Head(commands).op = "cancel" THEN EngineCancels(x)
      ELSE IF Refused(x) THEN EngineRejects(x)
      ELSE EnginePlaces(x)
  BY <1>3 DEF EngineStep
<1>8. CASE Head(commands).op = "cancel"
  <2>1. Id(x) = x
    BY <1>4, <1>8, SettlementAssumption DEF Id
  <2> PICK y \in Order : Id(y) = x /\ (y \notin resting => y = x) /\ \E new : Cancels(y, new)
    BY <1>5, <1>7, <1>8, <2>1, CancelTells
  <2> QED BY <1>1, <1>3, <1>6, <1>8, <2>1 DEF Cancels
<1>9. CASE Head(commands).op = "place"
  <2>1. x \notin resting
    BY <1>2, <1>3, <1>9 DEF Untouched, Waiting
  <2>2. \E new : Places(x, new)
    BY <1>5, <1>7, <1>9, <2>1, RejectTells, MatchTells
  <2> QED BY <1>1, <1>3, <1>6, <1>9, <2>1, <2>2 DEF Places
<1> QED BY <1>4, <1>8, <1>9

\* Prices, quantities and fees are numbers, and so are their products.
LEMMA Products == \A m, n \in Nat : m * n \in Nat
OBVIOUS

\* What a trade costs, yields and is charged is a number.
LEMMA Amounts ==
    ASSUME NEW x \in Order, NEW e \in Message
    PROVE  /\ Debit(x, e) \in Nat /\ Credit(x, e) \in Nat /\ Fee(x, e) \in Nat
           /\ \A asset : Gain(x, e, asset) \in Int /\ GainAbroad(x, e, asset) \in Int
<1>1. e.price \in Nat /\ e.quantity \in Nat /\ e.price * e.quantity \in Nat
  BY Products DEF Message
<1>2. TakerFee * e.price * e.quantity \in Nat /\ MakerFee * e.price * e.quantity \in Nat
  <2>1. TakerFee * e.price \in Nat /\ MakerFee * e.price \in Nat
    BY <1>1, SettlementAssumption, Products
  <2> QED BY <1>1, <2>1, Products
<1>3. Debit(x, e) \in Nat /\ Credit(x, e) \in Nat
  BY <1>1 DEF Debit, Credit, Cost
<1>4. Fee(x, e) \in Nat
  BY <1>2 DEF Fee
<1> PICK m \in Nat : m = e.price * e.quantity
  BY <1>1
<1>5. \A asset : Gain(x, e, asset) \in Int
  BY <1>1, <1>4 DEF Gain
<1> QED BY <1>3, <1>4, <1>5 DEF GainAbroad

\* A row in which an amount is locked, and one in which it is released.
Locking(b, r, m)   == [b EXCEPT ![r].available = @ - m, ![r].locked = @ + m]
Releasing(b, r, m) == [b EXCEPT ![r].available = @ + m, ![r].locked = @ - m]

\* What locking does to a table of balances.
LEMMA RowLocks ==
    ASSUME NEW D, NEW b \in [D -> Account], NEW r \in D, NEW m \in Int, b[r].locked + m \in Nat,
           NEW c, c = Locking(b, r, m)
    PROVE  /\ c \in [D -> Account] /\ DOMAIN c = D
           /\ c[r].available = b[r].available - m /\ c[r].locked = b[r].locked + m
           /\ \A y \in D : y # r => c[y] = b[y]
<1>1. /\ b[r] \in Account /\ b[r].available \in Int /\ b[r].locked \in Nat
      /\ b[r] = [available |-> b[r].available, locked |-> b[r].locked]
  BY DEF Account
<1>2. DOMAIN c = D /\ \A y \in D : y # r => c[y] = b[y]
  BY DEF Locking
<1>3. c[r] = [available |-> b[r].available - m, locked |-> b[r].locked + m]
  BY <1>1 DEF Locking
<1>4. \A y \in D : c[y] \in Account
  BY <1>1, <1>2, <1>3 DEF Account
<1>5. c = [y \in D |-> c[y]]
  BY DEF Locking
<1> QED BY <1>2, <1>3, <1>4, <1>5

\* What releasing does to it.
LEMMA RowReleases ==
    ASSUME NEW D, NEW b \in [D -> Account], NEW r \in D, NEW m \in Int, b[r].locked - m \in Nat,
           NEW c, c = Releasing(b, r, m)
    PROVE  /\ c \in [D -> Account] /\ DOMAIN c = D
           /\ c[r].available = b[r].available + m /\ c[r].locked = b[r].locked - m
           /\ \A y \in D : y # r => c[y] = b[y]
<1>1. /\ b[r] \in Account /\ b[r].available \in Int /\ b[r].locked \in Nat
      /\ b[r] = [available |-> b[r].available, locked |-> b[r].locked]
  BY DEF Account
<1>2. DOMAIN c = D /\ \A y \in D : y # r => c[y] = b[y]
  BY DEF Releasing
<1>3. c[r] = [available |-> b[r].available + m, locked |-> b[r].locked - m]
  BY <1>1 DEF Releasing
<1>4. \A y \in D : c[y] \in Account
  BY <1>1, <1>2, <1>3 DEF Account
<1>5. c = [y \in D |-> c[y]]
  BY DEF Releasing
<1> QED BY <1>2, <1>3, <1>4, <1>5

\* A margin is a number of lots or their price.
LEMMA MarginType ==
    ASSUME NEW x \in Order, NEW lots \in Nat
    PROVE  Margin(x, lots) \in Nat
<1>1. T(x).price * lots \in Nat
  BY TermsType, Products
<1> QED BY <1>1 DEF Margin, Cost

\* The head of the events, while the writer has it in hand.
LEMMA InHandType ==
    ASSUME TypedFeed, events # <<>>
    PROVE  /\ Event \in Message /\ Event.order \in Order /\ Event.maker \in Order
           /\ Event.quantity \in Nat /\ Event.price \in Nat /\ Fair(Event) /\ Cheap(Event, dear)
           /\ Id(Event.order) \in Order /\ Id(Event.maker) \in Order
           /\ Event = events[1] /\ 1 \in 1..Len(events)
           /\ Named(Event.order) /\ Named(Event.maker)
           /\ Tail(events) \in Seq(Message)
           /\ \A i \in 1..Len(Tail(events)) : i + 1 \in 1..Len(events) /\ Tail(events)[i] = events[i + 1]
<1>1. /\ Head(events) \in Message /\ Head(events) = events[1] /\ 1 \in 1..Len(events)
      /\ Tail(events) \in Seq(Message)
      /\ \A i \in 1..Len(Tail(events)) : i + 1 \in 1..Len(events) /\ Tail(events)[i] = events[i + 1]
  BY VolumeTail DEF TypedFeed
<1>2. Fair(Event) /\ Cheap(Event, dear)
  BY <1>1 DEF TypedFeed, Event
<1>3. Named(Event.order) /\ Named(Event.maker)
  BY <1>1 DEF Named, Mentions, Names, Event
<1>4. Event.order \in Order /\ Event.maker \in Order
  BY <1>1 DEF Event, Message
<1> QED BY <1>1, <1>2, <1>3, <1>4, TermsType DEF Event, Message

\* What one side of a trade is debited, and what the transaction notes for it.
LEMMA PayEffect ==
    ASSUME TypedTables, TypedMoney, TypedFeed, events # <<>>, NEW x \in Order, Pay(x)
    PROVE  /\ Capped(Pays(x), Debit(x, Event)) \in Nat
           /\ Capped(Pays(x), Debit(x, Event)) <= Debit(x, Event)
           /\ Pays(x) \in DOMAIN balance =>
                Capped(Pays(x), Debit(x, Event)) <= balance[Pays(x)].locked
           /\ DOMAIN balance' = DOMAIN balance /\ balance' \in [DOMAIN balance -> Account]
           /\ \A r \in DOMAIN balance :
                /\ balance'[r].available = balance[r].available
                /\ r # Pays(x) => balance'[r] = balance[r]
                /\ r = Pays(x) => balance'[r].locked = balance[r].locked - Capped(r, Debit(x, Event))
           /\ tx' \in [AnyRow -> Int] /\ held' \subseteq AnyRow
<1>1. Event \in Message /\ Debit(x, Event) \in Nat /\ Credit(x, Event) \in Nat /\ Fee(x, Event) \in Nat
  BY InHandType, Amounts
<1>2. \A r \in DOMAIN balance : balance[r] \in Account /\ balance[r].available \in Int /\ balance[r].locked \in Nat
  BY DEF TypedTables, Account
<1> PICK n : n = Capped(Pays(x), Debit(x, Event))
  OBVIOUS
<1>3. n \in Nat /\ n <= Debit(x, Event) /\ (Pays(x) \in DOMAIN balance => n <= balance[Pays(x)].locked)
  BY <1>1, <1>2 DEF Capped
<1>4. balance' = [r \in DOMAIN balance |->
                    IF r = Pays(x) THEN [balance[r] EXCEPT !.locked = @ - n] ELSE balance[r]]
  BY DEF Pay
<1>5. DOMAIN balance' = DOMAIN balance /\ \A r \in DOMAIN balance :
        balance'[r] = IF r = Pays(x) THEN [balance[r] EXCEPT !.locked = @ - n] ELSE balance[r]
  BY <1>4
<1>6. ASSUME NEW r \in DOMAIN balance
      PROVE  /\ balance'[r] \in Account /\ balance'[r].available = balance[r].available
             /\ r # Pays(x) => balance'[r] = balance[r]
             /\ r = Pays(x) => balance'[r].locked = balance[r].locked - n
  <2>1. CASE r = Pays(x)
    <3>1. balance'[r] = [balance[r] EXCEPT !.locked = @ - n]
      BY <1>5, <2>1
    <3>2. balance[r].locked - n \in Nat
      BY <1>2, <1>3, <2>1
    <3> QED BY <1>2, <2>1, <3>1, <3>2 DEF Account
  <2>2. CASE r # Pays(x)
    BY <1>2, <1>5, <2>2
  <2> QED BY <2>1, <2>2
<1>7. balance' \in [DOMAIN balance -> Account]
  BY <1>4, <1>5, <1>6
<1>8. tx' \in [AnyRow -> Int]
  <2>1. \A r \in AnyRow : tx[r] \in Int
    BY DEF TypedMoney
  <2> PICK c \in Nat : c = Credit(x, Event)
    BY <1>1
  <2> PICK f \in Nat : f = Fee(x, Event)
    BY <1>1
  <2>2. tx' = [r \in AnyRow |-> tx[r] + (IF r = Gets(x) THEN c ELSE 0)
                 - (IF r = Quote(x) /\ (T(x).side = "sell" \/ Quote(x) \in DOMAIN balance)
                    THEN f ELSE 0)]
    BY DEF Pay
  <2> QED BY <2>1, <2>2
<1>9. held' \subseteq AnyRow
  BY TermsType DEF Pay, TypedTables, TypedMoney
<1> QED BY <1>3, <1>5, <1>6, <1>7, <1>8, <1>9

Api(x) == \/ Lock(x) \/ Insert(x) \/ Record(x) \/ Publish(x) \/ SendAgain(x) \/ Inject(x)
          \/ ReadForCancel(x) \/ SendCancel(x) \/ MarkCanceled(x)

\* What the calls of the API leave alone, and what the writer does.
LEMMA ApiFrame ==
    ASSUME NEW x \in Order, Api(x)
    PROVE  UNCHANGED <<left, resting, outside, dear, events, writer, tx, held, fees, abroad, crashes>>
BY DEF Api, Lock, Insert, Record, Publish, SendAgain, Inject, ReadForCancel, SendCancel, MarkCanceled,
       engine, money

\* What the writer leaves alone.
LEMMA WriterFrame ==
    ASSUME Writer
    PROVE  UNCHANGED <<left, resting, outside, dear, placing, calls, overtaken, commands, crashes>>
BY DEF Writer, ApplyStatus, DropOutside, ReadClosing, Unlock, Close, PayTaker, PayMaker, ReadFilled,
       WriteFilled, Commit, engine, api

\* The engine's book.
LEMMA TypedBookNext ==
    ASSUME Typed, Untouched, [Next]_vars
    PROVE  TypedBook'
<1>1. ASSUME NEW x \in Order, Api(x)
      PROVE  TypedBook'
  BY <1>1, ApiFrame DEF Typed, TypedBook
<1>2. CASE EngineStep
  <2>1. PICK x \in Order : \E new : Tells(x, new)
    BY <1>2, EngineTells
  <2> QED BY <2>1 DEF Tells, TypedBook
<1>3. CASE Writer
  BY <1>3, WriterFrame DEF Typed, TypedBook
<1>4. CASE Crash
  BY <1>4 DEF Crash, engine, Typed, TypedBook
<1>5. CASE UNCHANGED vars
  BY <1>5 DEF vars, Typed, TypedBook
<1> QED BY <1>1, <1>2, <1>3, <1>4, <1>5 DEF Next, Api

\* The writer turns to the next event.
LEMMA FinishTyped ==
    ASSUME TypedFeed, events # <<>>, Finish, dear' = dear
    PROVE  TypedFeed' /\ writer'.at = "idle"
<1>1. /\ Tail(events) \in Seq(Message)
      /\ \A i \in 1..Len(Tail(events)) : i + 1 \in 1..Len(events) /\ Tail(events)[i] = events[i + 1]
  BY InHandType
<1>2. \A i \in 1..Len(Tail(events)) : Fair(Tail(events)[i]) /\ Cheap(Tail(events)[i], dear)
  BY <1>1 DEF TypedFeed
<1>3. Idle \in [at: Steps, seen: RowValue] /\ Idle.at = "idle"
  BY DEF Idle, Steps, RowValue, Statuses
<1>4. events' = Tail(events) /\ writer' = Idle
  BY DEF Finish
<1> QED BY <1>1, <1>2, <1>3, <1>4 DEF TypedFeed, TradeSteps

\* The events and the writer.
LEMMA TypedFeedNext ==
    ASSUME Typed, Untouched, [Next]_vars
    PROVE  TypedFeed'
<1>0. TypedFeed /\ writer \in [at: Steps, seen: RowValue] /\ writer.at \in Steps /\ writer.seen \in RowValue
  BY DEF Typed, TypedFeed
<1>1. ASSUME NEW x \in Order, Api(x)
      PROVE  TypedFeed'
  BY <1>0, <1>1, ApiFrame DEF TypedFeed, Event
<1>2. CASE EngineStep
  <2>1. PICK x \in Order : \E new : Tells(x, new) /\ writer' = writer
    BY <1>2, EngineTells
  <2>2. PICK new : Tells(x, new)
    BY <2>1
  <2>3. /\ new \in Seq(Message) /\ events' = events \o new
        /\ dear \subseteq dear' /\ \A i \in 1..Len(new) : Fair(new[i]) /\ Cheap(new[i], dear')
    BY <2>2 DEF Tells
  <2> PICK es \in Seq(Message) : es = events
    BY <1>0 DEF TypedFeed
  <2> DEFINE gs == es \o new
  <2>4. /\ gs \in Seq(Message) /\ Len(gs) = Len(es) + Len(new)
        /\ Len(es) \in Nat /\ Len(new) \in Nat
        /\ \A i \in 1..Len(gs) : gs[i] = IF i <= Len(es) THEN es[i] ELSE new[i - Len(es)]
    BY <2>3, VolumeConcat, LenProperties
  <2>a. events' = gs
    BY <2>3
  <2> HIDE DEF gs
  <2>5. ASSUME NEW i \in 1..Len(gs)
        PROVE  Fair(gs[i]) /\ Cheap(gs[i], dear')
    <3>1. CASE i <= Len(es)
      <4>1. i \in 1..Len(es)
        BY <2>4, <3>1
      <4>2. Fair(es[i]) /\ Cheap(es[i], dear) /\ gs[i] = es[i]
        BY <1>0, <2>4, <3>1, <4>1 DEF TypedFeed
      <4> QED BY <2>3, <4>2 DEF Cheap
    <3>2. CASE ~(i <= Len(es))
      <4>1. i - Len(es) \in 1..Len(new)
        BY <2>4, <3>2
      <4> QED BY <2>3, <2>4, <3>2, <4>1
    <3> QED BY <3>1, <3>2
  <2>6. es # <<>> => gs # <<>> /\ Head(gs) = Head(es)
    <3> SUFFICES ASSUME es # <<>> PROVE gs # <<>> /\ Head(gs) = Head(es)
      OBVIOUS
    <3>1. 1 <= Len(es) /\ 1 \in 1..Len(gs)
      BY <2>4
    <3>2. gs[1] = es[1]
      BY <2>4, <3>1
    <3>3. gs # <<>> /\ Head(gs) = gs[1] /\ Head(es) = es[1]
      BY <2>4, <3>1
    <3> QED BY <3>2, <3>3
  <2>7. gs \in Seq(Message) /\ (\A i \in 1..Len(gs) : Fair(gs[i]) /\ Cheap(gs[i], dear'))
        /\ (events # <<>> => gs # <<>> /\ Head(gs) = Head(events))
    BY <2>4, <2>5, <2>6
  <2>8. writer' = writer /\ events' \in Seq(Message) /\ (\A i \in 1..Len(events') : Fair(events'[i]) /\ Cheap(events'[i], dear'))
    BY <2>1, <2>7, <2>a
  <2>9. writer.at # "idle" => events # <<>>
    BY <1>0 DEF TypedFeed
  <2>10. writer.at # "idle" => events' # <<>>
    BY <2>7, <2>9, <2>a
  <2>11. writer.at # "idle" => Head(events') = Head(events)
    BY <2>7, <2>9, <2>a
  <2>12. /\ writer.at \in {"unlock", "close"} => Head(events').type \in Closing
         /\ writer.at \in TradeSteps => Head(events').type = "trade"
    BY <1>0, <2>11 DEF TypedFeed, Event, TradeSteps
  <2> QED BY <1>0, <2>8, <2>10, <2>12 DEF TypedFeed, Event
<1>3. CASE ApplyStatus
  BY <1>0, <1>3, FinishTyped DEF ApplyStatus, InHand, engine
<1>4. CASE DropOutside
  BY <1>0, <1>4, FinishTyped DEF DropOutside, InHand, engine
<1>5. CASE ReadClosing
  <2>1. /\ events # <<>> /\ Event.type \in Closing /\ Id(Event.order) \in Order
        /\ orders[Id(Event.order)] \in RowValue /\ dear' = dear
    BY <1>0, <1>5, InHandType DEF ReadClosing, InHand, Closing, Typed, TypedTables, engine
  <2>2. CASE Finish
    BY <1>0, <2>1, <2>2, FinishTyped
  <2>3. CASE writer' = [at |-> "unlock", seen |-> orders[Id(Event.order)]] /\ events' = events
    BY <1>0, <2>1, <2>3 DEF TypedFeed, Steps, TradeSteps, Event
  <2>4. CASE writer' = [Idle EXCEPT !.at = "close"] /\ events' = events
    BY <1>0, <2>1, <2>4 DEF TypedFeed, Steps, TradeSteps, Event, Idle, RowValue, Statuses
  <2> QED BY <1>5, <2>2, <2>3, <2>4 DEF ReadClosing
<1>6. CASE Unlock
  <2>1. /\ events' = events /\ dear' = dear /\ events # <<>> /\ Event.type \in Closing
        /\ writer' = [Idle EXCEPT !.at = "close"]
    BY <1>0, <1>6 DEF Unlock, TypedFeed, engine
  <2> QED BY <1>0, <2>1 DEF TypedFeed, Steps, TradeSteps, Event, Idle, RowValue, Statuses
<1>e. CASE Close
  BY <1>0, <1>e, FinishTyped DEF Close, TypedFeed, engine
<1>7. CASE PayTaker
  <2>1. /\ events' = events /\ writer' = [writer EXCEPT !.at = "maker"] /\ events # <<>> /\ Event.type = "trade"
        /\ dear' = dear
    BY <1>7 DEF PayTaker, InHand, engine
  <2> QED BY <1>0, <2>1 DEF TypedFeed, Steps, TradeSteps, Event
<1>8. CASE PayMaker
  <2>1. events' = events /\ writer' = [writer EXCEPT !.at = "fillMaker"] /\ writer.at = "maker" /\ dear' = dear
    BY <1>8 DEF PayMaker, engine
  <2> QED BY <1>0, <2>1 DEF TypedFeed, Steps, TradeSteps, Event
<1>9. CASE ReadFilled
  <2>1. events' = events /\ writer.at \in {"fillMaker", "fillTaker"} /\ dear' = dear
    BY <1>9 DEF ReadFilled, engine
  <2>2. /\ events # <<>> /\ Event.type = "trade"
        /\ orders[Id(Event.maker)] \in RowValue /\ orders[Id(Event.order)] \in RowValue
    BY <1>0, <2>1, InHandType DEF TypedFeed, TradeSteps, Typed, TypedTables
  <2>3. \E a \in {"writeMaker", "writeTaker"}, row \in RowValue : writer' = [at |-> a, seen |-> row]
    BY <1>9, <2>2 DEF ReadFilled
  <2> QED BY <1>0, <2>1, <2>2, <2>3 DEF TypedFeed, Steps, TradeSteps, Event
<1>10. CASE WriteFilled
  <2>1. events' = events /\ writer.at \in {"writeMaker", "writeTaker"} /\ dear' = dear
    BY <1>10 DEF WriteFilled, engine
  <2>2. events # <<>> /\ Event.type = "trade"
    BY <1>0, <2>1 DEF TypedFeed, TradeSteps
  <2>3. writer' = [Idle EXCEPT !.at = "fillTaker"] \/ writer' = [Idle EXCEPT !.at = "commit"]
    BY <1>10 DEF WriteFilled
  <2>4. writer' \in [at: Steps, seen: RowValue] /\ writer'.at \in TradeSteps
    BY <2>3 DEF Idle, Steps, TradeSteps, RowValue, Statuses
  <2> QED BY <1>0, <2>1, <2>2, <2>4 DEF TypedFeed, TradeSteps, Event
<1>11. CASE Commit
  BY <1>0, <1>11, FinishTyped DEF Commit, TypedFeed, TradeSteps, engine
<1>12. CASE Crash
  <2>1. events' = <<>> /\ writer' = Idle
    BY <1>12 DEF Crash
  <2>2. Idle \in [at: Steps, seen: RowValue] /\ Idle.at = "idle"
    BY DEF Idle, Steps, RowValue, Statuses
  <2>3. <<>> \in Seq(Message) /\ Len(<<>>) = 0 /\ 1..0 = {}
    OBVIOUS
  <2> QED BY <2>1, <2>2, <2>3 DEF TypedFeed, TradeSteps
<1>13. CASE UNCHANGED vars
  BY <1>0, <1>13 DEF vars, TypedFeed, Event
<1> QED BY <1>1, <1>2, <1>3, <1>4, <1>5, <1>6, <1>e, <1>7, <1>8, <1>9, <1>10, <1>11, <1>12, <1>13
    DEF Next, Api, Writer

\* The transaction in hand.
LEMMA TypedMoneyNext ==
    ASSUME Typed, [Next]_vars
    PROVE  TypedMoney'
<1>0. TypedMoney /\ TypedTables /\ TypedFeed
  BY DEF Typed
<1>a. NoTx \in [AnyRow -> Int]
  BY DEF NoTx
<1>b. "idle" \notin TradeSteps /\ "unlock" \notin TradeSteps /\ "close" \notin TradeSteps /\ Idle.at = "idle"
  BY DEF TradeSteps, Idle
<1>1. ASSUME NEW x \in Order, Api(x)
      PROVE  TypedMoney'
  BY <1>0, <1>1, ApiFrame DEF TypedMoney
<1>2. CASE EngineStep
  BY <1>0, <1>2 DEF EngineStep, TypedMoney, money
<1>3. CASE ApplyStatus
  BY <1>0, <1>3, <1>b DEF ApplyStatus, InHand, Finish, TypedMoney, money
<1>4. CASE DropOutside
  BY <1>0, <1>4, <1>b DEF DropOutside, InHand, Finish, TypedMoney, money
<1>5. CASE ReadClosing
  <2>1. writer.at = "idle" /\ UNCHANGED <<tx, held, fees, abroad, crashes>>
    BY <1>5 DEF ReadClosing, InHand, money
  <2> QED BY <1>0, <1>b, <2>1 DEF TypedMoney
<1>6. CASE Unlock
  BY <1>0, <1>6, <1>b DEF Unlock, TypedMoney
<1>e. CASE Close
  BY <1>0, <1>e, <1>b DEF Close, Finish, TypedMoney, money
<1>7. CASE PayTaker
  <2>1. events # <<>> /\ Pay(Event.order) /\ UNCHANGED <<fees, abroad, crashes>>
        /\ writer' = [writer EXCEPT !.at = "maker"]
    BY <1>7 DEF PayTaker, InHand
  <2>2. Event.order \in Order
    BY <1>0, <2>1, InHandType
  <2>3. tx' \in [AnyRow -> Int] /\ held' \subseteq AnyRow
    BY <1>0, <2>1, <2>2, PayEffect
  <2>4. writer'.at \in TradeSteps
    BY <1>0, <2>1 DEF TypedFeed, TradeSteps
  <2> QED BY <1>0, <2>1, <2>3, <2>4 DEF TypedMoney
<1>8. CASE PayMaker
  <2>1. /\ writer.at = "maker" /\ UNCHANGED <<fees, abroad, crashes>>
        /\ writer' = [writer EXCEPT !.at = "fillMaker"]
        /\ Pay(Event.maker) \/ UNCHANGED <<balance, tx, held>>
    BY <1>8 DEF PayMaker
  <2>2. events # <<>>
    BY <1>0, <2>1 DEF TypedFeed
  <2>3. Event.maker \in Order
    BY <1>0, <2>2, InHandType
  <2>4. tx' \in [AnyRow -> Int] /\ held' \subseteq AnyRow
    BY <1>0, <2>1, <2>2, <2>3, PayEffect DEF TypedMoney
  <2>5. writer'.at \in TradeSteps
    BY <1>0, <2>1 DEF TypedFeed, TradeSteps
  <2> QED BY <1>0, <2>1, <2>4, <2>5 DEF TypedMoney
<1>9. CASE ReadFilled
  <2>1. UNCHANGED <<tx, held, fees, abroad, crashes>> /\ writer.at \in TradeSteps
    BY <1>9 DEF ReadFilled, money, TradeSteps
  <2>2. writer'.at \in TradeSteps
    BY <1>9 DEF ReadFilled, TradeSteps
  <2> QED BY <1>0, <2>1, <2>2 DEF TypedMoney
<1>10. CASE WriteFilled
  <2>1. UNCHANGED <<tx, held, fees, abroad, crashes>>
    BY <1>10 DEF WriteFilled, money
  <2>2. writer'.at \in TradeSteps
    BY <1>10 DEF WriteFilled, TradeSteps, Idle
  <2> QED BY <1>0, <2>1, <2>2 DEF TypedMoney
<1>11. CASE Commit
  <2>1. events # <<>>
    BY <1>0, <1>11 DEF Commit, TypedFeed
  <2>2. Event \in Message /\ Event.order \in Order /\ Event.maker \in Order
    BY <1>0, <2>1, InHandType
  <2>3. Fee(Event.order, Event) \in Nat /\ Fee(Event.maker, Event) \in Nat
    BY <2>2, Amounts
  <2>4. fees' \in Nat
    <3>1. fees' = fees + Fee(Event.order, Event) + Fee(Event.maker, Event)
      BY <1>11 DEF Commit
    <3> QED BY <1>0, <2>3, <3>1 DEF TypedMoney
  <2>5. abroad' \in [Asset -> Int]
    <3>1. \A asset \in Asset : /\ abroad[asset] \in Int /\ GainAbroad(Event.order, Event, asset) \in Int
                               /\ GainAbroad(Event.maker, Event, asset) \in Int
      BY <1>0, <2>2, Amounts DEF TypedMoney
    <3>2. abroad' = [asset \in Asset |-> abroad[asset] + GainAbroad(Event.order, Event, asset)
                                                       + GainAbroad(Event.maker, Event, asset)]
      BY <1>11 DEF Commit
    <3> QED BY <3>1, <3>2
  <2>6. tx' = NoTx /\ held' = {} /\ crashes' = crashes
    BY <1>11 DEF Commit
  <2> QED BY <1>0, <1>a, <2>4, <2>5, <2>6 DEF TypedMoney
<1>12. CASE Crash
  <2>1. crashes' = crashes + 1 /\ crashes < MaxCrashes /\ tx' = NoTx /\ held' = {} /\ UNCHANGED <<fees, abroad>>
    BY <1>12 DEF Crash
  <2>2. crashes' \in 0..MaxCrashes
    BY <1>0, <2>1, SettlementAssumption DEF TypedMoney
  <2> QED BY <1>0, <1>a, <2>1, <2>2 DEF TypedMoney
<1>13. CASE UNCHANGED vars
  BY <1>0, <1>13 DEF vars, TypedMoney
<1> QED BY <1>1, <1>2, <1>3, <1>4, <1>5, <1>6, <1>e, <1>7, <1>8, <1>9, <1>10, <1>11, <1>12, <1>13
    DEF Next, Api, Writer

\* Rows with a filled quantity as the writer computes it.
LEMMA FilledType ==
    ASSUME TypedFeed, NEW x \in Order, NEW n \in Nat
    PROVE  /\ Filled(x, n) \in RowValue
           /\ Filled(x, n).status = "none" <=> writer.seen.status = "none"
           /\ Filled(x, n).filled = writer.seen.filled + IF writer.seen.status = "none" THEN 0 ELSE n
<1>1. writer.seen \in RowValue /\ writer.seen.filled \in Nat /\ writer.seen.filled + n \in Nat
  BY DEF TypedFeed, RowValue
<1> QED BY <1>1 DEF Filled, RowValue, Statuses

\* The tables.
LEMMA TypedTablesNext ==
    ASSUME Typed, [Next]_vars
    PROVE  TypedTables'
<1>0. TypedMoney /\ TypedTables /\ TypedFeed
  BY DEF Typed
<1>a. \A x \in Order : orders[x] \in RowValue /\ orders[x].status \in Statuses /\ orders[x].filled \in Nat
  BY <1>0 DEF TypedTables, RowValue
<1>b. \A x, p : x \in Order /\ p \in Stations /\ Goto(x, p) => placing' \in [Order -> Stations]
  BY <1>0 DEF TypedTables, Goto
<1>c. \A x \in Order : Send("place", x) => commands' \in Seq(Command)
  BY <1>0, CommandsGrow DEF TypedTables, Command, Send
<1>d. {"new", "insert", "record", "send", "done"} \subseteq Stations
  BY DEF Stations
<1>1. ASSUME NEW x \in Order, Lock(x)
      PROVE  TypedTables'
  <2>1. /\ ~IsExternal(x) /\ balance[Pays(x)].available >= LockedFor(x)
        /\ balance' = [balance EXCEPT ![Pays(x)].available = @ - LockedFor(x),
                                      ![Pays(x)].locked = @ + LockedFor(x)]
        /\ UNCHANGED <<orders, calls, commands, overtaken>> /\ Goto(x, "insert")
    BY <1>1 DEF Lock
  <2>3. Pays(x) \in DOMAIN balance /\ LockedFor(x) \in Nat
    BY <1>0, <2>1, TermsType, MarginType DEF TypedTables, LockedFor
  <2>4. balance[Pays(x)].locked \in Nat
    BY <1>0, <2>3 DEF TypedTables, Account
  <2>5. balance[Pays(x)].locked + LockedFor(x) \in Nat /\ LockedFor(x) \in Int
    BY <2>3, <2>4
  <2>6. balance' \in [DOMAIN balance -> Account] /\ DOMAIN balance' = DOMAIN balance
    <3> PICK D, b, c, r, m : D = DOMAIN balance /\ b = balance /\ c = balance' /\ r = Pays(x) /\ m = LockedFor(x)
      OBVIOUS
    <3>1. /\ b \in [D -> Account] /\ r \in D /\ m \in Int /\ b[r].locked + m \in Nat
          /\ c = Locking(b, r, m)
      BY <1>0, <2>1, <2>3, <2>5 DEF TypedTables, Locking
    <3>2. c \in [D -> Account] /\ DOMAIN c = D
      BY <3>1, RowLocks
    <3> QED BY <3>2
  <2> QED BY <1>0, <1>b, <1>d, <2>1, <2>6 DEF TypedTables
<1>2. ASSUME NEW x \in Order, Insert(x)
      PROVE  TypedTables'
  <2>1. orders' \in [Order -> RowValue]
    BY <1>0, <1>a, <1>2 DEF Insert, TypedTables, RowValue, Statuses
  <2>2. placing' \in [Order -> Stations]
    BY <1>2, <1>b, <1>d DEF Insert
  <2> QED BY <1>0, <1>2, <2>1, <2>2 DEF Insert, TypedTables, money
<1>3. ASSUME NEW x \in Order, Record(x)
      PROVE  TypedTables'
  <2>1. placing' \in [Order -> Stations]
    BY <1>3, <1>b, <1>d DEF Record
  <2> QED BY <1>0, <1>3, <2>1 DEF Record, TypedTables, money
<1>4. ASSUME NEW x \in Order, Publish(x) \/ SendAgain(x)
      PROVE  TypedTables'
  <2>1. placing' \in [Order -> Stations] /\ commands' \in Seq(Command)
    BY <1>4, <1>b, <1>c, <1>d DEF Publish, SendAgain
  <2> QED BY <1>0, <1>4, <2>1 DEF Publish, SendAgain, TypedTables, money
<1>5. ASSUME NEW x \in Order, Inject(x)
      PROVE  TypedTables'
  <2>1. placing' \in [Order -> Stations] /\ commands' \in Seq(Command)
    BY <1>5, <1>b, <1>c, <1>d DEF Inject
  <2>2. /\ calls' \in [Order -> {"new", "send", "mark", "done"}]
        /\ \A y \in Order : /\ IsExternal(y) => calls'[y] # "mark"
                            /\ calls'[y] \in {"send", "mark"} => y \in MayCancel
    BY <1>0, <1>5 DEF Inject, TypedTables
  <2> QED BY <1>0, <1>5, <2>1, <2>2 DEF Inject, TypedTables, money
<1>e. ASSUME NEW x \in Order, ReadForCancel(x)
      PROVE  TypedTables'
  BY <1>0, <1>e DEF ReadForCancel, TypedTables, money
<1>f. ASSUME NEW x \in Order, SendCancel(x)
      PROVE  TypedTables'
  <2>0. x \in MayCancel
    BY <1>0, <1>f DEF SendCancel, TypedTables
  <2>1. commands' \in Seq(Command)
    BY <1>0, <1>f, <2>0, CommandsGrow DEF SendCancel, Send, TypedTables, Command
  <2>2. /\ calls' \in [Order -> {"new", "send", "mark", "done"}]
        /\ \A y \in Order : /\ IsExternal(y) => calls'[y] # "mark"
                            /\ calls'[y] \in {"send", "mark"} => y \in MayCancel
    BY <1>0, <1>f, <2>0 DEF SendCancel, TypedTables
  <2>3. overtaken' \subseteq MayCancel
    BY <1>0, <1>f, <2>0 DEF SendCancel, TypedTables
  <2> QED BY <1>0, <1>f, <2>1, <2>2, <2>3 DEF SendCancel, TypedTables, money
<1>g. ASSUME NEW x \in Order, MarkCanceled(x)
      PROVE  TypedTables'
  <2>1. orders' \in [Order -> RowValue]
    BY <1>0, <1>a, <1>g DEF MarkCanceled, TypedTables, RowValue, Statuses
  <2> QED BY <1>0, <1>g, <2>1 DEF MarkCanceled, TypedTables, money
<1>6. CASE EngineStep
  <2>1. commands' \in Seq(Command)
    BY <1>0, <1>6, CommandsShrink DEF EngineStep, TypedTables
  <2> QED BY <1>0, <1>6, <2>1 DEF EngineStep, TypedTables, money, api
<1>7. CASE ApplyStatus
  <2>1. events # <<>> /\ UNCHANGED <<balance, placing, calls, overtaken, commands>>
    BY <1>7 DEF ApplyStatus, InHand, money, api
  <2>2. Event.order \in Order /\ Id(Event.order) \in Order
    BY <1>0, <2>1, InHandType
  <2>3. orders' \in [Order -> RowValue]
    <3>1. SetStatus(Id(Event.order), "open") \/ SetStatus(Id(Event.order), "filled")
      BY <1>7 DEF ApplyStatus
    <3> QED BY <1>0, <2>2, <3>1, StatusSet DEF TypedTables, Statuses
  <2> QED BY <1>0, <2>1, <2>3 DEF TypedTables
<1>8. CASE DropOutside
  BY <1>0, <1>8 DEF DropOutside, TypedTables, money, api
<1>9. CASE ReadClosing
  BY <1>0, <1>9 DEF ReadClosing, TypedTables, money, api
<1>h. CASE Close
  <2>1. /\ UNCHANGED <<balance, placing, calls, overtaken, commands>> /\ writer.at = "close"
        /\ SetStatus(Id(Event.order), Event.type)
    BY <1>h DEF Close, money, api
  <2>2. events # <<>> /\ Event.type \in Closing
    BY <1>0, <2>1 DEF TypedFeed
  <2>3. Id(Event.order) \in Order
    BY <1>0, <2>2, InHandType
  <2>4. orders' \in [Order -> RowValue]
    BY <1>0, <2>1, <2>2, <2>3, StatusSet DEF TypedTables, Statuses, Closing
  <2> QED BY <1>0, <2>1, <2>4 DEF TypedTables
<1>10. CASE Unlock
  <2>1. UNCHANGED <<orders, placing, calls, overtaken, commands>> /\ writer.at = "unlock"
    BY <1>10 DEF Unlock, api
  <2>2. events # <<>> /\ Event.type \in Closing
    BY <1>0, <2>1 DEF TypedFeed
  <2>3. Event.order \in Order
    BY <1>0, <2>2, InHandType
  <2> PICK r : r = Pays(Event.order)
    OBVIOUS
  <2> PICK n : n = Capped(r, ToRelease(Event.order, writer.seen))
    OBVIOUS
  <2>5. balance' = [balance EXCEPT ![r].available = @ + n, ![r].locked = @ - n]
    BY <1>10 DEF Unlock
  <2>6. DOMAIN balance' = DOMAIN balance /\ balance' \in [DOMAIN balance -> Account]
    <3>1. CASE r \in DOMAIN balance
      <4>1. ToRelease(Event.order, writer.seen) \in Int
        <5>1. T(Event.order).quantity - writer.seen.filled \in Int /\ T(Event.order).price \in Int
          BY <1>0, <2>3, TermsType DEF TypedFeed, RowValue
        <5>2. \A a, b \in Int : a * b \in Int
          OBVIOUS
        <5>3. T(Event.order).price * (T(Event.order).quantity - writer.seen.filled) \in Int
          BY <5>1, <5>2
        <5> QED BY <5>1, <5>3 DEF ToRelease, Margin, Cost
      <4>2. balance[r].locked \in Nat
        BY <1>0, <3>1 DEF TypedTables, Account
      <4>3. n \in Int /\ balance[r].locked - n \in Nat
        BY <3>1, <4>1, <4>2 DEF Capped
      <4> PICK D, b, c : D = DOMAIN balance /\ b = balance /\ c = balance'
        OBVIOUS
      <4>4. /\ b \in [D -> Account] /\ r \in D /\ n \in Int /\ b[r].locked - n \in Nat
            /\ c = Releasing(b, r, n)
        BY <1>0, <2>5, <3>1, <4>3 DEF TypedTables, Releasing
      <4>5. c \in [D -> Account] /\ DOMAIN c = D
        BY <4>4, RowReleases
      <4> QED BY <4>5
    <3>2. CASE r \notin DOMAIN balance
      <4>1. balance' = balance
        BY <1>0, <2>5, <3>2 DEF TypedTables
      <4> QED BY <1>0, <4>1 DEF TypedTables
    <3> QED BY <3>1, <3>2
  <2> QED BY <1>0, <2>1, <2>6 DEF TypedTables
<1>11. CASE PayTaker
  <2>1. events # <<>> /\ UNCHANGED <<orders, placing, calls, overtaken, commands>> /\ Pay(Event.order)
    BY <1>11 DEF PayTaker, InHand, api
  <2>2. Event.order \in Order /\ Id(Event.order) \in Order
    BY <1>0, <2>1, InHandType
  <2>3. DOMAIN balance' = DOMAIN balance /\ balance' \in [DOMAIN balance -> Account]
    BY <1>0, <2>1, <2>2, PayEffect
  <2> QED BY <1>0, <2>1, <2>3 DEF TypedTables
<1>12. CASE PayMaker
  <2>1. /\ writer.at = "maker" /\ UNCHANGED <<orders, placing, calls, overtaken, commands>>
        /\ Pay(Event.maker) \/ UNCHANGED <<balance, tx, held>>
    BY <1>12 DEF PayMaker, api
  <2>2. events # <<>>
    BY <1>0, <2>1 DEF TypedFeed
  <2>3. Event.maker \in Order
    BY <1>0, <2>2, InHandType
  <2>4. DOMAIN balance' = DOMAIN balance /\ balance' \in [DOMAIN balance -> Account]
    BY <1>0, <2>1, <2>2, <2>3, PayEffect DEF TypedTables
  <2> QED BY <1>0, <2>1, <2>4 DEF TypedTables
<1>13. CASE ReadFilled
  BY <1>0, <1>13 DEF ReadFilled, TypedTables, money, api
<1>14. CASE WriteFilled
  <2>1. UNCHANGED <<balance, placing, calls, overtaken, commands>> /\ writer.at \in {"writeMaker", "writeTaker"}
    BY <1>14 DEF WriteFilled, money, api
  <2>2. events # <<>>
    BY <1>0, <2>1 DEF TypedFeed
  <2>3. /\ Event.maker \in Order /\ Event.order \in Order /\ Event.quantity \in Nat
        /\ Id(Event.order) \in Order /\ Id(Event.maker) \in Order
    BY <1>0, <2>2, InHandType
  <2>4. Filled(Event.maker, Event.quantity) \in RowValue /\ Filled(Event.order, Event.quantity) \in RowValue
    BY <1>0, <2>3, FilledType
  <2>5. orders' \in [Order -> RowValue]
    BY <1>0, <1>14, <2>4 DEF WriteFilled, TypedTables
  <2> QED BY <1>0, <2>1, <2>5 DEF TypedTables
<1>15. CASE Commit
  <2>1. UNCHANGED <<placing, calls, overtaken, commands>> /\ writer.at = "commit"
    BY <1>15 DEF Commit, api
  <2>2. events # <<>>
    BY <1>0, <2>1 DEF TypedFeed
  <2>3. Event.maker \in Order /\ Event.order \in Order /\ Event.quantity \in Nat
    BY <1>0, <2>2, InHandType
  <2>4. orders' \in [Order -> RowValue]
    <3>1. [status |-> "filled", filled |-> Event.quantity] \in RowValue
      BY <2>3 DEF RowValue, Statuses
    <3>2. orders' = [o \in Order |->
                       IF IsExternal(o) /\ o \in {Event.order, Event.maker} /\ orders[o].status = "none"
                       THEN [status |-> "filled", filled |-> Event.quantity] ELSE orders[o]]
      BY <1>15 DEF Commit
    <3> QED BY <1>a, <3>1, <3>2
  <2>5. Gets(Event.order) \in AnyRow
    BY <2>3, TermsType
  <2>6. /\ DOMAIN balance' = DOMAIN balance \union {Gets(Event.order)}
        /\ balance' = [r \in DOMAIN balance \union {Gets(Event.order)} |->
                         IF r \in DOMAIN balance THEN [balance[r] EXCEPT !.available = @ + tx[r]]
                         ELSE [available |-> tx[r], locked |-> 0]]
    BY <1>15 DEF Commit
  <2>7. ASSUME NEW r \in DOMAIN balance \union {Gets(Event.order)}
        PROVE  balance'[r] \in Account
    <3>1. tx[r] \in Int
      BY <1>0, <2>5 DEF TypedTables, TypedMoney
    <3>2. CASE r \in DOMAIN balance
      <4>1. balance[r] \in Account /\ balance'[r] = [balance[r] EXCEPT !.available = @ + tx[r]]
        BY <1>0, <2>6, <3>2 DEF TypedTables
      <4> QED BY <3>1, <4>1 DEF Account
    <3>3. CASE r \notin DOMAIN balance
      <4>1. balance'[r] = [available |-> tx[r], locked |-> 0]
        BY <2>6, <3>3
      <4> QED BY <3>1, <4>1 DEF Account
    <3> QED BY <3>2, <3>3
  <2>8. /\ Row \subseteq DOMAIN balance' /\ DOMAIN balance' \subseteq AnyRow
        /\ balance' \in [DOMAIN balance' -> Account]
    <3>1. Row \subseteq DOMAIN balance' /\ DOMAIN balance' \subseteq AnyRow
      BY <1>0, <2>5, <2>6 DEF TypedTables
    <3>2. balance' = [r \in DOMAIN balance' |-> balance'[r]]
      BY <2>6
    <3> QED BY <2>6, <2>7, <3>1, <3>2
  <2> QED BY <1>0, <2>1, <2>4, <2>8 DEF TypedTables
<1>16. CASE Crash
  <2>1. /\ calls' = [o \in Order |-> IF calls[o] = "new" \/ IsExternal(o) THEN calls[o] ELSE "done"]
        /\ placing' = [o \in Order |-> CASE placing[o] \in {"insert", "record"} -> "gone"
                                         [] placing[o] = "send" -> "owed"
                                         [] OTHER -> placing[o]]
    BY <1>16 DEF Crash
  <2>2. /\ calls' \in [Order -> {"new", "send", "mark", "done"}]
        /\ \A y \in Order : /\ IsExternal(y) => calls'[y] # "mark"
                            /\ calls'[y] \in {"send", "mark"} => y \in MayCancel
    BY <1>0, <2>1 DEF TypedTables
  <2>3. placing' \in [Order -> Stations]
    BY <1>0, <2>1 DEF TypedTables, Stations
  <2> QED BY <1>0, <1>16, <2>2, <2>3 DEF Crash, TypedTables
<1>17. CASE UNCHANGED vars
  BY <1>0, <1>17 DEF vars, TypedTables
<1> QED BY <1>1, <1>2, <1>3, <1>4, <1>5, <1>e, <1>f, <1>g, <1>6, <1>7, <1>8, <1>9, <1>h, <1>10, <1>11,
           <1>12, <1>13, <1>14, <1>15, <1>16, <1>17 DEF Next, Writer

-----------------------------------------------------------------------------
(* Every order is placed once and nothing happens to it before; the row the  *)
(* writer has read is still the row when it writes.                          *)

SeenRow ==
    /\ writer.at = "unlock" => writer.seen.filled = orders[Id(Event.order)].filled
    /\ writer.at = "writeMaker" =>
         /\ writer.seen.filled = orders[Id(Event.maker)].filled
         /\ writer.seen.status = "none" <=> orders[Id(Event.maker)].status = "none"
    /\ writer.at = "writeTaker" =>
         /\ writer.seen.filled = orders[Id(Event.order)].filled
         /\ writer.seen.status = "none" <=> orders[Id(Event.order)].status = "none"

\* The writer's events: it keeps them, or drops the first.
LEMMA WriterEvents ==
    ASSUME Typed, Writer
    PROVE  /\ events # <<>>
           /\ (events' = events /\ writer'.at # "idle") \/ (events' = Tail(events) /\ writer' = Idle)
           /\ \A x : Mentions(events', x) => Named(x)
<1>0. TypedFeed /\ events \in Seq(Message)
  BY DEF Typed, TypedFeed
<1>1. events # <<>>
  BY <1>0 DEF Writer, ApplyStatus, DropOutside, ReadClosing, Unlock, Close, PayTaker, PayMaker,
     ReadFilled, WriteFilled, Commit, InHand, TypedFeed
<1>2. (events' = events /\ writer'.at # "idle") \/ (events' = Tail(events) /\ writer' = Idle)
  <2>1. writer \in [at: Steps, seen: RowValue]
    BY <1>0 DEF TypedFeed
  <2>2. CASE ApplyStatus \/ DropOutside \/ Close \/ Commit
    BY <2>2 DEF ApplyStatus, DropOutside, Close, Commit, Finish
  <2>3. CASE ReadClosing \/ Unlock
    BY <2>3 DEF ReadClosing, Unlock, Finish, Idle
  <2>4. CASE PayTaker \/ PayMaker
    BY <2>1, <2>4 DEF PayTaker, PayMaker
  <2>5. CASE ReadFilled
    BY <2>5 DEF ReadFilled
  <2>6. CASE WriteFilled
    BY <2>6 DEF WriteFilled, Idle
  <2> QED BY <2>2, <2>3, <2>4, <2>5, <2>6 DEF Writer
<1>3. \A x : Mentions(events', x) => Named(x)
  <2> PICK es \in Seq(Message) : es = events
    BY <1>0
  <2>1. \A x : Mentions(Tail(es), x) => Mentions(es, x)
    BY <1>1, MessagesShrink
  <2> QED BY <1>2, <2>1 DEF Named
<1> QED BY <1>1, <1>2, <1>3

\* The orders of the event in hand have been placed and have rows, unless they are quotes.
LEMMA NamedSent ==
    ASSUME Typed, Rowed, Untouched, events # <<>>
    PROVE  /\ Event.order \in Order /\ Event.maker \in Order
           /\ Sent(Event.order) /\ Sent(Event.maker)
           /\ ~Waiting(Event.order) /\ ~Waiting(Event.maker)
           /\ ~IsExternal(Event.order) => orders[Id(Event.order)].status # "none"
           /\ ~IsExternal(Event.maker) => orders[Id(Event.maker)].status # "none"
<1>1. /\ Event.order \in Order /\ Event.maker \in Order /\ Named(Event.order) /\ Named(Event.maker)
  BY InHandType DEF Typed
<1>2. \A x \in Order : Named(x) => Sent(x) /\ ~Waiting(x)
  BY DEF Untouched
<1>3. Sent(Event.order) /\ Sent(Event.maker) /\ ~Waiting(Event.order) /\ ~Waiting(Event.maker)
  BY <1>1, <1>2
<1> QED BY <1>1, <1>3 DEF Sent, Rowed, RowedAt

\* The rows that the event in hand is about.
InHandRows == {Id(Event.order), Id(Event.maker)}

\* What the writer does to the rows.
LEMMA WriterRows ==
    ASSUME Typed, Rowed, Untouched, SeenRow, Writer
    PROVE  \A x \in Order : /\ x \notin InHandRows => orders'[x] = orders[x]
                            /\ Plain(x) /\ ~Named(x) => orders'[x] = orders[x]
                            /\ ~IsExternal(x) => (orders'[x].status = "none" <=> orders[x].status = "none")
<1>0. TypedTables /\ TypedFeed /\ orders \in [Order -> RowValue]
  BY DEF Typed, TypedTables
<1>a. events # <<>>
  BY WriterEvents
<1>b. /\ Event.order \in Order /\ Event.maker \in Order /\ Named(Event.order) /\ Named(Event.maker)
      /\ Event.quantity \in Nat /\ Id(Event.order) \in Order /\ Id(Event.maker) \in Order
  BY <1>0, <1>a, InHandType
<1>c. /\ ~IsExternal(Event.order) => orders[Id(Event.order)].status # "none"
      /\ ~IsExternal(Event.maker) => orders[Id(Event.maker)].status # "none"
      /\ Sent(Event.order) /\ Sent(Event.maker)
  BY <1>a, NamedSent
<1>d. \A x : Plain(x) /\ x \in InHandRows => Named(x)
  BY <1>b, <1>c, OnlyItself DEF InHandRows
<1>s. SUFFICES \A x \in Order : /\ x \notin InHandRows => orders'[x] = orders[x]
                                /\ ~IsExternal(x) => (orders'[x].status = "none" <=> orders[x].status = "none")
  BY <1>d
<1>1. ASSUME NEW s \in Statuses, s # "none", SetStatus(Id(Event.order), s)
      PROVE  \A x \in Order : /\ x \notin InHandRows => orders'[x] = orders[x]
                              /\ orders'[x].status = "none" <=> orders[x].status = "none"
  <2> PICK r \in Order : r = Id(Event.order)
    BY <1>b
  <2>1. \A y \in Order : /\ y # r => orders'[y] = orders[y]
                         /\ orders'[y].status = "none" <=> orders[y].status = "none" \/ (y = r /\ s = "none")
    BY <1>0, <1>1, StatusSet
  <2> QED BY <1>1, <2>1 DEF InHandRows
<1>2. CASE ApplyStatus
  <2>1. SetStatus(Id(Event.order), "open") \/ SetStatus(Id(Event.order), "filled")
    BY <1>2 DEF ApplyStatus
  <2> QED BY <1>1, <2>1 DEF Statuses
<1>3. CASE orders' = orders
  BY <1>3
<1>5. CASE Close
  <2>1. SetStatus(Id(Event.order), Event.type) /\ Event.type \in Closing
    BY <1>0, <1>5 DEF Close, TypedFeed
  <2> QED BY <1>1, <2>1 DEF Statuses, Closing
<1>6. CASE WriteFilled
  <2>1. /\ Filled(Event.maker, Event.quantity).status = "none" <=> writer.seen.status = "none"
        /\ Filled(Event.order, Event.quantity).status = "none" <=> writer.seen.status = "none"
    BY <1>0, <1>b, FilledType
  <2>2. CASE writer.at = "writeMaker"
    <3>1. orders' = [orders EXCEPT ![Id(Event.maker)] = Filled(Event.maker, Event.quantity)]
      BY <1>6, <2>2 DEF WriteFilled
    <3>2. writer.seen.status = "none" <=> orders[Id(Event.maker)].status = "none"
      BY <2>2 DEF SeenRow
    <3> QED BY <1>0, <1>b, <2>1, <3>1, <3>2 DEF InHandRows
  <2>3. CASE writer.at = "writeTaker"
    <3>1. orders' = [orders EXCEPT ![Id(Event.order)] = Filled(Event.order, Event.quantity)]
      BY <1>6, <2>3 DEF WriteFilled
    <3>2. writer.seen.status = "none" <=> orders[Id(Event.order)].status = "none"
      BY <2>3 DEF SeenRow
    <3> QED BY <1>0, <1>b, <2>1, <3>1, <3>2 DEF InHandRows
  <2> QED BY <1>6, <2>2, <2>3 DEF WriteFilled
<1>7. CASE Commit
  <2>1. orders' = [o \in Order |->
                     IF IsExternal(o) /\ o \in {Event.order, Event.maker} /\ orders[o].status = "none"
                     THEN [status |-> "filled", filled |-> Event.quantity] ELSE orders[o]]
    BY <1>7 DEF Commit
  <2>2. \A x \in Order : IsExternal(x) => Id(x) = x
    BY TermsType
  <2> QED BY <1>b, <2>1, <2>2 DEF InHandRows
<1> QED BY <1>2, <1>3, <1>5, <1>6, <1>7
      DEF Writer, DropOutside, ReadClosing, Unlock, PayTaker, PayMaker, ReadFilled, money

\* A statement of the API of one order leaves the others alone.
LEMMA PlacingMoves ==
    ASSUME Typed, [Next]_vars
    PROVE  /\ \A x \in Order : placing[x] # "new" => placing'[x] # "new"
           /\ \A x \in Order : Sent(x) => Sent(x)'
           /\ \A x : Plain(x)' => Plain(x)
           /\ crashes' = 0 => crashes = 0
<1>0. placing \in [Order -> Stations] /\ crashes \in Nat
  BY DEF Typed, TypedTables, TypedMoney
<1>1. /\ \A x \in Order : placing[x] # "new" => placing'[x] # "new"
      /\ \A x \in Order : placing[x] = "done" => placing'[x] = "done"
      /\ crashes' = 0 => crashes = 0
  <2>1. ASSUME NEW x \in Order, Api(x)
        PROVE  <1>1!:
    <3>1. crashes' = crashes
      BY <2>1, ApiFrame
    <3>2. \/ placing' = placing
          \/ \E p \in Stations : /\ placing' = [placing EXCEPT ![x] = p]
                                 /\ p # "new" /\ placing[x] # "done"
      BY <2>1 DEF Api, Lock, Insert, Record, Publish, SendAgain, Inject, ReadForCancel, SendCancel,
                  MarkCanceled, Goto, Stations
    <3> QED BY <1>0, <3>1, <3>2
  <2>2. CASE EngineStep
    BY <2>2 DEF EngineStep, api
  <2>3. CASE Writer
    BY <2>3, WriterFrame
  <2>4. CASE Crash
    <3>1. /\ placing' = [o \in Order |-> CASE placing[o] \in {"insert", "record"} -> "gone"
                                         [] placing[o] = "send" -> "owed"
                                         [] OTHER -> placing[o]]
          /\ crashes' = crashes + 1
      BY <2>4 DEF Crash
    <3> QED BY <1>0, <3>1
  <2>5. CASE UNCHANGED vars
    BY <2>5 DEF vars
  <2> QED BY <2>1, <2>2, <2>3, <2>4, <2>5 DEF Next, Api
<1>2. \A x : Doubled(x) => Doubled(x)'
  BY <1>1 DEF Doubled, Again
<1>3. \A x : Plain(x)' <=> ~IsExternal(x) /\ Id(x) = x /\ ~Doubled(x)'
  BY DEF Plain
<1> QED BY <1>1, <1>2, <1>3 DEF Plain, Sent

\* A statement of the API: the station it leads to, and what it does to the row.
LEMMA ApiSteps ==
    ASSUME Typed, NEW x \in Order, Api(x)
    PROVE  /\ \A y \in Order : y # x => /\ placing'[y] = placing[y] /\ calls'[y] = calls[y]
                                        /\ orders'[y] = orders[y]
           /\ orders'[x].filled = orders[x].filled
           /\ \/ Lock(x) /\ ~IsExternal(x) /\ Id(x) = x /\ placing[x] = "new" /\ placing'[x] = "insert"
                        /\ calls'[x] = calls[x] /\ orders'[x] = orders[x]
              \/ Insert(x) /\ placing[x] = "insert" /\ placing'[x] = "record"
                        /\ calls'[x] = calls[x] /\ orders'[x].status = "open"
              \/ Record(x) /\ placing[x] = "record" /\ placing'[x] = "send"
                        /\ calls'[x] = calls[x] /\ orders'[x] = orders[x]
              \/ Publish(x) /\ placing[x] = "send" /\ placing'[x] = "done"
                        /\ calls'[x] = calls[x] /\ orders'[x] = orders[x]
              \/ SendAgain(x) /\ Id(x) # x /\ placing[x] = "new" /\ placing'[x] = "done"
                        /\ placing[Id(x)] \in {"send", "done", "owed"}
                        /\ calls'[x] = calls[x] /\ orders'[x] = orders[x]
              \/ Inject(x) /\ IsExternal(x) /\ placing[x] = "new" /\ placing'[x] = "done"
                        /\ orders'[x] = orders[x]
              \/ ReadForCancel(x) /\ ~IsExternal(x) /\ orders[x].status # "none" /\ placing'[x] = placing[x]
                        /\ orders'[x] = orders[x]
              \/ SendCancel(x) /\ calls[x] # "new" /\ placing'[x] = placing[x]
                        /\ orders'[x] = orders[x]
              \/ MarkCanceled(x) /\ calls[x] = "mark" /\ ~IsExternal(x) /\ placing'[x] = placing[x]
                        /\ orders'[x].status = "canceled"
<1>0. /\ placing \in [Order -> Stations] /\ calls \in [Order -> {"new", "send", "mark", "done"}]
      /\ orders \in [Order -> RowValue] /\ (IsExternal(x) => calls[x] # "mark")
  BY DEF Typed, TypedTables
<1>1. CASE Lock(x)
  BY <1>0, <1>1 DEF Lock, Goto, Again
<1>2. CASE Insert(x)
  BY <1>0, <1>2 DEF Insert, Goto, RowValue
<1>3. CASE Record(x)
  BY <1>0, <1>3 DEF Record, Goto
<1>4. CASE Publish(x)
  BY <1>0, <1>4 DEF Publish, Goto
<1>5. CASE SendAgain(x)
  BY <1>0, <1>5 DEF SendAgain, Goto, Again
<1>6. CASE Inject(x)
  BY <1>0, <1>6 DEF Inject, Goto
<1>7. CASE ReadForCancel(x)
  BY <1>0, <1>7 DEF ReadForCancel
<1>8. CASE SendCancel(x)
  BY <1>0, <1>8 DEF SendCancel
<1>9. CASE MarkCanceled(x)
  BY <1>0, <1>9 DEF MarkCanceled, RowValue
<1> QED BY <1>1, <1>2, <1>3, <1>4, <1>5, <1>6, <1>7, <1>8, <1>9 DEF Api

\* Rows are there when an order can be cancelled, sent or settled.
LEMMA RowedNext ==
    ASSUME Typed, Rowed, Untouched, SeenRow, [Next]_vars
    PROVE  Rowed'
<1>0. /\ placing \in [Order -> Stations] /\ calls \in [Order -> {"new", "send", "mark", "done"}]
      /\ crashes \in Nat
  BY DEF Typed, TypedTables, TypedMoney
<1>a. \A y \in Order : Id(y) \in Order /\ Id(Id(y)) = Id(y) /\ (IsExternal(y) => Id(y) = y)
                      /\ (IsExternal(Id(y)) <=> IsExternal(y))
  BY TermsType DEF IsExternal
<1>1. ASSUME placing' = placing, calls' = calls, crashes' = crashes,
             \A y \in Order : ~IsExternal(y) => (orders'[y].status = "none" <=> orders[y].status = "none")
      PROVE  Rowed'
  <2>1. ASSUME NEW y \in Order
        PROVE  RowedAt(y)'
    <3>1. ~IsExternal(y) => /\ orders'[y].status = "none" <=> orders[y].status = "none"
                            /\ orders'[Id(y)].status = "none" <=> orders[Id(y)].status = "none"
      BY <1>1, <1>a
    <3>2. RowedAt(y)
      BY DEF Rowed
    <3> QED BY <1>1, <3>1, <3>2 DEF RowedAt, Sent
  <2> QED BY <2>1 DEF Rowed
<1>2. ASSUME NEW x \in Order, Api(x)
      PROVE  Rowed'
  <2>1. /\ \A y \in Order : y # x => /\ placing'[y] = placing[y] /\ calls'[y] = calls[y]
                                       /\ orders'[y] = orders[y]
        /\ crashes' = crashes
    BY <1>2, ApiSteps, ApiFrame
  <2>a. RowedAt(x) /\ RowedAt(Id(x))
    BY <1>a DEF Rowed
  <2>2. orders[x].status # "none" /\ ~IsExternal(x) => orders'[x].status # "none"
    BY <1>2, ApiSteps
  <2>b. ~IsExternal(x) /\ orders[Id(x)].status # "none" => orders'[Id(x)].status # "none"
    BY <1>a, <2>1, <2>2
  <2>3. ASSUME NEW y \in Order, y # x
        PROVE  RowedAt(y)'
    <3>1. ~IsExternal(y) /\ orders[Id(y)].status # "none" => orders'[Id(y)].status # "none"
      BY <1>a, <2>1, <2>2
    <3>2. RowedAt(y) /\ placing'[y] = placing[y] /\ calls'[y] = calls[y] /\ orders'[y] = orders[y]
      BY <2>1, <2>3 DEF Rowed
    <3> QED BY <2>1, <3>1, <3>2 DEF RowedAt, Sent
  <2>4. RowedAt(x)'
    <3>1. CASE Lock(x) /\ ~IsExternal(x) /\ Id(x) = x /\ placing[x] = "new" /\ placing'[x] = "insert"
               /\ calls'[x] = calls[x] /\ orders'[x] = orders[x]
      BY <2>1, <2>a, <3>1 DEF RowedAt, Sent
    <3>2. CASE Insert(x) /\ placing[x] = "insert" /\ placing'[x] = "record"
               /\ calls'[x] = calls[x] /\ orders'[x].status = "open"
      <4>1. ~IsExternal(x) /\ Id(x) = x
        BY <2>a, <3>2 DEF RowedAt
      <4> QED BY <2>1, <2>a, <3>2, <4>1 DEF RowedAt, Sent
    <3>3. ASSUME \/ placing[x] = "record" /\ placing'[x] = "send"
                 \/ placing[x] = "send" /\ placing'[x] = "done",
                 calls'[x] = calls[x], orders'[x] = orders[x]
          PROVE  RowedAt(x)'
      <4>1. ~IsExternal(x) /\ Id(x) = x
        BY <2>a, <3>3 DEF RowedAt
      <4> QED BY <2>1, <2>a, <3>3, <4>1 DEF RowedAt, Sent
    <3>4. CASE SendAgain(x) /\ Id(x) # x /\ placing[x] = "new" /\ placing'[x] = "done"
               /\ placing[Id(x)] \in {"send", "done", "owed"}
               /\ calls'[x] = calls[x] /\ orders'[x] = orders[x]
      <4>1. ~IsExternal(x) /\ ~IsExternal(Id(x)) /\ Id(Id(x)) = Id(x) /\ Id(x) \in Order
        BY <1>a, <3>4
      <4>2. orders'[Id(x)].status # "none"
        BY <2>1, <2>a, <3>4, <4>1 DEF RowedAt
      <4> QED BY <2>1, <2>a, <3>4, <4>1, <4>2 DEF RowedAt, Sent
    <3>5. CASE Inject(x) /\ IsExternal(x) /\ placing[x] = "new" /\ placing'[x] = "done"
               /\ orders'[x] = orders[x]
      BY <2>1, <2>a, <3>5 DEF RowedAt, Sent
    <3>6. CASE ReadForCancel(x) /\ ~IsExternal(x) /\ orders[x].status # "none" /\ placing'[x] = placing[x]
               /\ orders'[x] = orders[x]
      BY <2>1, <2>a, <2>b, <3>6 DEF RowedAt, Sent
    <3>7. CASE SendCancel(x) /\ calls[x] # "new" /\ placing'[x] = placing[x]
               /\ orders'[x] = orders[x]
      BY <2>1, <2>a, <2>b, <3>7 DEF RowedAt, Sent
    <3>8. CASE MarkCanceled(x) /\ calls[x] = "mark" /\ ~IsExternal(x) /\ placing'[x] = placing[x]
               /\ orders'[x].status = "canceled"
      <4>1. placing[x] \notin {"new", "insert"}
        BY <2>a, <3>8 DEF RowedAt
      <4>2. orders'[x].status # "none" /\ crashes' = crashes /\ ~IsExternal(x) /\ placing'[x] = placing[x]
        BY <2>1, <3>8
      <4> QED BY <2>a, <2>b, <4>1, <4>2 DEF RowedAt, Sent
    <3> QED BY <1>2, <3>1, <3>2, <3>3, <3>4, <3>5, <3>6, <3>7, <3>8, ApiSteps
  <2> QED BY <2>3, <2>4 DEF Rowed
<1>3. CASE EngineStep
  BY <1>1, <1>3 DEF EngineStep, api
<1>4. CASE Writer
  BY <1>1, <1>4, WriterRows, WriterFrame
<1>5. CASE Crash
  <2>1. /\ placing' = [o \in Order |-> CASE placing[o] \in {"insert", "record"} -> "gone"
                                       [] placing[o] = "send" -> "owed"
                                       [] OTHER -> placing[o]]
        /\ calls' = [o \in Order |-> IF calls[o] = "new" \/ IsExternal(o) THEN calls[o] ELSE "done"]
        /\ crashes' = crashes + 1 /\ orders' = orders
    BY <1>5 DEF Crash
  <2>2. ASSUME NEW y \in Order
        PROVE  RowedAt(y)'
    <3>1. /\ placing[y] \in {"insert", "record"} => placing'[y] = "gone"
          /\ placing[y] = "send" => placing'[y] = "owed"
          /\ placing[y] \notin {"insert", "record", "send"} => placing'[y] = placing[y]
          /\ calls[y] = "new" <=> calls'[y] = "new"
      BY <1>0, <2>1
    <3>2. RowedAt(y) /\ crashes' # 0
      BY <1>0, <2>1 DEF Rowed
    <3> QED BY <1>0, <2>1, <3>1, <3>2 DEF RowedAt, Sent, Stations
  <2> QED BY <2>2 DEF Rowed
<1>6. CASE UNCHANGED vars
  BY <1>1, <1>6 DEF vars
<1> QED BY <1>2, <1>3, <1>4, <1>5, <1>6 DEF Next, Api

\* A command more: the first PLACE of its order, or a CANCEL.
LEMMA OnceGrows ==
    ASSUME Typed, Once, NEW x \in Order, NEW kind \in {"place", "cancel"}, Send(kind, x),
           kind = "cancel" => x \in MayCancel,
           kind = "place" => ~Sent(x) /\ Sent(x)',
           kind = "cancel" => Sent(x) \/ x \in overtaken',
           \A y \in Order : Sent(y) => Sent(y)',
           \A y \in Order : y # x => (Sent(y)' => Sent(y)),
           overtaken \subseteq overtaken',
           \A y : Plain(y)' => Plain(y),
           \A y \in Order : orders'[y].filled = orders[y].filled,
           kind = "cancel" => (Sent(x)' => Sent(x)),
           resting' = resting, events' = events
    PROVE  Once'
<1> PICK cs \in Seq(Command) : cs = commands
  BY DEF Typed, TypedTables
<1> PICK c \in Command : c = [op |-> kind, order |-> x]
  BY DEF Command
<1> DEFINE ds == Append(cs, c)
<1>1. /\ Len(ds) = Len(cs) + 1 /\ Len(cs) \in Nat
      /\ \A i \in 1..Len(cs) : ds[i] = cs[i]
      /\ ds[Len(cs) + 1] = c
      /\ \A k, y : Offers(ds, k, y) <=> Offers(cs, k, y) \/ (c.op = k /\ c.order = y)
  BY CommandsGrow
<1>2. commands' = ds
  BY DEF Send
<1> HIDE DEF ds
<1>3. \A i \in 1..Len(ds) : i \in 1..Len(cs) \/ i = Len(cs) + 1
  BY <1>1
<1>4. c.op = kind /\ c.order = x
  OBVIOUS
<1>a. \A y : (Waiting(y)' <=> Offers(ds, "place", y)) /\ (Waiting(y) <=> Offers(cs, "place", y))
  BY <1>2 DEF Waiting
<1>5. Unsent'
  <2>1. ASSUME NEW y \in Order, ~Sent(y)'
        PROVE  ~Offers(ds, "place", y) /\ (Offers(ds, "cancel", y) => y \in overtaken')
    <3>1. ~Sent(y)
      BY <2>1
    <3>2. ~Offers(cs, "place", y) /\ (Offers(cs, "cancel", y) => y \in overtaken')
      BY <1>a, <3>1 DEF Once, Unsent
    <3> QED BY <1>1, <1>4, <2>1, <3>1, <3>2
  <2> QED BY <1>2, <1>a, <2>1 DEF Unsent
<1>6. Untouched'
  <2>1. ASSUME NEW y \in Order, ~Sent(y)' \/ Offers(ds, "place", y)
        PROVE  ~Sent(y) \/ Waiting(y)
    BY <1>1, <1>4, <1>a, <2>1
  <2>2. \A y \in Order : Named(y)' <=> Named(y)
    BY DEF Named
  <2>3. \A y \in Order : Plain(y)' => Plain(y)
    OBVIOUS
  <2> HIDE DEF Plain
  <2>4. ASSUME NEW y \in Order, ~Sent(y)' \/ Waiting(y)'
        PROVE  y \notin resting' /\ ~Named(y)' /\ (Plain(y)' => orders'[y].filled = 0)
    <3>1. ~Sent(y) \/ Waiting(y)
      BY <1>a, <2>1, <2>4
    <3> QED BY <2>2, <2>3, <3>1 DEF Once, Untouched
  <2> QED BY <2>4 DEF Untouched
<1>7. PlacedFirst'
  <2>1. ASSUME NEW i \in 1..Len(ds), NEW j \in 1..Len(ds), j < i, ds[i].op = "place", ds[j].order = ds[i].order
        PROVE  ds[j].op = "cancel" /\ ds[i].order \in overtaken'
    <3>1. j \in 1..Len(cs)
      BY <1>1, <2>1
    <3>2. CASE i \in 1..Len(cs)
      BY <1>1, <2>1, <3>1, <3>2 DEF Once, PlacedFirst
    <3>3. CASE i = Len(cs) + 1
      <4>1. ~Sent(x) /\ ds[i].order = x /\ cs[j].order = x /\ ds[j] = cs[j]
        BY <1>1, <1>4, <2>1, <3>1, <3>3
      <4>2. cs[j] \in Command
        BY <3>1, ElementOfSeq
      <4>3. cs[j].op # "place"
        BY <1>a, <3>1, <4>1 DEF Once, Unsent, Offers
      <4>4. cs[j].op = "cancel"
        BY <4>2, <4>3 DEF Command
      <4>5. Offers(commands, "cancel", x)
        BY <3>1, <4>1, <4>4 DEF Offers
      <4>6. x \in overtaken
        BY <4>1, <4>5 DEF Once, Unsent
      <4> QED BY <4>1, <4>4, <4>6
    <3> QED BY <1>3, <3>2, <3>3
  <2> QED BY <1>2, <2>1 DEF PlacedFirst
<1> QED BY <1>5, <1>6, <1>7 DEF Once

\* A step that sends no command and names no new order.
LEMMA OnceStays ==
    ASSUME Once, commands' = commands, overtaken' = overtaken,
           \A y \in Order : Sent(y)' <=> Sent(y),
           \A y \in Order : Named(y)' => Named(y),
           \A y : Plain(y)' => Plain(y),
           \A y \in Order : ~Named(y) /\ Plain(y) => orders'[y].filled = orders[y].filled,
           resting' = resting
    PROVE  Once'
<1>1. \A y \in Order : Waiting(y)' <=> Waiting(y)
  BY DEF Waiting
<1>2. Unsent'
  BY <1>1 DEF Once, Unsent
<1>3. Untouched'
  <2>1. ASSUME NEW y \in Order, ~Sent(y)' \/ Waiting(y)'
        PROVE  y \notin resting' /\ ~Named(y)' /\ (Plain(y)' => orders'[y].filled = 0)
    <3>1. y \notin resting /\ ~Named(y) /\ (Plain(y) => orders[y].filled = 0)
      BY <1>1, <2>1 DEF Once, Untouched
    <3>2. Plain(y)' => Plain(y)
      OBVIOUS
    <3> HIDE DEF Plain
    <3> QED BY <3>1, <3>2
  <2> QED BY <2>1 DEF Untouched
<1>4. PlacedFirst'
  BY DEF Once, PlacedFirst
<1> QED BY <1>2, <1>3, <1>4 DEF Once

\* The oldest command is the last word on placing its order, unless it is a
\* CANCEL that has overtaken it.
LEMMA TakenFirst ==
    ASSUME Typed, Once, commands # <<>>, commands' = Tail(commands),
           NEW x \in Order, Head(commands).order = x
    PROVE  /\ Head(commands).op = "place" => Sent(x)
           /\ Head(commands).op = "place" \/ x \notin overtaken => ~Waiting(x)'
           /\ Head(commands).op = "cancel" /\ x \notin overtaken => Sent(x)
           /\ \A y \in Order : Waiting(y)' => Waiting(y)
           /\ \A kind, y : Offers(commands', kind, y) => Offers(commands, kind, y)
           /\ \A i \in 1..Len(commands') : i + 1 \in 1..Len(commands) /\ commands'[i] = commands[i + 1]
<1> PICK cs \in Seq(Command) : cs = commands
  BY DEF Typed, TypedTables
<1> DEFINE ds == Tail(cs)
<1>1. /\ Head(cs) = cs[1] /\ 1 \in 1..Len(cs) /\ Len(cs) \in Nat /\ Len(ds) = Len(cs) - 1
      /\ \A i \in 1..Len(ds) : i + 1 \in 1..Len(cs) /\ ds[i] = cs[i + 1]
      /\ \A k, y : Offers(ds, k, y) => Offers(cs, k, y)
  BY CommandsShrink
<1>2. commands' = ds
  OBVIOUS
<1> HIDE DEF ds
<1>3. \A y : Waiting(y)' <=> Offers(ds, "place", y)
  BY <1>2 DEF Waiting
<1>4. Offers(commands, Head(commands).op, x)
  BY <1>1 DEF Offers
<1>5. Head(cs).op = "place" \/ x \notin overtaken => ~Offers(ds, "place", x)
  <2> SUFFICES ASSUME NEW i \in 1..Len(ds), ds[i].op = "place", ds[i].order = x,
                      Head(cs).op = "place" \/ x \notin overtaken
               PROVE  FALSE
    BY DEF Offers
  <2>1. i + 1 \in 1..Len(cs) /\ 1 < i + 1 /\ cs[i + 1].op = "place" /\ cs[i + 1].order = x
    BY <1>1
  <2>2. cs[1].op = "cancel" /\ x \in overtaken
    BY <1>1, <2>1 DEF Once, PlacedFirst
  <2> QED BY <1>1, <2>1, <2>2
<1>6. /\ Head(commands).op = "place" => Sent(x)
      /\ Head(commands).op = "cancel" /\ x \notin overtaken => Sent(x)
  BY <1>4 DEF Once, Unsent, Waiting
<1> QED BY <1>1, <1>2, <1>3, <1>5, <1>6 DEF Waiting

\* An order is sent to be placed once, on every step.
LEMMA OnceNext ==
    ASSUME Typed, Rowed, Once, SeenRow, [Next]_vars
    PROVE  Once'
<1>0. /\ TypedTables /\ TypedFeed /\ orders \in [Order -> RowValue]
      /\ calls \in [Order -> {"new", "send", "mark", "done"}] /\ Unsent /\ Untouched
  BY DEF Typed, TypedTables, Once
<1>p. /\ \A x \in Order : Sent(x) => Sent(x)'
      /\ \A x : Plain(x)' => Plain(x)
  BY PlacingMoves
<1>1. ASSUME NEW x \in Order, Api(x)
      PROVE  Once'
  <2>1. /\ \A y \in Order : y # x => /\ placing'[y] = placing[y] /\ calls'[y] = calls[y]
                                       /\ orders'[y] = orders[y]
        /\ orders'[x].filled = orders[x].filled
        /\ resting' = resting /\ events' = events
    BY <1>1, ApiSteps, ApiFrame
  <2>2. \A y \in Order : orders'[y].filled = orders[y].filled /\ (y # x => (Sent(y)' <=> Sent(y)))
    BY <2>1 DEF Sent
  <2>3. \A y \in Order : Named(y)' => Named(y)
    BY <2>1 DEF Named
  <2>4. CASE Publish(x) \/ SendAgain(x) \/ Inject(x)
    <3>1. Send("place", x) /\ overtaken' = overtaken /\ ~Sent(x)
      BY <2>4 DEF Publish, SendAgain, Inject, Sent
    <3>2. Sent(x)'
      <4>1. Goto(x, "done")
        BY <2>4 DEF Publish, SendAgain, Inject
      <4> QED BY <1>0, <4>1 DEF Goto, Sent, TypedTables
    <3> PICK kind \in {"place", "cancel"} : kind = "place"
      OBVIOUS
    <3>3. /\ Send(kind, x) /\ (kind = "place" => ~Sent(x) /\ Sent(x)')
          /\ (kind = "cancel" => x \in MayCancel) /\ (kind = "cancel" => Sent(x) \/ x \in overtaken')
          /\ (kind = "cancel" => (Sent(x)' => Sent(x)))
      BY <3>1, <3>2
    <3> QED BY <1>p, <2>1, <2>2, <3>1, <3>3, OnceGrows
  <2>5. CASE SendCancel(x)
    <3>1. /\ Send("cancel", x) /\ overtaken \subseteq overtaken' /\ placing' = placing
          /\ (Sent(x) \/ x \in overtaken') /\ calls[x] = "send"
      BY <2>5 DEF SendCancel, Sent
    <3>2. x \in MayCancel /\ (Sent(x)' => Sent(x))
      BY <1>0, <3>1 DEF TypedTables, Sent
    <3> PICK kind \in {"place", "cancel"} : kind = "cancel"
      OBVIOUS
    <3>3. /\ Send(kind, x) /\ (kind = "place" => ~Sent(x) /\ Sent(x)')
          /\ (kind = "cancel" => x \in MayCancel) /\ (kind = "cancel" => Sent(x) \/ x \in overtaken')
          /\ (kind = "cancel" => (Sent(x)' => Sent(x)))
      BY <3>1, <3>2
    <3> QED BY <1>p, <2>1, <2>2, <3>1, <3>3, OnceGrows
  <2>6. CASE Lock(x) \/ Insert(x) \/ Record(x) \/ ReadForCancel(x) \/ MarkCanceled(x)
    <3>1. commands' = commands /\ overtaken' = overtaken
      BY <2>6 DEF Lock, Insert, Record, ReadForCancel, MarkCanceled
    <3>2. Sent(x)' <=> Sent(x)
      BY <1>0, <2>6 DEF Lock, Insert, Record, ReadForCancel, MarkCanceled, Goto, Sent, TypedTables
    <3>3. \A y \in Order : Sent(y)' <=> Sent(y)
      BY <2>2, <3>2
    <3> QED BY <1>p, <2>1, <2>2, <2>3, <3>1, <3>3, OnceStays
  <2> QED BY <1>1, <2>4, <2>5, <2>6 DEF Api
<1>6. CASE EngineStep
  <2>1. PICK x \in Order : \E new :
             /\ commands # <<>> /\ Tells(x, new)
             /\ \/ Head(commands).op = "place" /\ Head(commands).order = x /\ x \notin resting /\ Places(x, new)
                \/ /\ Head(commands).op = "cancel" /\ Head(commands).order = Id(x) /\ Id(Id(x)) = Id(x)
                   /\ x \notin resting => Id(x) = x
                   /\ Cancels(x, new)
             /\ commands' = Tail(commands)
             /\ UNCHANGED <<money, orders, api, writer, crashes>>
    BY <1>0, <1>6, EngineTells
  <2>2. PICK new :
             /\ commands # <<>> /\ Tells(x, new)
             /\ \/ Head(commands).op = "place" /\ Head(commands).order = x /\ x \notin resting /\ Places(x, new)
                \/ /\ Head(commands).op = "cancel" /\ Head(commands).order = Id(x) /\ Id(Id(x)) = Id(x)
                   /\ x \notin resting => Id(x) = x
                   /\ Cancels(x, new)
             /\ commands' = Tail(commands)
             /\ UNCHANGED <<money, orders, api, writer, crashes>>
    BY <2>1
  <2>h. Head(commands).order \in Order
    BY <2>2, TermsType
  <2> PICK h \in Order : h = Head(commands).order
    BY <2>h
  <2>3. /\ Head(commands).op = "place" => Sent(h) /\ ~Waiting(h)'
        /\ \A y \in Order : Waiting(y)' => Waiting(y)
        /\ \A kind, y : Offers(commands', kind, y) => Offers(commands, kind, y)
        /\ \A i \in 1..Len(commands') : i + 1 \in 1..Len(commands) /\ commands'[i] = commands[i + 1]
    BY <1>0, <2>2, TakenFirst
  <2>4. /\ \A y \in Order : Sent(y)' <=> Sent(y)
        /\ orders' = orders /\ overtaken' = overtaken
    BY <2>2 DEF Sent, api
  <2>5. ASSUME NEW y \in Order, ~Sent(y)' \/ Waiting(y)'
        PROVE  y \notin resting' /\ ~Named(y)' /\ (Plain(y)' => orders'[y].filled = 0)
    <3>1. ~Sent(y) \/ Waiting(y)
      BY <2>3, <2>4, <2>5
    <3>2. y \notin resting /\ ~Named(y) /\ (Plain(y) => orders[y].filled = 0)
      BY <1>0, <3>1 DEF Untouched
    <3>3. ~Mentions(new, y)
      <4>1. CASE new = <<>>
        BY <4>1 DEF Mentions
      <4>2. CASE new # <<>>
        <5>1. y # x
          <6>1. CASE Head(commands).op = "place" /\ Head(commands).order = x
            BY <2>3, <2>4, <2>5, <6>1
          <6>2. CASE x \in resting
            BY <3>2, <6>2
          <6> QED BY <2>2, <4>2, <6>1, <6>2 DEF Cancels
        <5> QED BY <2>2, <3>2, <5>1, NewNames
      <4> QED BY <4>1, <4>2
    <3>4. ~Named(y)'
      <4>1. events \in Seq(Message) /\ new \in Seq(Message) /\ events' = events \o new
        BY <1>0, <2>2 DEF TypedFeed, Tells
      <4> PICK es \in Seq(Message) : es = events
        BY <4>1
      <4>2. ~Mentions(es \o new, y)
        BY <3>2, <3>3, <4>1, MessagesGrow DEF Named
      <4> QED BY <4>1, <4>2 DEF Named
    <3>5. y \notin resting'
      <4>1. CASE y = x
        <5>1. Cancels(x, new) /\ x \notin resting
          BY <2>2, <2>3, <2>4, <2>5, <3>2, <4>1
        <5> QED BY <4>1, <5>1 DEF Cancels
      <4>2. CASE y # x
        <5>1. left'[y] + Volume(new, y) = left[y] /\ (y \in resting' <=> left'[y] > 0)
              /\ left' \in [Order -> Nat] /\ new \in Seq(Message)
          BY <2>2, <4>2 DEF Tells
        <5>2. Volume(new, y) = 0
          BY <3>3, <5>1, VolumeUnnamed
        <5>3. left[y] = 0
          BY <3>2 DEF Typed, TypedBook
        <5>4. left'[y] \in Nat
          BY <5>1
        <5> QED BY <5>1, <5>2, <5>3, <5>4
      <4> QED BY <4>1, <4>2
    <3>6. Plain(y)' => Plain(y)
      BY <1>p
    <3> HIDE DEF Plain
    <3> QED BY <2>4, <3>2, <3>4, <3>5, <3>6
  <2>6. Untouched'
    BY <2>5 DEF Untouched
  <2>7. Unsent'
    BY <1>0, <2>3, <2>4 DEF Unsent
  <2>8. PlacedFirst'
    <3>1. ASSUME NEW i \in 1..Len(commands'), NEW j \in 1..Len(commands'), j < i, commands'[i].op = "place",
                 commands'[j].order = commands'[i].order
          PROVE  commands'[j].op = "cancel" /\ commands'[i].order \in overtaken'
      <4>1. /\ i + 1 \in 1..Len(commands) /\ commands'[i] = commands[i + 1]
            /\ j + 1 \in 1..Len(commands) /\ commands'[j] = commands[j + 1] /\ j + 1 < i + 1
        BY <2>3, <3>1
      <4> QED BY <2>4, <3>1, <4>1 DEF Once, PlacedFirst
    <3> QED BY <3>1 DEF PlacedFirst
  <2> QED BY <2>6, <2>7, <2>8 DEF Once
<1>7. CASE Writer
  <2>1. commands' = commands /\ placing' = placing /\ resting' = resting /\ overtaken' = overtaken
    BY <1>7, WriterFrame
  <2>2. \A x \in Order : Named(x)' => Named(x)
    BY <1>7, WriterEvents DEF Named
  <2>3. \A x \in Order : Plain(x) /\ ~Named(x) => orders'[x] = orders[x]
    BY <1>0, <1>7, WriterRows
  <2>4. \A x \in Order : Sent(x)' <=> Sent(x)
    BY <2>1 DEF Sent
  <2> QED BY <1>p, <2>1, <2>2, <2>3, <2>4, OnceStays
<1>8. CASE Crash
  <2>1. /\ events' = <<>> /\ orders' = orders /\ commands' = commands /\ resting' = resting
        /\ overtaken' = overtaken
    BY <1>8 DEF Crash, engine
  <2>2. \A x \in Order : Sent(x)' <=> Sent(x)
    BY <1>0, <1>8 DEF Crash, Sent, TypedTables
  <2>3. \A x \in Order : ~Named(x)'
    <3>1. Len(<<>>) = 0 /\ 1..0 = {}
      OBVIOUS
    <3>2. \A x : ~Mentions(<<>>, x)
      BY <3>1 DEF Mentions
    <3> QED BY <2>1, <3>2 DEF Named
  <2> QED BY <1>p, <2>1, <2>2, <2>3, OnceStays
<1>9. CASE UNCHANGED vars
  <2>1. /\ commands' = commands /\ placing' = placing /\ resting' = resting /\ events' = events
        /\ orders' = orders /\ overtaken' = overtaken
    BY <1>9 DEF vars
  <2>2. \A x \in Order : (Sent(x)' <=> Sent(x)) /\ (Named(x)' => Named(x))
    BY <2>1 DEF Sent, Named
  <2> QED BY <1>p, <2>1, <2>2, OnceStays
<1> QED BY <1>1, <1>6, <1>7, <1>8, <1>9 DEF Next, Api

\* The row in the writer's hand.
LEMMA SeenRowNext ==
    ASSUME Typed, Rowed, Once, SeenRow, [Next]_vars
    PROVE  SeenRow'
<1>0. TypedTables /\ TypedFeed /\ orders \in [Order -> RowValue] /\ writer \in [at: Steps, seen: RowValue]
      /\ Untouched
  BY DEF Typed, TypedTables, TypedFeed, Once
<1>a. writer.at # "idle" =>
        /\ events # <<>> /\ Event.order \in Order /\ Event.maker \in Order
        /\ Id(Event.order) \in Order /\ Id(Event.maker) \in Order
        /\ ~IsExternal(Event.order) => orders[Id(Event.order)].status # "none"
        /\ ~IsExternal(Event.maker) => orders[Id(Event.maker)].status # "none"
  BY <1>0, NamedSent, TermsType DEF TypedFeed
\* Steps that keep the filled quantities, and which rows there are, of the event in hand.
<1>1. ASSUME writer' = writer, writer.at # "idle" => Head(events') = Event,
             writer.at # "idle" => \A x \in InHandRows :
                /\ orders'[x].filled = orders[x].filled
                /\ orders'[x].status = "none" <=> orders[x].status = "none"
      PROVE  SeenRow'
  <2>1. CASE writer.at = "idle"
    BY <1>1, <2>1 DEF SeenRow
  <2>2. CASE writer.at # "idle"
    BY <1>1, <1>a, <2>2 DEF SeenRow, Event, InHandRows
  <2> QED BY <2>1, <2>2
<1>2. ASSUME writer'.at \notin {"unlock", "writeMaker", "writeTaker"}
      PROVE  SeenRow'
  BY <1>2 DEF SeenRow
<1>i. Idle.at = "idle"
  BY DEF Idle
<1>3. ASSUME NEW x \in Order, Api(x)
      PROVE  SeenRow'
  <2>1. writer' = writer /\ events' = events
    BY <1>3, ApiFrame
  <2>2. /\ \A y \in Order : y # x => orders'[y] = orders[y]
        /\ orders'[x].filled = orders[x].filled
        /\ \/ orders'[x] = orders[x]
           \/ placing[x] = "insert"
           \/ calls[x] = "mark" /\ ~IsExternal(x) /\ orders'[x].status = "canceled"
    BY <1>3, ApiSteps
  <2>3. ASSUME writer.at # "idle", NEW y \in InHandRows
        PROVE  /\ orders'[y].filled = orders[y].filled
               /\ orders'[y].status = "none" <=> orders[y].status = "none"
    <3>1. y \in Order
      BY <1>a, <2>3 DEF InHandRows
    <3>2. CASE y = x /\ placing[x] = "insert"
      <4>1. ~IsExternal(x) /\ Id(x) = x /\ orders[x].status = "none"
        BY <3>2 DEF Rowed, RowedAt
      <4>2. IsExternal(Event.order) => Id(Event.order) = Event.order
        BY <1>a, <2>3, TermsType
      <4>3. IsExternal(Event.maker) => Id(Event.maker) = Event.maker
        BY <1>a, <2>3, TermsType
      <4> QED BY <1>a, <2>3, <3>2, <4>1, <4>2, <4>3 DEF InHandRows
    <3>3. CASE y = x /\ calls[x] = "mark" /\ ~IsExternal(x) /\ orders'[x].status = "canceled"
      <4>1. orders[x].status # "none"
        BY <3>3 DEF Rowed, RowedAt
      <4> QED BY <2>2, <3>3, <4>1
    <3> QED BY <2>2, <3>1, <3>2, <3>3
  <2> QED BY <1>1, <2>1, <2>3 DEF Event
<1>4. CASE EngineStep
  <2>1. PICK x \in Order : \E new : Tells(x, new) /\ writer' = writer /\ orders' = orders
    BY <1>0, <1>4, EngineTells
  <2>2. PICK new \in Seq(Message) : events' = events \o new
    BY <2>1 DEF Tells
  <2>3. events # <<>> => Head(events') = Event
    <3> PICK es \in Seq(Message) : es = events
      BY <1>0 DEF TypedFeed
    <3>1. es # <<>> => Head(es \o new) = Head(es)
      OBVIOUS
    <3> QED BY <2>2, <3>1 DEF Event
  <2> QED BY <1>1, <1>a, <2>1, <2>3
<1>5. CASE Writer
  <2>1. CASE ApplyStatus \/ DropOutside \/ Close \/ Commit
    BY <1>2, <1>i, <2>1 DEF ApplyStatus, DropOutside, Close, Commit, Finish
  <2>6. CASE Unlock
    BY <1>2, <2>6 DEF Unlock, Idle
  <2>2. CASE ReadClosing
    <3>1. CASE writer' = [at |-> "unlock", seen |-> orders[Id(Event.order)]] /\ orders' = orders /\ events' = events
      BY <3>1 DEF SeenRow, Event
    <3>2. CASE Finish
      BY <1>2, <1>i, <3>2 DEF Finish
    <3>3. CASE writer' = [Idle EXCEPT !.at = "close"]
      BY <1>2, <3>3 DEF Idle
    <3> QED BY <2>2, <3>1, <3>2, <3>3 DEF ReadClosing
  <2>3. CASE PayTaker \/ PayMaker
    BY <1>0, <2>3 DEF PayTaker, PayMaker, SeenRow
  <2>4. CASE ReadFilled
    BY <2>4 DEF ReadFilled, SeenRow, money, Event
  <2>5. CASE WriteFilled
    <3>1. writer'.at = "fillTaker" \/ writer'.at = "commit"
      BY <2>5 DEF WriteFilled, Idle
    <3> QED BY <1>2, <3>1
  <2> QED BY <1>5, <2>1, <2>2, <2>3, <2>4, <2>5, <2>6 DEF Writer
<1>6. CASE Crash
  BY <1>2, <1>i, <1>6 DEF Crash
<1>7. CASE UNCHANGED vars
  BY <1>1, <1>7 DEF vars, Event
<1> QED BY <1>3, <1>4, <1>5, <1>6, <1>7 DEF Next, Api

\* What holds of every reachable state: the types, that orders are placed
\* once, and what the writer has read.
Core == Typed /\ Rowed /\ Once /\ SeenRow

\* At the start nothing is placed, sent or read.
LEMMA CoreInit == Init => Core
<1> SUFFICES ASSUME Init PROVE Core
  OBVIOUS
<1>1. TypedTables
  <2>1. [status |-> "none", filled |-> 0] \in RowValue /\ [available |-> Funds, locked |-> 0] \in Account
    BY SettlementAssumption DEF RowValue, Statuses, Account
  <2>2. Row \subseteq AnyRow
    BY DEF Row, AnyRow
  <2> QED BY <2>1, <2>2 DEF Init, TypedTables, Stations
<1>2. TypedMoney
  BY SettlementAssumption DEF Init, TypedMoney, NoTx
<1>3. TypedBook
  BY DEF Init, TypedBook
<1>4. TypedFeed
  <2>1. Idle \in [at: Steps, seen: RowValue] /\ Idle.at = "idle"
    BY DEF Idle, Steps, RowValue, Statuses
  <2> QED BY <2>1 DEF Init, TypedFeed, TradeSteps
<1>5. Once
  BY DEF Init, Once, Unsent, Untouched, PlacedFirst, Waiting, Offers, Named, Mentions
<1>6. SeenRow
  BY DEF Init, Idle, SeenRow
<1>7. Rowed
  BY DEF Init, Rowed, RowedAt
<1> QED BY <1>1, <1>2, <1>3, <1>4, <1>5, <1>6, <1>7 DEF Core, Typed

\* The core of the invariant is inductive.
LEMMA CoreNext == Core /\ [Next]_vars => Core'
<1> SUFFICES ASSUME Core, [Next]_vars PROVE Core'
  OBVIOUS
<1>1. Typed /\ Rowed /\ Once /\ SeenRow /\ Untouched
  BY DEF Core, Once
<1>2. TypedTables' /\ TypedMoney' /\ TypedBook' /\ TypedFeed'
  BY <1>1, TypedTablesNext, TypedMoneyNext, TypedBookNext, TypedFeedNext
<1> QED BY <1>1, <1>2, RowedNext, OnceNext, SeenRowNext DEF Core, Typed

\* Settlement's state is what the tables, the stream and the feed can hold.
THEOREM SettlementTypes == Spec => []SettlementTypeOK
<1>1. ASSUME Core
      PROVE  SettlementTypeOK
  <2>1. TypedTables /\ TypedMoney /\ TypedBook /\ TypedFeed
    BY <1>1 DEF Core, Typed
  <2>2. orders \in [Order -> [status: {"none", "open", "partially_filled", "filled",
                                     "canceled", "rejected"}, filled: Nat]]
    BY <2>1 DEF TypedTables, RowValue, Statuses
  <2>3. Row \subseteq DOMAIN balance /\ balance \in [DOMAIN balance -> [available: Int, locked: Nat]]
    BY <2>1 DEF TypedTables, Account
  <2>4. commands \in Seq([op: {"place", "cancel"}, order: Order])
    <3> DEFINE AnyCommand == [op: {"place", "cancel"}, order: Order]
    <3>1. commands \in [1..Len(commands) -> Command] /\ Len(commands) \in Nat
      BY <2>1, LenProperties DEF TypedTables
    <3>2. commands \in [1..Len(commands) -> AnyCommand]
      BY <3>1 DEF Command
    <3> HIDE DEF AnyCommand
    <3>3. commands \in Seq(AnyCommand)
      BY <3>1, <3>2
    <3> QED BY <3>3 DEF AnyCommand
  <2>5. writer.at \in {"idle", "unlock", "close", "maker", "fillMaker", "fillTaker", "commit",
                       "writeMaker", "writeTaker"}
    BY <2>1 DEF TypedFeed, Steps, TradeSteps
  <2>6. calls \in [Order -> {"new", "send", "mark", "done"}]
    BY <2>1 DEF TypedTables
  <2>7. placing \in [Order -> {"new", "insert", "record", "send", "done", "gone", "owed"}]
    BY <2>1 DEF TypedTables, Stations
  <2>8. dear \subseteq Order /\ overtaken \subseteq MayCancel
    BY <2>1 DEF TypedTables, TypedBook
  <2> QED BY <2>1, <2>2, <2>3, <2>4, <2>5, <2>6, <2>7, <2>8 DEF TypedMoney, TypedBook, SettlementTypeOK
<1> QED BY <1>1, CoreInit, CoreNext, PTL DEF Spec

-----------------------------------------------------------------------------
(* What an event that closes an order means, and what has been executed.     *)

\* An order's last word; one filled at the mark price may rest in the book still.
Final(e, out) == e.type \in Closing \/ (e.type = "filled" /\ e.order \notin out)

\* Nothing comes after an order's last word, and it has left the book.
ClosingLast ==
    \A i \in 1..Len(events) : Final(events[i], outside) =>
        /\ events[i].order \notin resting
        /\ \A j \in 1..Len(events) : j > i => ~Names(events[j], events[i].order)

\* What of the trade in hand an order's row already has, and what its owner
\* has already been debited for, by the writer's next step.
WrittenAt(at, e, x) == IF \/ at = "commit" /\ Names(e, x)
                          \/ at \in {"fillTaker", "writeTaker"} /\ e.maker = x
                       THEN e.quantity ELSE 0
TakenAt(at, e, x)   == IF \/ at \in TradeSteps /\ e.order = x
                          \/ at \in TradeSteps \ {"maker"} /\ e.maker = x
                       THEN e.quantity ELSE 0
Written(x) == WrittenAt(writer.at, Event, x)
Taken(x)   == TakenAt(writer.at, Event, x)

\* The lots an order has traded, those of events not yet applied included.
Executed(x) == orders[x].filled - Written(x) + Volume(events, x)

\* The lots its owner has been debited for.
Paid(x) == orders[x].filled - Written(x) + Taken(x)

\* No more is traded than was ordered, of an order that is placed once.
Within == \A x \in Order : Plain(x) => Executed(x) + left[x] <= T(x).quantity

\* The engine's step, with what has been said before of the order it is about.
LEMMA EngineView ==
    ASSUME Core, EngineStep
    PROVE  \E x \in Order : \E new :
             /\ commands # <<>> /\ Tells(x, new)
             /\ \/ /\ Head(commands).op = "place" /\ Head(commands).order = x /\ Waiting(x) /\ Sent(x)
                   /\ x \notin resting /\ ~Named(x) /\ ~Waiting(x)' /\ Places(x, new)
                   /\ \A y \in Order : y # x => (Waiting(y)' <=> Waiting(y))
                \/ /\ Head(commands).op = "cancel" /\ Head(commands).order = Id(x) /\ Cancels(x, new)
                   /\ x \notin resting => Id(x) = x
                   /\ \A y \in Order : Waiting(y)' <=> Waiting(y)
                   /\ Id(x) \notin overtaken => Sent(Id(x)) /\ ~Waiting(Id(x))
             /\ commands' = Tail(commands)
             /\ events \in Seq(Message) /\ new \in Seq(Message) /\ events' = events \o new
             /\ UNCHANGED <<balance, tx, held, fees, abroad, orders, placing, calls, overtaken, writer, crashes>>
<1>1. Typed /\ Once /\ Untouched
  BY DEF Core, Once
<1>2. PICK x \in Order : \E new :
             /\ commands # <<>> /\ Tells(x, new)
             /\ \/ Head(commands).op = "place" /\ Head(commands).order = x /\ x \notin resting /\ Places(x, new)
                \/ /\ Head(commands).op = "cancel" /\ Head(commands).order = Id(x)
                   /\ x \notin resting => Id(x) = x
                   /\ Cancels(x, new)
             /\ commands' = Tail(commands)
             /\ UNCHANGED <<money, orders, api, writer, crashes>>
  BY <1>1, EngineTells
<1>3. PICK new :
             /\ commands # <<>> /\ Tells(x, new)
             /\ \/ Head(commands).op = "place" /\ Head(commands).order = x /\ x \notin resting /\ Places(x, new)
                \/ /\ Head(commands).op = "cancel" /\ Head(commands).order = Id(x)
                   /\ x \notin resting => Id(x) = x
                   /\ Cancels(x, new)
             /\ commands' = Tail(commands)
             /\ UNCHANGED <<money, orders, api, writer, crashes>>
  BY <1>2
<1> PICK cs \in Seq(Command) : cs = commands
  BY <1>1 DEF Typed, TypedTables
<1>5. \A k, y : Offers(cs, k, y) <=> Offers(Tail(cs), k, y) \/ (Head(cs).op = k /\ Head(cs).order = y)
  BY <1>3, CommandsShrink
<1>6. \A y : Waiting(y)' <=> Offers(Tail(cs), "place", y)
  BY <1>3 DEF Waiting
<1>7. /\ events \in Seq(Message) /\ new \in Seq(Message) /\ events' = events \o new
      /\ UNCHANGED <<balance, tx, held, fees, abroad, orders, placing, calls, overtaken, writer, crashes>>
  BY <1>1, <1>3 DEF Typed, TypedFeed, Tells, money, api
<1>8. CASE Head(commands).op = "place" /\ Head(commands).order = x /\ x \notin resting /\ Places(x, new)
  <2>1. Sent(x) /\ ~Waiting(x)'
    BY <1>1, <1>3, <1>8, TakenFirst
  <2>2. Waiting(x) /\ \A y \in Order : y # x => (Waiting(y)' <=> Waiting(y))
    BY <1>5, <1>6, <1>8 DEF Waiting
  <2>3. ~Named(x)
    BY <1>1, <2>2 DEF Untouched
  <2> QED BY <1>3, <1>7, <1>8, <2>1, <2>2, <2>3
<1>9. CASE Head(commands).op = "cancel" /\ Head(commands).order = Id(x) /\ (x \notin resting => Id(x) = x) /\ Cancels(x, new)
  <2>1. \A y \in Order : Waiting(y)' <=> Waiting(y)
    BY <1>5, <1>6, <1>9 DEF Waiting
  <2> PICK z \in Order : z = Id(x)
    BY TermsType
  <2>2. z \notin overtaken => Sent(z) /\ ~Waiting(z)'
    BY <1>1, <1>3, <1>9, TakenFirst
  <2>3. Id(x) \notin overtaken => Sent(Id(x)) /\ ~Waiting(Id(x))
    BY <2>1, <2>2
  <2> QED BY <1>3, <1>7, <1>9, <2>1, <2>3
<1> QED BY <1>3, <1>8, <1>9

\* An order's last word stays its last word.
LEMMA ClosingLastNext ==
    ASSUME Core, ClosingLast, [Next]_vars
    PROVE  ClosingLast'
<1>0. Typed /\ events \in Seq(Message)
  BY DEF Core, Typed, TypedFeed
<1>1. CASE events' = events /\ resting' = resting /\ outside' = outside
  BY <1>1 DEF ClosingLast
<1>2. CASE events # <<>> /\ events' = Tail(events) /\ resting' = resting /\ outside' = outside
  <2>1. /\ events' \in Seq(Message)
        /\ \A i \in 1..Len(events') : i + 1 \in 1..Len(events) /\ events'[i] = events[i + 1]
    BY <1>0, <1>2, VolumeTail
  <2>2. ASSUME NEW i \in 1..Len(events'), Final(events'[i], outside')
        PROVE  /\ events'[i].order \notin resting'
               /\ \A j \in 1..Len(events') : j > i => ~Names(events'[j], events'[i].order)
    <3>1. i + 1 \in 1..Len(events) /\ events'[i] = events[i + 1]
      BY <2>1
    <3>2. events'[i].order \notin resting'
      BY <1>2, <2>2, <3>1 DEF ClosingLast
    <3>3. ASSUME NEW j \in 1..Len(events'), j > i
          PROVE  ~Names(events'[j], events'[i].order)
      <4>1. j + 1 \in 1..Len(events) /\ events'[j] = events[j + 1] /\ j + 1 > i + 1
        BY <2>1, <3>3
      <4> QED BY <1>2, <2>2, <3>1, <4>1 DEF ClosingLast
    <3> QED BY <3>2, <3>3
  <2> QED BY <2>2 DEF ClosingLast
<1>3. CASE EngineStep
  <2>1. PICK x \in Order : \E new :
             /\ Tells(x, new)
             /\ \/ ~Named(x)
                \/ Cancels(x, new)
             /\ events \in Seq(Message) /\ new \in Seq(Message) /\ events' = events \o new
    BY <1>3, EngineView
  <2>2. PICK new :
             /\ Tells(x, new)
             /\ \/ ~Named(x)
                \/ Cancels(x, new)
             /\ events \in Seq(Message) /\ new \in Seq(Message) /\ events' = events \o new
    BY <2>1
  <2> PICK es \in Seq(Message) : es = events
    BY <2>2
  <2> DEFINE gs == es \o new
  <2>3. /\ Len(gs) = Len(es) + Len(new) /\ Len(es) \in Nat /\ Len(new) \in Nat
        /\ \A i \in 1..Len(gs) : gs[i] = IF i <= Len(es) THEN es[i] ELSE new[i - Len(es)]
    BY <2>2, VolumeConcat, LenProperties
  <2>4. events' = gs
    BY <2>2
  <2> HIDE DEF gs
  <2>5. /\ \A q \in Order : q # x /\ q \notin resting => q \notin resting'
        /\ \A q \in Order : q # x /\ q \notin resting => \A k \in 1..Len(new) : ~Names(new[k], q)
    <3>1. ASSUME NEW q \in Order, q # x, q \notin resting
          PROVE  q \notin resting'
      <4>1. left'[q] + Volume(new, q) = left[q] /\ (q \in resting' <=> left'[q] > 0)
            /\ left'[q] \in Nat
        BY <2>2, <3>1 DEF Tells
      <4>2. Volume(new, q) \in Nat
        BY <2>2, VolumeType
      <4>3. left[q] = 0
        BY <1>0, <3>1 DEF Typed, TypedBook
      <4> QED BY <4>1, <4>2, <4>3
    <3>2. \A k \in 1..Len(new) : new[k].order = x /\ (new[k].maker = x \/ new[k].maker \in resting)
      BY <2>2 DEF Tells
    <3> QED BY <3>1, <3>2 DEF Names
  <2>6. ASSUME NEW i \in 1..Len(gs), Final(gs[i], outside')
        PROVE  /\ gs[i].order \notin resting'
               /\ \A j \in 1..Len(gs) : j > i => ~Names(gs[j], gs[i].order)
    <3>1. CASE i <= Len(es)
      <4>1. i \in 1..Len(es) /\ gs[i] = es[i]
        BY <2>3, <3>1
      <4> PICK z : z = es[i].order
        OBVIOUS
      <4>2. /\ z \in Order /\ z \notin resting
            /\ \A j \in 1..Len(es) : j > i => ~Names(es[j], z)
            /\ Named(z)
        <5>1. es[i] \in Message
          BY <4>1, ElementOfSeq
        <5>2. Named(z)
          BY <4>1 DEF Named, Mentions, Names
        <5>3. Final(es[i], outside)
          BY <2>2, <2>6, <4>1 DEF Final, Tells
        <5> QED BY <4>1, <5>1, <5>2, <5>3 DEF ClosingLast, Message
      <4>3. z \notin resting' /\ \A k \in 1..Len(new) : ~Names(new[k], z)
        <5>1. CASE z = x
          <6>1. Cancels(x, new) /\ x \notin resting
            BY <2>2, <4>2, <5>1
          <6>2. new = <<>> /\ resting' = resting
            BY <6>1 DEF Cancels
          <6>3. Len(new) = 0
            BY <6>2
          <6> QED BY <4>2, <6>2, <6>3
        <5> QED BY <2>5, <4>2, <5>1
      <4>4. ASSUME NEW j \in 1..Len(gs), j > i
            PROVE  ~Names(gs[j], z)
        <5>1. CASE j <= Len(es)
          BY <2>3, <4>2, <4>4, <5>1
        <5>2. CASE ~(j <= Len(es))
          <6>1. j - Len(es) \in 1..Len(new) /\ gs[j] = new[j - Len(es)]
            BY <2>3, <5>2
          <6> QED BY <4>3, <6>1
        <5> QED BY <5>1, <5>2
      <4> QED BY <4>1, <4>3, <4>4
    <3>2. CASE ~(i <= Len(es))
      <4>1. i - Len(es) \in 1..Len(new) /\ gs[i] = new[i - Len(es)]
        BY <2>3, <3>2
      <4>2. i - Len(es) = Len(new) /\ gs[i].order = x /\ x \notin resting'
        BY <2>2, <2>6, <4>1 DEF Tells, Final
      <4>3. \A j \in 1..Len(gs) : ~(j > i)
        BY <2>3, <4>2
      <4> QED BY <4>2, <4>3
    <3> QED BY <3>1, <3>2
  <2> QED BY <2>4, <2>6 DEF ClosingLast
<1>4. CASE Writer
  <2>1. /\ events # <<>> /\ (events' = events \/ events' = Tail(events))
        /\ resting' = resting /\ outside' = outside
    BY <1>0, <1>4, WriterEvents, WriterFrame
  <2> QED BY <1>1, <1>2, <2>1
<1>5. CASE Crash
  <2>1. events' = <<>> /\ Len(<<>>) = 0 /\ 1..0 = {}
    BY <1>5 DEF Crash
  <2> QED BY <2>1 DEF ClosingLast
<1>6. ASSUME NEW x \in Order, Api(x)
      PROVE  ClosingLast'
  BY <1>1, <1>6, ApiFrame
<1>7. CASE UNCHANGED vars
  BY <1>1, <1>7 DEF vars
<1> QED BY <1>3, <1>4, <1>5, <1>6, <1>7 DEF Next, Api

\* What of the trade in hand has been written and taken is at most what it is about.
LEMMA WrittenType ==
    ASSUME Core, NEW x \in Order
    PROVE  /\ Written(x) \in Nat /\ Written(x) <= Taken(x)
           /\ Taken(x) \in Nat /\ Taken(x) <= Volume(events, x) /\ Volume(events, x) \in Nat
           /\ writer.at \notin TradeSteps => Written(x) = 0 /\ Taken(x) = 0
           /\ ~Named(x) => Written(x) = 0 /\ Taken(x) = 0 /\ Volume(events, x) = 0
           /\ orders[x].filled \in Nat /\ left[x] \in Nat
<1>0. TypedTables /\ TypedFeed /\ TypedBook /\ events \in Seq(Message) /\ writer.at \in Steps
  BY DEF Core, Typed, TypedFeed
<1>1. orders[x].filled \in Nat /\ left[x] \in Nat
  BY <1>0 DEF TypedTables, TypedBook, RowValue
<1>2. Volume(events, x) \in Nat
  BY <1>0, VolumeType
<1>3. writer.at \notin TradeSteps => Written(x) = 0 /\ Taken(x) = 0
  BY DEF Written, Taken, WrittenAt, TakenAt, TradeSteps
<1>4. ~Named(x) => Volume(events, x) = 0
  BY <1>0, VolumeUnnamed DEF Named
<1>5. CASE writer.at \in TradeSteps
  <2>1. events # <<>> /\ Event.type = "trade"
    BY <1>0, <1>5 DEF TypedFeed, TradeSteps
  <2>2. Event.quantity \in Nat /\ Named(Event.order) /\ Named(Event.maker)
    BY <1>0, <2>1, InHandType
  <2>3. Lots(Event, x) <= Volume(events, x)
    <3>1. 1 \in 1..Len(events) /\ Event = events[1]
      BY <1>0, <2>1, InHandType
    <3> QED BY <1>0, <3>1, VolumeType
  <2>4. Written(x) \in Nat /\ Written(x) <= Taken(x) /\ Taken(x) \in Nat /\ Taken(x) <= Lots(Event, x)
    BY <2>1, <2>2 DEF Written, Taken, WrittenAt, TakenAt, Lots, Names, TradeSteps
  <2>5. ~Named(x) => Written(x) = 0 /\ Taken(x) = 0
    BY <2>2 DEF Written, Taken, WrittenAt, TakenAt, Names
  <2>6. Lots(Event, x) \in Nat
    BY <2>2 DEF Lots
  <2> QED BY <1>1, <1>2, <1>4, <1>5, <2>3, <2>4, <2>5, <2>6
<1>6. CASE writer.at \notin TradeSteps
  BY <1>1, <1>2, <1>3, <1>4, <1>6
<1> QED BY <1>5, <1>6

\* The writer changes neither what has been executed, nor, but by taking
\* payment, what has been paid.
LEMMA WriterLots ==
    ASSUME Core, Writer, NEW x \in Order, Plain(x)
    PROVE  /\ Executed(x)' = Executed(x)
           /\ Paid(x)' = Paid(x) + IF (PayTaker /\ x = Event.order) \/ (PayMaker /\ x = Event.maker)
                                   THEN Event.quantity ELSE 0
<1>0. TypedTables /\ TypedFeed /\ Typed /\ Rowed /\ Untouched /\ SeenRow /\ events \in Seq(Message) /\ orders \in [Order -> RowValue]
  BY DEF Core, Typed, TypedFeed, TypedTables, Once
<1>a. events # <<>>
  BY <1>0, WriterEvents
<1>b. /\ Event.order \in Order /\ Event.maker \in Order /\ Event.quantity \in Nat /\ Fair(Event)
  BY <1>0, <1>a, InHandType
<1>i. ~IsExternal(x) /\ Id(x) = x /\ Id(Event.order) \in Order /\ Id(Event.maker) \in Order
  BY <1>b, TermsType DEF Plain
<1>c. x = Event.order \/ x = Event.maker => orders[x].status # "none"
  BY <1>0, <1>a, <1>i, NamedSent
<1>n. (Id(Event.order) = x <=> Event.order = x) /\ (Id(Event.maker) = x <=> Event.maker = x)
  BY <1>0, <1>a, <1>b, <1>i, NamedSent, OnlyItself
<1> PICK e : e = Event
  OBVIOUS
<1> PICK q \in Nat : q = e.quantity
  BY <1>b
<1> PICK f \in Nat : f = orders[x].filled
  BY <1>0 DEF RowValue
<1> PICK v \in Nat : v = Volume(events, x)
  BY <1>0, VolumeType
<1> PICK a : a = writer.at
  OBVIOUS
<1>d. Executed(x) = f - WrittenAt(a, e, x) + v /\ Paid(x) = f - WrittenAt(a, e, x) + TakenAt(a, e, x)
  BY DEF Executed, Paid, Written, Taken
\* Steps that keep the event in hand, to the next step b.
<1>1. ASSUME NEW b, writer'.at = b, events' = events, NEW g, orders'[x].filled = g
      PROVE  Executed(x)' = g - WrittenAt(b, e, x) + v /\ Paid(x)' = g - WrittenAt(b, e, x) + TakenAt(b, e, x)
  <2>1. Event' = e /\ Volume(events', x) = v
    BY <1>1 DEF Event
  <2>2. Written(x)' = WrittenAt(b, e, x) /\ Taken(x)' = TakenAt(b, e, x)
    BY <1>1, <2>1 DEF Written, Taken
  <2>3. Executed(x)' = orders'[x].filled - Written(x)' + Volume(events', x)
        /\ Paid(x)' = orders'[x].filled - Written(x)' + Taken(x)'
    BY DEF Executed, Paid
  <2> QED BY <1>1, <2>1, <2>2, <2>3
\* Steps that turn to the next event.
<1>2. ASSUME Finish, orders'[x].filled = f
      PROVE  Executed(x)' = f + (v - Lots(e, x)) /\ Paid(x)' = f /\ Lots(e, x) \in Nat
  <2>1. Written(x)' = 0 /\ Taken(x)' = 0
    BY <1>2 DEF Finish, Idle, Written, Taken, WrittenAt, TakenAt, TradeSteps
  <2>2. Volume(events', x) = v - Lots(e, x) /\ Lots(e, x) \in Nat
    <3> PICK es \in Seq(Message) : es = events
      BY <1>0
    <3>1. Volume(es, x) = Lots(Head(es), x) + Volume(Tail(es), x) /\ Volume(Tail(es), x) \in Nat
          /\ Lots(Head(es), x) \in Nat
      BY <1>a, VolumeTail
    <3>2. Head(es) = e /\ events' = Tail(es)
      BY <1>2 DEF Finish, Event
    <3> QED BY <3>1, <3>2
  <2>3. Executed(x)' = orders'[x].filled - Written(x)' + Volume(events', x)
        /\ Paid(x)' = orders'[x].filled - Written(x)' + Taken(x)'
    BY DEF Executed, Paid
  <2> QED BY <1>2, <2>1, <2>2, <2>3
<1>3. ASSUME Finish, a \notin TradeSteps, e.type # "trade", orders'[x].filled = f
      PROVE  Executed(x)' = Executed(x) /\ Paid(x)' = Paid(x) /\ Paid(x) = f /\ ~PayTaker /\ ~PayMaker
  <2>1. Lots(e, x) = 0 /\ WrittenAt(a, e, x) = 0 /\ TakenAt(a, e, x) = 0
    BY <1>3 DEF Lots, WrittenAt, TakenAt, TradeSteps
  <2>2. writer'.at = "idle"
    BY <1>3 DEF Finish, Idle
  <2>3. ~PayTaker /\ ~PayMaker
    BY <1>0, <2>2 DEF PayTaker, PayMaker, TypedFeed
  <2> QED BY <1>d, <1>2, <1>3, <2>1, <2>3
<1>4. ASSUME NEW s \in Statuses, SetStatus(Id(Event.order), s)
      PROVE  orders'[x].filled = f
  BY <1>0, <1>i, <1>4, StatusSet
<1>5. PayTaker => a = "idle" /\ writer'.at = "maker" /\ e.type = "trade"
  BY <1>0 DEF PayTaker, InHand, TypedFeed
<1>6. PayMaker => a = "maker" /\ writer'.at = "fillMaker"
  BY <1>0 DEF PayMaker, TypedFeed
<1>8. CASE ApplyStatus
  <2>1. /\ SetStatus(Id(Event.order), "open") \/ SetStatus(Id(Event.order), "filled")
        /\ Finish /\ a = "idle" /\ e.type # "trade"
    BY <1>8 DEF ApplyStatus, InHand
  <2>2. orders'[x].filled = f
    BY <1>4, <2>1 DEF Statuses
  <2> QED BY <1>3, <2>1, <2>2 DEF TradeSteps
<1>9. CASE DropOutside
  <2>1. Finish /\ a = "idle" /\ e.type # "trade" /\ orders' = orders
    BY <1>9 DEF DropOutside, InHand
  <2> QED BY <1>3, <2>1 DEF TradeSteps
<1>10. CASE ReadClosing
  <2>1. a = "idle" /\ e.type # "trade"
    BY <1>10 DEF ReadClosing, InHand
  <2>2. CASE writer' = [at |-> "unlock", seen |-> orders[Id(Event.order)]] /\ orders' = orders /\ events' = events
    <3>1. Executed(x)' = f - WrittenAt("unlock", e, x) + v /\ Paid(x)' = f - WrittenAt("unlock", e, x) + TakenAt("unlock", e, x)
      BY <1>1, <2>2
    <3> QED BY <1>d, <1>5, <1>6, <2>1, <2>2, <3>1 DEF WrittenAt, TakenAt, TradeSteps
  <2>3. CASE Finish
    <3>1. orders'[x].filled = f
      BY <1>10 DEF ReadClosing
    <3> QED BY <1>3, <2>1, <2>3, <3>1 DEF TradeSteps
  <2>4. CASE writer'.at = "close" /\ orders' = orders /\ events' = events
    <3>1. Executed(x)' = f - WrittenAt("close", e, x) + v /\ Paid(x)' = f - WrittenAt("close", e, x) + TakenAt("close", e, x)
      BY <1>1, <2>4
    <3> QED BY <1>d, <1>5, <1>6, <2>1, <2>4, <3>1 DEF WrittenAt, TakenAt, TradeSteps
  <2> QED BY <1>10, <2>2, <2>3, <2>4 DEF ReadClosing, Idle
<1>11. CASE Unlock
  <2>1. a = "unlock" /\ writer'.at = "close" /\ orders' = orders /\ events' = events
    BY <1>11 DEF Unlock, Idle
  <2>2. Executed(x)' = f - WrittenAt("close", e, x) + v /\ Paid(x)' = f - WrittenAt("close", e, x) + TakenAt("close", e, x)
    BY <1>1, <2>1
  <2> QED BY <1>d, <1>5, <1>6, <2>1, <2>2 DEF WrittenAt, TakenAt, TradeSteps
<1>e. CASE Close
  <2>1. a = "close" /\ Finish /\ SetStatus(Id(Event.order), Event.type) /\ Event.type \in Closing
    BY <1>0, <1>e DEF Close, TypedFeed
  <2>2. orders'[x].filled = f
    BY <1>4, <2>1 DEF Statuses, Closing
  <2> QED BY <1>3, <2>1, <2>2 DEF TradeSteps, Closing
<1>12. CASE PayTaker
  <2>1. a = "idle" /\ writer'.at = "maker" /\ events' = events /\ orders'[x].filled = f /\ ~PayMaker
    BY <1>5, <1>6, <1>12 DEF PayTaker
  <2>2. Executed(x)' = f - WrittenAt("maker", e, x) + v /\ Paid(x)' = f - WrittenAt("maker", e, x) + TakenAt("maker", e, x)
    BY <1>1, <2>1
  <2>3. WrittenAt("maker", e, x) = 0 /\ WrittenAt(a, e, x) = 0 /\ TakenAt(a, e, x) = 0
        /\ TakenAt("maker", e, x) = IF x = e.order THEN q ELSE 0
    BY <2>1 DEF WrittenAt, TakenAt, TradeSteps
  <2> QED BY <1>d, <1>12, <2>1, <2>2, <2>3
<1>13. CASE PayMaker
  <2>1. a = "maker" /\ writer'.at = "fillMaker" /\ events' = events /\ orders'[x].filled = f /\ ~PayTaker
    BY <1>5, <1>6, <1>13 DEF PayMaker
  <2>2. Executed(x)' = f - WrittenAt("fillMaker", e, x) + v /\ Paid(x)' = f - WrittenAt("fillMaker", e, x) + TakenAt("fillMaker", e, x)
    BY <1>1, <2>1
  <2>3. e.order # e.maker
    BY <1>0, <1>a, <1>b, <2>1 DEF TypedFeed, TradeSteps, Fair
  <2>4. WrittenAt("fillMaker", e, x) = 0 /\ WrittenAt(a, e, x) = 0
        /\ TakenAt(a, e, x) = (IF x = e.order THEN q ELSE 0)
        /\ TakenAt("fillMaker", e, x) = IF x = e.order \/ x = e.maker THEN q ELSE 0
    BY <2>1 DEF WrittenAt, TakenAt, TradeSteps
  <2> QED BY <1>d, <1>13, <2>1, <2>2, <2>3, <2>4
<1>14. CASE ReadFilled
  <2>1. /\ \/ a = "fillMaker" /\ writer'.at = "writeMaker"
           \/ a = "fillTaker" /\ writer'.at = "writeTaker"
        /\ events' = events /\ orders'[x].filled = f
    BY <1>14 DEF ReadFilled
  <2> PICK b : b = writer'.at
    OBVIOUS
  <2>2. Executed(x)' = f - WrittenAt(b, e, x) + v /\ Paid(x)' = f - WrittenAt(b, e, x) + TakenAt(b, e, x)
    BY <1>1, <2>1
  <2>3. WrittenAt(b, e, x) = WrittenAt(a, e, x) /\ TakenAt(b, e, x) = TakenAt(a, e, x)
    BY <2>1 DEF WrittenAt, TakenAt, TradeSteps
  <2>4. ~PayTaker /\ ~PayMaker
    BY <1>5, <1>6, <2>1
  <2>5. Paid(x) \in Int
    BY <1>d, <1>b DEF WrittenAt, TakenAt
  <2> QED BY <1>d, <2>2, <2>3, <2>4, <2>5
<1>15. CASE WriteFilled
  <2>1. /\ \/ a = "writeMaker" /\ writer'.at = "fillTaker"
              /\ orders' = [orders EXCEPT ![Id(Event.maker)] = Filled(Event.maker, Event.quantity)]
           \/ a = "writeTaker" /\ writer'.at = "commit"
              /\ orders' = [orders EXCEPT ![Id(Event.order)] = Filled(Event.order, Event.quantity)]
        /\ events' = events
    BY <1>15 DEF WriteFilled, Idle
  <2>2. ~PayTaker /\ ~PayMaker
    BY <1>5, <1>6, <2>1
  <2>3. e.order # e.maker
    BY <1>0, <1>a, <1>b, <2>1 DEF TypedFeed, TradeSteps, Fair
  <2>4. Filled(x, q).filled = writer.seen.filled + IF writer.seen.status = "none" THEN 0 ELSE q
    BY <1>0, FilledType
  <2>5. CASE a = "writeMaker"
    <3>1. orders' = [orders EXCEPT ![Id(e.maker)] = Filled(e.maker, q)] /\ writer'.at = "fillTaker"
      BY <2>1, <2>5
    <3>2. x = e.maker => writer.seen.filled = f /\ writer.seen.status # "none"
      BY <1>0, <1>c, <1>i, <2>5 DEF SeenRow
    <3>3. orders'[x].filled = IF x = e.maker THEN f + q ELSE f
      BY <1>0, <1>i, <1>n, <2>4, <3>1, <3>2
    <3> PICK g \in Nat : g = IF x = e.maker THEN f + q ELSE f
      OBVIOUS
    <3>4. Executed(x)' = g - WrittenAt("fillTaker", e, x) + v /\ Paid(x)' = g - WrittenAt("fillTaker", e, x) + TakenAt("fillTaker", e, x)
      BY <1>1, <2>1, <3>1, <3>3
    <3>5. WrittenAt("fillTaker", e, x) = (IF x = e.maker THEN q ELSE 0) /\ WrittenAt(a, e, x) = 0
      BY <2>5 DEF WrittenAt
    <3>6. TakenAt("fillTaker", e, x) = TakenAt(a, e, x) /\ TakenAt(a, e, x) \in Nat
      BY <2>5 DEF TakenAt, TradeSteps
    <3> QED BY <1>d, <2>2, <3>4, <3>5, <3>6
  <2>6. CASE a = "writeTaker"
    <3>1. orders' = [orders EXCEPT ![Id(e.order)] = Filled(e.order, q)] /\ writer'.at = "commit"
      BY <2>1, <2>6
    <3>2. x = e.order => writer.seen.filled = f /\ writer.seen.status # "none"
      BY <1>0, <1>c, <1>i, <2>6 DEF SeenRow
    <3>3. orders'[x].filled = IF x = e.order THEN f + q ELSE f
      BY <1>0, <1>i, <1>n, <2>4, <3>1, <3>2
    <3> PICK g \in Nat : g = IF x = e.order THEN f + q ELSE f
      OBVIOUS
    <3>4. Executed(x)' = g - WrittenAt("commit", e, x) + v /\ Paid(x)' = g - WrittenAt("commit", e, x) + TakenAt("commit", e, x)
      BY <1>1, <2>1, <3>1, <3>3
    <3>5. WrittenAt("commit", e, x) = (IF x = e.maker \/ x = e.order THEN q ELSE 0)
          /\ WrittenAt(a, e, x) = IF x = e.maker THEN q ELSE 0
      BY <2>6 DEF WrittenAt, Names
    <3>6. TakenAt("commit", e, x) = TakenAt(a, e, x) /\ TakenAt(a, e, x) \in Nat
      BY <2>6 DEF TakenAt, TradeSteps
    <3> QED BY <1>d, <2>2, <2>3, <3>4, <3>5, <3>6
  <2> QED BY <2>1, <2>5, <2>6
<1>16. CASE Commit
  <2>1. a = "commit" /\ Finish
        /\ orders' = [o \in Order |->
                     IF IsExternal(o) /\ o \in {Event.order, Event.maker} /\ orders[o].status = "none"
                     THEN [status |-> "filled", filled |-> Event.quantity] ELSE orders[o]]
    BY <1>16 DEF Commit
  <2>2. orders'[x].filled = f
    BY <1>i, <2>1
  <2>3. e.type = "trade"
    BY <1>0, <2>1 DEF TypedFeed, TradeSteps
  <2>4. Lots(e, x) = WrittenAt(a, e, x) /\ TakenAt(a, e, x) = WrittenAt(a, e, x) /\ WrittenAt(a, e, x) \in Nat
    BY <2>1, <2>3 DEF Lots, WrittenAt, TakenAt, Names, TradeSteps
  <2>5. ~PayTaker /\ ~PayMaker
    BY <1>5, <1>6, <2>1
  <2> QED BY <1>d, <1>2, <2>1, <2>2, <2>4, <2>5
<1> QED BY <1>8, <1>9, <1>10, <1>11, <1>12, <1>13, <1>14, <1>15, <1>16, <1>e DEF Writer

\* The calls of the API execute nothing.
LEMMA ApiLots ==
    ASSUME Core, NEW x \in Order, Api(x), NEW y \in Order
    PROVE  Executed(y)' = Executed(y) /\ Paid(y)' = Paid(y) /\ (Named(y)' <=> Named(y))
<1>1. events' = events /\ writer' = writer
  BY ApiFrame
<1>2. orders'[y].filled = orders[y].filled
  <2>1. orders'[x].filled = orders[x].filled /\ \A z \in Order : z # x => orders'[z] = orders[z]
    BY ApiSteps DEF Core
  <2> QED BY <2>1
<1> QED BY <1>1, <1>2 DEF Executed, Paid, Written, Taken, Event, Named

\* What the engine does is executed at once, and paid for later.
LEMMA EngineLots ==
    ASSUME Core, writer' = writer, orders' = orders,
           NEW new \in Seq(Message), events' = events \o new, NEW y \in Order
    PROVE  /\ Executed(y)' = Executed(y) + Volume(new, y) /\ Paid(y)' = Paid(y)
           /\ Named(y)' <=> Named(y) \/ Mentions(new, y)
<1>0. events \in Seq(Message) /\ (writer.at # "idle" => events # <<>>)
  BY DEF Core, Typed, TypedFeed
<1> PICK es \in Seq(Message) : es = events
  BY <1>0
<1>1. Volume(es \o new, y) = Volume(es, y) + Volume(new, y)
  BY VolumesAdd
<1>2. Mentions(es \o new, y) <=> Mentions(es, y) \/ Mentions(new, y)
  BY MessagesGrow
<1>3. es # <<>> => Head(es \o new) = Head(es)
  OBVIOUS
<1>4. Written(y)' = Written(y) /\ Taken(y)' = Taken(y)
  <2>1. CASE writer.at = "idle"
    BY <2>1 DEF Written, Taken, WrittenAt, TakenAt, TradeSteps
  <2>2. CASE writer.at # "idle"
    <3>1. Event' = Event
      BY <1>0, <1>3, <2>2 DEF Event
    <3> QED BY <3>1 DEF Written, Taken
  <2> QED BY <2>1, <2>2
<1>5. Named(y)' <=> Mentions(es \o new, y)
  BY DEF Named
<1>6. Executed(y)' = orders'[y].filled - Written(y)' + Volume(events', y)
      /\ Paid(y)' = orders'[y].filled - Written(y)' + Taken(y)'
  BY DEF Executed, Paid
<1>7. Volume(es, y) \in Nat /\ Volume(new, y) \in Nat /\ Written(y) \in Nat /\ orders[y].filled \in Nat
  BY VolumeType, WrittenType
<1>8. Volume(events', y) = Volume(events, y) + Volume(new, y)
  BY <1>1
<1> QED BY <1>2, <1>4, <1>5, <1>6, <1>7, <1>8 DEF Executed, Paid, Named

\* No order executes, or is paid for, beyond its quantity.
LEMMA WithinNext ==
    ASSUME Core, Within, [Next]_vars
    PROVE  Within'
<1> SUFFICES ASSUME NEW y \in Order, Plain(y)'
             PROVE  Executed(y)' + left'[y] <= T(y).quantity
  BY DEF Within
<1>p. Plain(y)
  <2>1. \A z : Plain(z)' => Plain(z)
    BY PlacingMoves DEF Core
  <2> QED BY <2>1
<1>0. Executed(y) + left[y] <= T(y).quantity
  BY <1>p DEF Within
<1>a. /\ Written(y) \in Nat /\ Written(y) <= Volume(events, y) /\ Volume(events, y) \in Nat
      /\ ~Named(y) => Written(y) = 0 /\ Volume(events, y) = 0
      /\ orders[y].filled \in Nat /\ left[y] \in Nat
  BY WrittenType
<1>b. Executed(y) \in Int /\ T(y).quantity \in Nat
  BY <1>a, TermsType DEF Executed
<1>1. ASSUME NEW x \in Order, Api(x)
      PROVE  Executed(y)' + left'[y] <= T(y).quantity
  <2>1. Executed(y)' = Executed(y) /\ left'[y] = left[y]
    BY <1>1, ApiFrame, ApiLots
  <2> QED BY <1>0, <2>1
<1>2. CASE EngineStep
  <2>1. PICK x \in Order : \E new :
             /\ Tells(x, new)
             /\ \/ Waiting(x) /\ x \notin resting /\ ~Named(x) /\ Places(x, new)
                \/ Cancels(x, new)
             /\ new \in Seq(Message) /\ events' = events \o new
             /\ UNCHANGED <<orders, writer>>
    BY <1>2, EngineView
  <2>2. PICK new :
             /\ Tells(x, new)
             /\ \/ Waiting(x) /\ x \notin resting /\ ~Named(x) /\ Places(x, new)
                \/ Cancels(x, new)
             /\ new \in Seq(Message) /\ events' = events \o new
             /\ UNCHANGED <<orders, writer>>
    BY <2>1
  <2>3. Executed(y)' = Executed(y) + Volume(new, y) /\ Volume(new, y) \in Nat
    BY <2>2, EngineLots, VolumeType
  <2>4. CASE y # x
    <3>1. left'[y] + Volume(new, y) = left[y] /\ left'[y] \in Nat
      BY <2>2, <2>4 DEF Tells
    <3> QED BY <1>0, <1>a, <1>b, <2>3, <3>1
  <2>5. CASE y = x /\ Cancels(x, new)
    <3>1. left'[y] <= left[y] /\ left'[y] \in Nat /\ Volume(new, y) = 0
      BY <1>a, <2>5 DEF Cancels, Tells
    <3>2. Executed(y)' = Executed(y)
      BY <1>b, <2>3, <3>1
    <3> QED BY <1>0, <1>a, <1>b, <3>1, <3>2
  <2>6. CASE y = x /\ Waiting(x) /\ ~Named(x) /\ Places(x, new)
    <3>1. orders[y].filled = 0
      BY <1>p, <2>6 DEF Core, Once, Untouched
    <3>2. Executed(y) = 0
      BY <1>a, <2>6, <3>1 DEF Executed
    <3>3. left'[y] + Volume(new, y) <= T(y).quantity /\ left'[y] \in Nat
      BY <2>2, <2>6 DEF Places, Tells
    <3> QED BY <2>3, <3>2, <3>3
  <2> QED BY <2>2, <2>4, <2>5, <2>6
<1>3. CASE Writer
  <2>1. Executed(y)' = Executed(y) /\ left'[y] = left[y]
    BY <1>3, <1>p, WriterLots, WriterFrame
  <2> QED BY <1>0, <2>1
<1>4. CASE Crash
  <2>1. events' = <<>> /\ writer' = Idle /\ orders' = orders /\ left' = left
    BY <1>4 DEF Crash, engine
  <2>2. Written(y)' = 0
    BY <2>1 DEF Idle, Written, WrittenAt
  <2>3. Volume(<<>>, y) = 0
    <3> DEFINE es == <<>>
    <3>1. es \in Seq(Message) /\ Len(es) = 0 /\ 1..0 = {}
      OBVIOUS
    <3> HIDE DEF es
    <3>2. Volume(es, y) = 0
      BY <3>1, VolumeNone
    <3> QED BY <3>2 DEF es
  <2>4. Executed(y)' = orders'[y].filled - Written(y)' + Volume(events', y)
    BY DEF Executed
  <2>5. Executed(y)' = orders[y].filled
    BY <1>a, <2>1, <2>2, <2>3, <2>4
  <2> QED BY <1>0, <1>a, <1>b, <2>1, <2>5 DEF Executed
<1>5. CASE UNCHANGED vars
  <2>1. Executed(y)' = Executed(y) /\ left'[y] = left[y]
    BY <1>5 DEF vars, Executed, Written, Event
  <2> QED BY <1>0, <2>1
<1> QED BY <1>1, <1>2, <1>3, <1>4, <1>5 DEF Next, Api

-----------------------------------------------------------------------------
(* Margin. *)

\* A row that only orders in budget are paid from: those placed once, at no more
\* than their margin was locked for.
Clear(r) == \A o \in Order : Pays(o) = r => InBudget(o)

\* An order whose margin is locked and that the engine has still to hear of, has
\* in its book, or has said something of that has not been applied; of its last
\* word, nothing is left to be done once its margin is released.
Awaited(x) == Named(x) /\ ~(writer.at = "close" /\ Event.order = x)
Live(x) == placing[x] \in {"insert", "record", "send"} \/ Waiting(x) \/ x \in resting \/ Awaited(x)

\* What of a row is locked for an order: the margin of the lots its owner has
\* not been debited for, until the engine's last word on it has been applied.
Claim(r, x) == IF Pays(x) = r /\ Live(x) THEN Margin(x, T(x).quantity - Paid(x)) ELSE 0

Covered == crashes = 0 => \A r \in Row : Clear(r) =>
    balance[r].locked >= SumFunctionOnSet([x \in Order |-> Claim(r, x)], Order)

\* In budget, an order lives as itself only.
LEMMA ClearRow ==
    ASSUME Core, NEW r \in Row, Clear(r), NEW x \in Order, Pays(x) = r
    PROVE  /\ ~IsExternal(x) /\ Id(x) \notin dear
           /\ Plain(x) \/ (~Live(x) /\ ~Plain(x))
<1>1. ~IsExternal(x)
  BY SettlementAssumption DEF IsExternal, Pays, Row
<1>2. Id(x) \in Order /\ Pays(Id(x)) = r
  BY TermsType DEF Pays
<1>3. ~Doubled(Id(x)) /\ Id(x) \notin dear
  BY <1>2 DEF Clear, InBudget
<1>4. CASE Id(x) = x
  BY <1>1, <1>3, <1>4 DEF Plain
<1>5. CASE Id(x) # x
  <2>1. placing[x] = "new"
    BY <1>3, <1>5 DEF Doubled, Again
  <2>2. ~Waiting(x) /\ x \notin resting /\ ~Named(x)
    BY <2>1 DEF Core, Once, Unsent, Untouched, Sent
  <2> QED BY <1>1, <1>3, <1>5, <2>1, <2>2 DEF Live, Awaited, Plain
<1> QED BY <1>4, <1>5

\* An order that is in budget has been so.
LEMMA BudgetBefore ==
    ASSUME Core, [Next]_vars
    PROVE  \A o \in Order : InBudget(o)' => InBudget(o)
<1>1. \A x \in Order : placing[x] # "new" => placing'[x] # "new"
  BY PlacingMoves DEF Core
<1>2. dear \subseteq dear'
  <2>1. ASSUME NEW x \in Order, Api(x)
        PROVE  dear \subseteq dear'
    BY <2>1, ApiFrame
  <2>2. CASE EngineStep
    <3>1. PICK x \in Order : \E new : Tells(x, new)
      BY <2>2, EngineView
    <3> QED BY <3>1 DEF Tells
  <2>3. CASE Writer
    BY <2>3, WriterFrame
  <2>4. CASE Crash
    BY <2>4 DEF Crash, engine
  <2>5. CASE UNCHANGED vars
    BY <2>5 DEF vars
  <2> QED BY <2>1, <2>2, <2>3, <2>4, <2>5 DEF Next, Api
<1> QED BY <1>1, <1>2 DEF InBudget, Doubled, Again

\* A sum in which one term rises by at most d and no other does.
LEMMA SumAtMost ==
    ASSUME NEW S, NEW f, Numbers(f, S), NEW g, Numbers(g, S), NEW a \in S, NEW d \in Int,
           g[a] <= f[a] + d, \A x \in S \ {a} : g[x] <= f[x]
    PROVE  SumFunctionOnSet(g, S) <= SumFunctionOnSet(f, S) + d
<1>1. /\ Numbers(f, S \ {a}) /\ SumFunctionOnSet(f, S) = f[a] + SumFunctionOnSet(f, S \ {a})
      /\ Numbers(g, S \ {a}) /\ SumFunctionOnSet(g, S) = g[a] + SumFunctionOnSet(g, S \ {a})
  BY SumWithout
<1>2. SumFunctionOnSet(g, S \ {a}) <= SumFunctionOnSet(f, S \ {a})
  BY <1>1, SumMonotone
<1>3. f[a] \in Int /\ g[a] \in Int
  BY DEF Numbers
<1>4. SumFunctionOnSet(f, S \ {a}) \in Int /\ SumFunctionOnSet(g, S \ {a}) \in Int
  BY <1>1, SumType
<1> QED BY <1>1, <1>2, <1>3, <1>4

\* Margins of more and of fewer lots.
LEMMA MarginsAdd ==
    ASSUME NEW x \in Order, NEW m \in Nat, NEW n \in Nat
    PROVE  /\ Margin(x, m) \in Nat /\ Margin(x, n) \in Nat
           /\ Margin(x, m + n) = Margin(x, m) + Margin(x, n)
<1>1. Margin(x, m) \in Nat /\ Margin(x, n) \in Nat
  BY MarginType
<1>2. T(x).price \in Nat
  BY TermsType
<1> PICK p \in Nat : p = T(x).price
  BY <1>2
<1>3. p * (m + n) = p * m + p * n
  OBVIOUS
<1> QED BY <1>1, <1>3 DEF Margin, Cost

\* Who trades in budget is debited no more than the margin of what it trades.
LEMMA DebitWithinMargin ==
    ASSUME Core, events # <<>>, Event.type = "trade", NEW x \in {Event.order, Event.maker}, Id(x) \notin dear
    PROVE  Debit(x, Event) <= Margin(x, Event.quantity)
<1>1. /\ Event.order \in Order /\ Event.maker \in Order /\ Event.quantity \in Nat /\ Event.price \in Nat
      /\ Fair(Event) /\ Cheap(Event, dear)
  BY InHandType DEF Core, Typed
<1>2. x \in Order /\ T(x).price \in Nat
  BY <1>1, TermsType
<1>3. CASE T(x).side # "buy"
  BY <1>1, <1>3 DEF Debit, Margin, Cost
<1>4. CASE T(x).side = "buy"
  <2>1. Event.price <= T(x).price
    BY <1>1, <1>2, <1>4 DEF Fair, Cheap
  <2> PICK p \in Nat : p = Event.price
    BY <1>1
  <2> PICK k \in Nat : T(x).price = p + k
    <3>1. T(x).price - p \in Nat /\ T(x).price = p + (T(x).price - p)
      BY <1>2, <2>1
    <3> QED BY <3>1
  <2> PICK q \in Nat : q = Event.quantity
    BY <1>1
  <2>2. (p + k) * q = p * q + k * q
    OBVIOUS
  <2> PICK m \in Nat, n \in Nat : m = p * q /\ n = k * q
    BY Products
  <2>3. p * q <= (p + k) * q
    BY <2>2
  <2> QED BY <1>4, <2>3 DEF Debit, Margin, Cost
<1> QED BY <1>3, <1>4

\* A row in budget is claimed by its owner's own orders, for what has not been paid.
LEMMA ClaimType ==
    ASSUME Core, Within, NEW r \in Row, Clear(r), NEW x \in Order
    PROVE  /\ Claim(r, x) \in Nat
           /\ Pays(x) = r /\ Plain(x) =>
                /\ Paid(x) \in Nat
                /\ T(x).quantity - Paid(x) \in Nat /\ left[x] <= T(x).quantity - Paid(x)
<1>1. Pays(x) = r /\ ~Plain(x) => ~Live(x)
  BY ClearRow
<1>2. ASSUME Plain(x)
      PROVE  Paid(x) \in Nat /\ T(x).quantity - Paid(x) \in Nat /\ left[x] <= T(x).quantity - Paid(x)
  <2>1. Executed(x) + left[x] <= T(x).quantity
    BY <1>2 DEF Within
  <2>2. /\ Written(x) \in Nat /\ Written(x) <= Taken(x)
        /\ Taken(x) \in Nat /\ Taken(x) <= Volume(events, x) /\ Volume(events, x) \in Nat
        /\ orders[x].filled \in Nat /\ left[x] \in Nat /\ T(x).quantity \in Nat
    BY WrittenType, TermsType
  <2> QED BY <2>1, <2>2 DEF Executed, Paid
<1>3. ASSUME Plain(x)
      PROVE  Margin(x, T(x).quantity - Paid(x)) \in Nat
  BY <1>2, <1>3, MarginType
<1> QED BY <1>1, <1>2, <1>3 DEF Claim

\* The claims of orders that go on as they are, or end.
LEMMA ClaimFalls ==
    ASSUME Core, Within, NEW r \in Row, Clear(r), NEW x \in Order,
           Pays(x) = r => (Live(x)' => Live(x)) /\ (Plain(x) => Paid(x)' = Paid(x))
    PROVE  Claim(r, x)' \in Int /\ Claim(r, x)' <= Claim(r, x)
<1>1. Claim(r, x)' = IF Pays(x) = r /\ Live(x)' THEN Margin(x, T(x).quantity - Paid(x)') ELSE 0
  BY DEF Claim
<1>2. Claim(r, x) \in Nat /\ (Pays(x) = r /\ Live(x) => Plain(x))
  BY ClaimType, ClearRow
<1>3. CASE Pays(x) = r /\ Live(x)'
  <2>1. Live(x) /\ Paid(x)' = Paid(x)
    BY <1>2, <1>3
  <2>2. Claim(r, x)' = Claim(r, x)
    BY <1>1, <1>3, <2>1 DEF Claim
  <2> QED BY <1>2, <2>2
<1>4. CASE ~(Pays(x) = r /\ Live(x)')
  BY <1>1, <1>2, <1>4
<1> QED BY <1>3, <1>4

\* A row whose claims rise by no more than what is locked in it.
LEMMA CoveredKeeps ==
    ASSUME Core, Within, Covered, crashes = 0, NEW r \in Row, Clear(r), NEW a \in Order, NEW d \in Int,
           Claim(r, a)' \in Int, Claim(r, a)' <= Claim(r, a) + d,
           \A x \in Order : x # a => Claim(r, x)' \in Int /\ Claim(r, x)' <= Claim(r, x),
           balance'[r].locked \in Int, balance'[r].locked >= balance[r].locked + d
    PROVE  balance'[r].locked >= SumFunctionOnSet([x \in Order |-> Claim(r, x)'], Order)
<1> DEFINE f == [x \in Order |-> Claim(r, x)]
           g == [x \in Order |-> Claim(r, x)']
<1>1. \A x \in Order : Claim(r, x) \in Int
  BY ClaimType
<1>2. Numbers(f, Order) /\ Numbers(g, Order)
  BY <1>1, TablesAssumption DEF Numbers
<1>3. g[a] <= f[a] + d /\ \A x \in Order \ {a} : g[x] <= f[x]
  OBVIOUS
<1>4. balance[r].locked >= SumFunctionOnSet(f, Order)
  BY DEF Covered
<1>5. balance[r].locked \in Int
  BY DEF Core, Typed, TypedTables, Account
<1> HIDE DEF f, g
<1>6. SumFunctionOnSet(g, Order) <= SumFunctionOnSet(f, Order) + d
  BY <1>2, <1>3, SumAtMost
<1>7. SumFunctionOnSet(g, Order) \in Int /\ SumFunctionOnSet(f, Order) \in Int
  BY <1>2, SumType
<1>8. balance'[r].locked >= SumFunctionOnSet(g, Order)
  BY <1>4, <1>5, <1>6, <1>7
<1> QED BY <1>8 DEF g

\* Steps that neither debit nor release, nor make an order live.
LEMMA CoveredStays ==
    ASSUME Core, Within, Covered, crashes = 0, NEW r \in Row, Clear(r), Order # {},
           \A x \in Order : Pays(x) = r => (Live(x)' => Live(x)) /\ (Plain(x) => Paid(x)' = Paid(x)),
           balance'[r].locked = balance[r].locked
    PROVE  balance'[r].locked >= SumFunctionOnSet([x \in Order |-> Claim(r, x)'], Order)
<1> PICK a \in Order : TRUE
  OBVIOUS
<1> PICK d \in Int : d = 0
  OBVIOUS
<1>1. \A x \in Order : Claim(r, x)' \in Int /\ Claim(r, x)' <= Claim(r, x) /\ Claim(r, x) \in Nat
  BY ClaimFalls, ClaimType
<1>2. balance[r].locked \in Int
  BY DEF Core, Typed, TypedTables, Account
<1>3. Claim(r, a)' <= Claim(r, a) + d /\ balance'[r].locked >= balance[r].locked + d
  BY <1>1, <1>2
<1> QED BY <1>1, <1>2, <1>3, CoveredKeeps

\* Payment for a trade in hand is for lots that have not been paid for.
LEMMA PaidRoom ==
    ASSUME Core, Within, NEW x \in Order, Plain(x),
           (PayTaker /\ x = Event.order) \/ (PayMaker /\ x = Event.maker)
    PROVE  /\ events # <<>> /\ Event.type = "trade" /\ Event.quantity \in Nat /\ Pay(x) /\ Named(x)
           /\ Paid(x) + Event.quantity <= T(x).quantity
<1>0. Typed /\ TypedFeed /\ events \in Seq(Message) /\ orders \in [Order -> RowValue]
  BY DEF Core, Typed, TypedFeed, TypedTables
<1>1. events # <<>> /\ Event.type = "trade" /\ writer.at \in {"idle", "maker"}
      /\ (PayTaker => writer.at = "idle") /\ (PayMaker => writer.at = "maker")
  BY <1>0 DEF PayTaker, PayMaker, InHand, TypedFeed, TradeSteps
<1>2. /\ Event.quantity \in Nat /\ Named(Event.order) /\ Named(Event.maker) /\ Fair(Event)
      /\ 1 \in 1..Len(events) /\ Event = events[1]
  BY <1>0, <1>1, InHandType
<1>3. Event.order # Event.maker
  BY <1>1, <1>2 DEF Fair
<1>4. Pay(x)
  BY DEF PayTaker, PayMaker, Plain
<1>5. Written(x) = 0 /\ Taken(x) = 0
  BY <1>1, <1>3 DEF Written, Taken, WrittenAt, TakenAt, TradeSteps
<1>6. Lots(Event, x) = Event.quantity
  BY <1>1 DEF Lots, Names
<1>7. Lots(Event, x) <= Volume(events, x) /\ Volume(events, x) \in Nat
  BY <1>0, <1>2, VolumeType
<1>8. Executed(x) + left[x] <= T(x).quantity
  BY DEF Within
<1>9. orders[x].filled \in Nat /\ left[x] \in Nat /\ T(x).quantity \in Nat
  BY WrittenType, TermsType
<1>10. Paid(x) + Event.quantity <= T(x).quantity
  BY <1>2, <1>5, <1>6, <1>7, <1>8, <1>9 DEF Executed, Paid
<1> QED BY <1>1, <1>2, <1>4, <1>10

\* What is debited for a trade was claimed for its lots.
LEMMA PayCovered ==
    ASSUME Core, Within, Covered, crashes = 0, NEW r \in Row, Clear(r), NEW x \in Order, Pays(x) = r,
           (PayTaker /\ x = Event.order) \/ (PayMaker /\ x = Event.maker),
           Plain(x) => Paid(x)' = Paid(x) + Event.quantity,
           \A y \in Order : y # x /\ Pays(y) = r => (Live(y)' => Live(y)) /\ (Plain(y) => Paid(y)' = Paid(y))
    PROVE  balance'[r].locked >= SumFunctionOnSet([y \in Order |-> Claim(r, y)'], Order)
<1>0. TypedTables /\ TypedMoney /\ TypedFeed
  BY DEF Core, Typed
<1>l. Live(x)
  <2>1. events # <<>> /\ writer.at # "close"
    BY <1>0 DEF PayTaker, PayMaker, InHand, TypedFeed
  <2>2. Named(x)
    BY <1>0, <2>1, InHandType
  <2> QED BY <2>1, <2>2 DEF Live, Awaited
<1>p. Plain(x) /\ Id(x) \notin dear
  BY <1>l, ClearRow
<1>1. /\ events # <<>> /\ Event.type = "trade" /\ Event.quantity \in Nat /\ Pay(x)
      /\ Paid(x) + Event.quantity <= T(x).quantity
  BY <1>p, PaidRoom
<1> PICK q \in Nat : q = Event.quantity
  BY <1>1
<1> PICK n : n = Capped(Pays(x), Debit(x, Event))
  OBVIOUS
<1>2. n \in Nat /\ n <= Debit(x, Event) /\ Debit(x, Event) \in Nat
  BY <1>0, <1>1, PayEffect, InHandType, Amounts
<1>3. Debit(x, Event) <= Margin(x, q) /\ Margin(x, q) \in Nat
  BY <1>1, <1>p, DebitWithinMargin, MarginType
<1>4. r \in DOMAIN balance /\ balance[r].locked \in Nat
  BY <1>0 DEF TypedTables, Account
<1>5. balance'[r].locked = balance[r].locked - n
  BY <1>0, <1>1, <1>4, PayEffect
<1>6. \A y \in Order : y # x => Claim(r, y)' \in Int /\ Claim(r, y)' <= Claim(r, y)
  BY ClaimFalls
<1>7. Claim(r, x)' = IF Live(x)' THEN Margin(x, T(x).quantity - Paid(x)') ELSE 0
  BY DEF Claim
<1> DEFINE d == -n
<1>8. d \in Int /\ balance'[r].locked \in Int /\ balance'[r].locked >= balance[r].locked + d
  BY <1>2, <1>4, <1>5
<1>9. Claim(r, x) \in Nat
  BY ClaimType
<1>10. Claim(r, x)' \in Int /\ Claim(r, x)' <= Claim(r, x) + d
  <2>1. Paid(x) \in Nat /\ T(x).quantity \in Nat
    BY <1>p, ClaimType, TermsType
  <2> PICK m \in Nat : m = T(x).quantity - (Paid(x) + q)
    BY <1>1, <2>1
  <2>2. T(x).quantity - Paid(x) = m + q /\ T(x).quantity - Paid(x)' = m
    BY <1>p, <2>1
  <2>3. Margin(x, m + q) = Margin(x, m) + Margin(x, q) /\ Margin(x, m) \in Nat
    BY MarginsAdd
  <2>4. Claim(r, x) = Margin(x, m + q)
    BY <1>l, <2>2 DEF Claim
  <2>5. Claim(r, x)' \in {0, Margin(x, m)}
    BY <1>7, <2>2
  <2> QED BY <1>2, <1>3, <2>3, <2>4, <2>5
<1> HIDE DEF d
<1> QED BY <1>6, <1>8, <1>10, CoveredKeeps

\* The writer makes no order live.
LEMMA WriterLive ==
    ASSUME Core, ClosingLast, Writer, NEW y \in Order
    PROVE  Live(y)' => Live(y)
<1>0. Typed /\ TypedFeed /\ events \in Seq(Message)
  BY DEF Core, Typed, TypedFeed
<1>1. /\ events # <<>> /\ (Named(y)' => Named(y))
      /\ UNCHANGED <<placing, commands, resting>>
  BY <1>0, WriterEvents, WriterFrame DEF Named
<1>2. CASE writer.at = "close" /\ Event.order = y
  <2>1. Close /\ Event.type \in Closing
    BY <1>0, <1>2 DEF Writer, ApplyStatus, DropOutside, ReadClosing, Unlock, PayTaker, PayMaker,
                      ReadFilled, WriteFilled, Commit, InHand, TypedFeed
  <2>2. /\ 1 \in 1..Len(events) /\ Event = events[1]
        /\ \A i \in 1..Len(Tail(events)) : i + 1 \in 1..Len(events) /\ Tail(events)[i] = events[i + 1]
    BY <1>0, <1>1, InHandType
  <2>3. ASSUME NEW i \in 1..Len(Tail(events))
        PROVE  ~Names(Tail(events)[i], y)
    <3>1. i + 1 \in 1..Len(events) /\ i + 1 > 1 /\ Tail(events)[i] = events[i + 1]
      BY <2>2
    <3> QED BY <1>2, <2>1, <2>2, <3>1 DEF ClosingLast, Final
  <2>4. ~Named(y)'
    BY <2>1, <2>3 DEF Named, Mentions, Finish, Close
  <2> QED BY <1>1, <2>4 DEF Live, Awaited, Waiting
<1>3. CASE ~(writer.at = "close" /\ Event.order = y)
  <2>1. Awaited(y)' => Awaited(y)
    BY <1>1, <1>3 DEF Awaited
  <2> QED BY <1>1, <2>1 DEF Live, Waiting
<1> QED BY <1>2, <1>3

\* What an order's last word releases is what it still claims.
LEMMA UnlockCovered ==
    ASSUME Core, Within, ClosingLast, Covered, crashes = 0, NEW r \in Row, Clear(r), Unlock
    PROVE  balance'[r].locked >= SumFunctionOnSet([y \in Order |-> Claim(r, y)'], Order)
<1>0. TypedTables /\ TypedMoney /\ TypedFeed /\ Typed /\ Rowed /\ SeenRow /\ Untouched /\ events \in Seq(Message)
  BY DEF Core, Typed, Once, TypedFeed
<1>1. /\ writer.at = "unlock" /\ events # <<>> /\ Event.type \in Closing /\ Writer /\ ~PayTaker /\ ~PayMaker
      /\ writer'.at = "close" /\ events' = events
      /\ resting' = resting /\ commands' = commands /\ placing' = placing
  BY <1>0 DEF Unlock, TypedFeed, Writer, PayTaker, PayMaker, InHand, engine, api, Idle
<1>2. /\ Event.order \in Order /\ Event \in Message /\ Named(Event.order)
      /\ 1 \in 1..Len(events) /\ Event = events[1]
  BY <1>0, <1>1, InHandType
<1> PICK x \in Order : x = Event.order
  BY <1>2
<1>3. ~Live(x)'
  <2>1. ~Waiting(x)' /\ placing'[x] = "done"
    BY <1>0, <1>1, NamedSent DEF Waiting, Sent
  <2>2. x \notin resting'
    BY <1>1, <1>2 DEF ClosingLast, Final
  <2>3. ~Awaited(x)'
    BY <1>1 DEF Awaited, Event
  <2> QED BY <2>1, <2>2, <2>3 DEF Live
<1>4. \A y \in Order : Pays(y) = r => (Live(y)' => Live(y)) /\ (Plain(y) => Paid(y)' = Paid(y))
  <2>1. ASSUME NEW y \in Order, Plain(y)
        PROVE  Paid(y)' = Paid(y)
    <3>1. Paid(y)' = Paid(y) + 0
      BY <1>1, <2>1, WriterLots
    <3>2. Paid(y) \in Int
      BY WrittenType DEF Paid
    <3> QED BY <3>1, <3>2
  <2>2. \A y \in Order : Live(y)' => Live(y)
    BY <1>1, WriterLive
  <2> QED BY <2>1, <2>2
<1>5. \A y \in Order : Claim(r, y)' \in Int /\ Claim(r, y)' <= Claim(r, y) /\ Claim(r, y) \in Nat
  BY <1>4, ClaimFalls, ClaimType
<1>6. Claim(r, x)' = 0
  BY <1>3 DEF Claim
<1>7. balance \in [DOMAIN balance -> Account] /\ r \in DOMAIN balance /\ balance[r].locked \in Nat
  BY <1>0 DEF TypedTables, Account
<1> PICK s : s = Pays(x)
  OBVIOUS
<1> PICK n : n = Capped(s, ToRelease(x, writer.seen))
  OBVIOUS
<1>8. balance' = [balance EXCEPT ![s].available = @ + n, ![s].locked = @ - n]
  BY DEF Unlock
<1>9. CASE s # r
  <2>1. balance'[r] = balance[r]
    BY <1>7, <1>8, <1>9
  <2>2. Order # {}
    OBVIOUS
  <2> QED BY <1>4, <2>1, <2>2, CoveredStays
<1>10. CASE s = r
  <2>0. Live(x)
    BY <1>1, <1>2 DEF Live, Awaited
  <2>a. Plain(x)
    BY <1>10, <2>0, ClearRow
  <2>b. Id(x) = x
    BY <2>a DEF Plain
  <2>1. T(x).quantity - Paid(x) \in Nat
    BY <1>10, <2>a, ClaimType
  <2>2. Written(x) = 0 /\ Taken(x) = 0 /\ orders[x].filled \in Nat
    BY <1>1, WrittenType DEF TradeSteps
  <2>3. writer.seen.filled = Paid(x)
    BY <1>0, <1>1, <2>2, <2>b DEF SeenRow, Paid
  <2>4. ToRelease(x, writer.seen) = Claim(r, x)
    BY <1>10, <2>0, <2>3 DEF ToRelease, Claim
  <2>5. n \in Nat /\ n <= Claim(r, x) /\ n <= balance[r].locked
    <3>1. Claim(r, x) \in Nat
      BY <1>5
    <3> QED BY <1>7, <1>10, <2>4, <3>1 DEF Capped
  <2>6. balance'[r].locked = balance[r].locked - n
    <3> PICK D, b, c : D = DOMAIN balance /\ b = balance /\ c = balance'
      OBVIOUS
    <3>1. /\ b \in [D -> Account] /\ r \in D /\ n \in Int /\ b[r].locked - n \in Nat
          /\ c = Releasing(b, r, n)
      BY <1>7, <1>8, <1>10, <2>5 DEF Releasing
    <3>2. c[r].locked = b[r].locked - n
      BY <3>1, RowReleases
    <3> QED BY <3>2
  <2> PICK d \in Int : d = -n
    BY <2>5
  <2>7. Claim(r, x)' <= Claim(r, x) + d /\ balance'[r].locked \in Int /\ balance'[r].locked >= balance[r].locked + d
    BY <1>5, <1>6, <1>7, <2>5, <2>6
  <2> QED BY <1>5, <2>7, CoveredKeeps
<1> QED BY <1>9, <1>10

\* Only locking its margin makes an order live, or the stream's taking a command
\* for an order that no margin is locked for.
LEMMA ApiLive ==
    ASSUME Core, NEW x \in Order, Api(x), NEW y \in Order, y # x \/ ~(Lock(x) \/ SendAgain(x) \/ Inject(x))
    PROVE  Live(y)' => Live(y)
<1> PICK cs \in Seq(Command) : cs = commands
  BY DEF Core, Typed, TypedTables
<1>1. events' = events /\ resting' = resting /\ writer' = writer
  BY ApiFrame
<1>2. /\ y # x => placing'[y] = placing[y]
      /\ \/ placing'[x] = placing[x]
         \/ Lock(x) \/ Inject(x) \/ SendAgain(x)
         \/ placing[x] = "insert" \/ placing[x] = "record" \/ placing[x] = "send"
      /\ Publish(x) => placing[x] = "send"
  BY ApiSteps DEF Core, Publish
<1>3. Waiting(y)' => Waiting(y) \/ (y = x /\ Publish(x))
  <2>1. CASE commands' = commands
    BY <2>1 DEF Waiting
  <2>2. CASE \E kind \in {"place", "cancel"} :
                /\ commands' = Append(commands, [op |-> kind, order |-> x])
                /\ y # x \/ kind = "cancel" \/ Publish(x)
                /\ kind = "cancel" => x \in MayCancel
    <3>1. PICK kind \in {"place", "cancel"} :
                /\ commands' = Append(commands, [op |-> kind, order |-> x])
                /\ y # x \/ kind = "cancel" \/ Publish(x)
                /\ kind = "cancel" => x \in MayCancel
      BY <2>2
    <3> PICK c \in Command : c = [op |-> kind, order |-> x]
      BY <3>1 DEF Command
    <3>2. commands' = Append(cs, c) /\ c.op = kind /\ c.order = x
      BY <3>1
    <3>3. Offers(Append(cs, c), "place", y) <=> Offers(cs, "place", y) \/ (c.op = "place" /\ c.order = y)
      BY CommandsGrow
    <3> QED BY <3>1, <3>2, <3>3 DEF Waiting
  <2>3. SendCancel(x) => x \in MayCancel
    BY DEF SendCancel, Core, Typed, TypedTables
  <2> QED BY <2>1, <2>2, <2>3 DEF Api, Lock, Insert, Record, Publish, SendAgain, Inject, ReadForCancel,
                                  SendCancel, MarkCanceled, Send
<1>4. Awaited(y)' <=> Awaited(y)
  BY <1>1 DEF Awaited, Named, Event
<1> QED BY <1>1, <1>2, <1>3, <1>4 DEF Live

\* The engine makes no order live.
LEMMA EngineLive ==
    ASSUME Core, EngineStep, NEW y \in Order
    PROVE  (Live(y)' => Live(y)) /\ Paid(y)' = Paid(y)
<1>0. TypedBook /\ TypedFeed
  BY DEF Core, Typed
<1>1. PICK x \in Order : \E new :
             /\ Tells(x, new)
             /\ \/ Waiting(x)
                \/ Cancels(x, new)
             /\ \A z \in Order : Waiting(z)' => Waiting(z)
             /\ new \in Seq(Message) /\ events' = events \o new
             /\ UNCHANGED <<orders, writer, placing>>
  BY EngineView
<1>2. PICK new :
             /\ Tells(x, new)
             /\ \/ Waiting(x)
                \/ Cancels(x, new)
             /\ \A z \in Order : Waiting(z)' => Waiting(z)
             /\ new \in Seq(Message) /\ events' = events \o new
             /\ UNCHANGED <<orders, writer, placing>>
  BY <1>1
<1>3. Paid(y)' = Paid(y) /\ (Named(y)' <=> Named(y) \/ Mentions(new, y))
  BY <1>2, EngineLots
<1>4. Awaited(y)' => Awaited(y) \/ Mentions(new, y)
  <2>1. CASE writer.at = "close"
    <3> PICK es \in Seq(Message) : es = events
      BY <1>0 DEF TypedFeed
    <3>1. es # <<>> => Head(es \o new) = Head(es)
      BY <1>2
    <3>2. Event' = Event
      BY <1>0, <1>2, <2>1, <3>1 DEF Event, TypedFeed
    <3> QED BY <1>2, <1>3, <3>2 DEF Awaited
  <2>2. CASE writer.at # "close"
    BY <1>2, <1>3, <2>2 DEF Awaited
  <2> QED BY <2>1, <2>2
<1>5. CASE y # x
  <2>1. Mentions(new, y) => y \in resting
    BY <1>2, <1>5, NewNames
  <2>2. y \in resting' => y \in resting
    <3>1. left'[y] + Volume(new, y) = left[y] /\ (y \in resting' <=> left'[y] > 0) /\ left'[y] \in Nat
      BY <1>2, <1>5 DEF Tells
    <3>2. Volume(new, y) \in Nat
      BY <1>2, VolumeType
    <3>3. left[y] \in Nat /\ (y \in resting <=> left[y] > 0)
      BY <1>0 DEF TypedBook
    <3> QED BY <3>1, <3>2, <3>3
  <2> QED BY <1>2, <1>3, <1>4, <1>5, <2>1, <2>2 DEF Live
<1>6. CASE y = x /\ Waiting(x)
  BY <1>3, <1>6 DEF Live
<1>7. CASE y = x /\ Cancels(x, new)
  <2>1. x \notin resting => new = <<>> /\ resting' = resting
    BY <1>7 DEF Cancels
  <2>2. new = <<>> => ~Mentions(new, y)
    BY DEF Mentions
  <2> QED BY <1>2, <1>3, <1>4, <1>7, <2>1, <2>2 DEF Live
<1> QED BY <1>2, <1>5, <1>6, <1>7

\* Rows stay covered, on every step.
LEMMA CoveredNext ==
    ASSUME Core, Within, ClosingLast, Covered, [Next]_vars
    PROVE  Covered'
<1> SUFFICES ASSUME crashes' = 0, NEW r \in Row, Clear(r)'
             PROVE  balance'[r].locked >= SumFunctionOnSet([x \in Order |-> Claim(r, x)'], Order)
  BY DEF Covered
<1>0. /\ Typed /\ TypedTables /\ TypedMoney /\ TypedFeed /\ Unsent /\ Untouched
      /\ r \in DOMAIN balance /\ balance \in [DOMAIN balance -> Account] /\ balance[r].locked \in Nat
  BY DEF Core, Typed, Once, TypedTables, Account
<1>a. \A x \in Order : Paid(x) \in Int
  BY WrittenType DEF Paid
<1>b. Clear(r) /\ crashes = 0
  <2>1. crashes = 0 /\ \A o \in Order : InBudget(o)' => InBudget(o)
    BY <1>0, BudgetBefore, PlacingMoves
  <2> QED BY <2>1 DEF Clear
<1>1. ASSUME NEW x \in Order, Lock(x)
      PROVE  balance'[r].locked >= SumFunctionOnSet([y \in Order |-> Claim(r, y)'], Order)
  <2>1. /\ ~IsExternal(x) /\ placing[x] = "new"
        /\ balance' = [balance EXCEPT ![Pays(x)].available = @ - LockedFor(x),
                                      ![Pays(x)].locked = @ + LockedFor(x)]
        /\ Api(x)
    BY <1>1 DEF Lock, Api
  <2>2. x \notin resting /\ ~Named(x) /\ ~Waiting(x) /\ (Plain(x) => orders[x].filled = 0)
    BY <1>0, <2>1 DEF Untouched, Unsent, Sent
  <2>3. ~Live(x)
    BY <2>1, <2>2 DEF Live, Awaited
  <2>4. Claim(r, x) = 0 /\ (Pays(x) = r => Plain(x) /\ Paid(x) = 0)
    <3>1. Pays(x) = r => Plain(x)
      <4>1. Id(x) = x
        BY <1>1 DEF Lock, Again
      <4> QED BY <1>b, <2>1, <4>1 DEF Plain, Clear, InBudget
    <3> QED BY <2>2, <2>3, <3>1, WrittenType DEF Paid, Claim
  <2>5. \A y \in Order : Paid(y)' = Paid(y)
    BY <2>1, ApiLots
  <2>6. \A y \in Order : y # x => Claim(r, y)' \in Int /\ Claim(r, y)' <= Claim(r, y)
    BY <1>b, <2>1, <2>5, ApiLive, ClaimFalls
  <2> PICK m \in Nat : m = LockedFor(x)
    BY MarginType, TermsType DEF LockedFor
  <2> PICK p : p = Pays(x)
    OBVIOUS
  <2>7. p \in DOMAIN balance
    BY <1>0, <2>1, TermsType DEF TypedTables
  <2> PICK d \in Int : d = IF r = p THEN m ELSE 0
    OBVIOUS
  <2>8. balance'[r].locked = balance[r].locked + d
    <3> PICK D, b, c : D = DOMAIN balance /\ b = balance /\ c = balance'
      OBVIOUS
    <3>1. b[p].locked \in Nat
      BY <1>0, <2>7 DEF Account
    <3>2. /\ b \in [D -> Account] /\ p \in D /\ m \in Int /\ b[p].locked + m \in Nat
          /\ c = Locking(b, p, m)
      BY <1>0, <2>1, <2>7, <3>1 DEF Locking
    <3>3. /\ c[p].locked = b[p].locked + m
          /\ \A y \in D : y # p => c[y] = b[y]
      BY <3>2, RowLocks
    <3>4. r # p => c[r].locked = b[r].locked
      BY <1>0, <3>3
    <3> QED BY <1>0, <3>3, <3>4
  <2>9. Claim(r, x)' \in Int /\ Claim(r, x)' <= Claim(r, x) + d
    <3>1. Claim(r, x)' = IF Pays(x) = r /\ Live(x)' THEN Margin(x, T(x).quantity - Paid(x)') ELSE 0
      BY DEF Claim
    <3>2. Pays(x) = r => T(x).quantity - Paid(x)' = T(x).quantity
      BY <2>4, <2>5, TermsType
    <3>3. Claim(r, x)' \in {0, d}
      BY <3>1, <3>2 DEF LockedFor
    <3> QED BY <2>4, <3>1, <3>2, <3>3 DEF LockedFor
  <2>10. balance'[r].locked \in Int /\ balance'[r].locked >= balance[r].locked + d
    BY <1>0, <2>8
  <2> QED BY <1>b, <2>6, <2>9, <2>10, CoveredKeeps
<1>2. ASSUME NEW x \in Order, Api(x), ~Lock(x)
      PROVE  balance'[r].locked >= SumFunctionOnSet([y \in Order |-> Claim(r, y)'], Order)
  <2>1. balance' = balance
    BY <1>2 DEF Api, Insert, Record, Publish, SendAgain, Inject, ReadForCancel, SendCancel, MarkCanceled, money
  <2>2. Pays(x) = r => ~Inject(x) /\ ~SendAgain(x)
    <3>1. Pays(x) = r => ~IsExternal(x)
      BY SettlementAssumption DEF IsExternal, Pays, Row
    <3>2. ASSUME SendAgain(x), Pays(x) = r
          PROVE  FALSE
      <4>1. x \in Again /\ placing'[x] # "new"
        BY <1>0, <3>2 DEF SendAgain, Goto, TypedTables
      <4> PICK z \in Order : z = Id(x)
        BY TermsType
      <4>2. Pays(z) = r
        BY <3>2, TermsType DEF Pays
      <4>3. InBudget(z)'
        BY <4>2 DEF Clear
      <4> QED BY <4>1, <4>3 DEF InBudget, Doubled
    <3> QED BY <3>1, <3>2 DEF Inject
  <2>3. \A y \in Order : Pays(y) = r => (Live(y)' => Live(y)) /\ (Plain(y) => Paid(y)' = Paid(y))
    BY <1>2, <2>2, ApiLive, ApiLots
  <2> QED BY <1>b, <2>1, <2>3, CoveredStays
<1>3. CASE EngineStep
  <2>1. balance' = balance /\ Order # {}
    BY <1>3, EngineView
  <2> QED BY <1>3, <1>b, <2>1, EngineLive, CoveredStays
<1>4. CASE Writer
  <2>1. events # <<>> /\ Event.order \in Order /\ Event.maker \in Order
    BY <1>0, <1>4, WriterEvents, InHandType
  <2>2. \A y \in Order : Live(y)' => Live(y)
    BY <1>4, WriterLive
  <2>3. \A y \in Order : Plain(y) /\ ~(PayTaker /\ y = Event.order) /\ ~(PayMaker /\ y = Event.maker)
                           => Paid(y)' = Paid(y)
    BY <1>a, <1>4, WriterLots
  <2>4. \A y \in Order : Plain(y) /\ ((PayTaker /\ y = Event.order) \/ (PayMaker /\ y = Event.maker))
                           => Paid(y)' = Paid(y) + Event.quantity
    BY <1>4, WriterLots
  <2>5. ~(PayTaker /\ PayMaker)
    BY DEF PayTaker, PayMaker, InHand
  <2>6. Order # {}
    BY <2>1
  <2>7. CASE Unlock
    BY <1>b, <2>7, UnlockCovered
  <2>8. ASSUME NEW x \in Order, (PayTaker /\ x = Event.order) \/ (PayMaker /\ x = Event.maker)
        PROVE  balance'[r].locked >= SumFunctionOnSet([y \in Order |-> Claim(r, y)'], Order)
    <3>1. CASE Pays(x) = r
      <4>1. Plain(x) => Paid(x)' = Paid(x) + Event.quantity
        BY <2>4, <2>8
      <4>2. \A y \in Order : y # x /\ Pays(y) = r => (Live(y)' => Live(y)) /\ (Plain(y) => Paid(y)' = Paid(y))
        BY <2>2, <2>3, <2>5, <2>8
      <4> QED BY <1>b, <2>8, <3>1, <4>1, <4>2, PayCovered
    <3>2. CASE Pays(x) # r
      <4>1. balance'[r].locked = balance[r].locked
        <5>1. Pay(x) \/ balance' = balance
          BY <2>8 DEF PayTaker, PayMaker
        <5> QED BY <1>0, <2>1, <3>2, <5>1, PayEffect
      <4>2. \A y \in Order : Pays(y) = r => (Live(y)' => Live(y)) /\ (Plain(y) => Paid(y)' = Paid(y))
        BY <2>2, <2>3, <2>5, <2>8, <3>2
      <4> QED BY <1>b, <2>6, <4>1, <4>2, CoveredStays
    <3> QED BY <3>1, <3>2
  <2>9. CASE ~Unlock /\ ~PayTaker /\ ~PayMaker
    <3>1. balance'[r].locked = balance[r].locked
      <4>1. CASE balance' = balance
        BY <4>1
      <4>2. CASE Commit
        <5>1. balance'[r] = [balance[r] EXCEPT !.available = @ + tx[r]]
          BY <1>0, <4>2 DEF Commit
        <5> QED BY <1>0, <5>1 DEF Account
      <4> QED BY <1>4, <2>9, <4>1, <4>2
            DEF Writer, ApplyStatus, DropOutside, ReadClosing, Close, ReadFilled, WriteFilled, money
    <3> QED BY <1>b, <2>2, <2>3, <2>6, <2>9, <3>1, CoveredStays
  <2> QED BY <2>1, <2>7, <2>8, <2>9
<1>5. CASE Crash
  BY <1>0, <1>5 DEF Crash, TypedMoney
<1>6. CASE UNCHANGED vars
  <2>1. \A x \in Order : Claim(r, x)' = Claim(r, x)
    BY <1>6 DEF vars, Claim, Live, Awaited, Waiting, Named, Paid, Written, Taken, Event
  <2>2. balance' = balance
    BY <1>6 DEF vars
  <2>3. [x \in Order |-> Claim(r, x)'] = [x \in Order |-> Claim(r, x)]
    BY <2>1
  <2> QED BY <1>b, <2>2, <2>3 DEF Covered
<1> QED BY <1>1, <1>2, <1>3, <1>4, <1>5, <1>6 DEF Next, Api

\* What an order may still have to pay is part of its claim.
LEMMA ClaimsSuffice ==
    ASSUME Core, Within, Covered
    PROVE  MarginCoversOpenOrders
<1> DEFINE onItsWay == {o \in Order : \/ placing[o] \in {"insert", "record", "send"}
                                      \/ \E i \in 1..Len(commands) :
                                            commands[i] = [op |-> "place", order |-> o]}
           need(r, o) == IF Pays(o) # r THEN 0
                         ELSE IF o \in onItsWay THEN Margin(o, T(o).quantity)
                         ELSE IF o \in resting THEN Margin(o, left[o]) ELSE 0
<1>1. ASSUME NEW r \in Row, Clear(r), NEW o \in Order
      PROVE  need(r, o) \in Int /\ need(r, o) <= Claim(r, o)
  <2>1. Claim(r, o) \in Nat
    BY <1>1, ClaimType
  <2>2. CASE Pays(o) = r /\ o \in onItsWay
    <3>1. Live(o) /\ (~Sent(o) \/ Waiting(o))
      BY <2>2 DEF Live, Waiting, Offers, Sent
    <3>2. ~Named(o) /\ orders[o].filled = 0
      BY <1>1, <2>2, <3>1, ClearRow DEF Core, Once, Untouched
    <3>3. Paid(o) = 0 /\ T(o).quantity \in Nat
      BY <3>2, WrittenType, TermsType DEF Paid
    <3>4. T(o).quantity - Paid(o) = T(o).quantity
      BY <3>3
    <3>5. Claim(r, o) = Margin(o, T(o).quantity)
      BY <2>2, <3>1, <3>4 DEF Claim
    <3> QED BY <2>1, <2>2, <3>5
  <2>3. CASE Pays(o) = r /\ o \notin onItsWay /\ o \in resting
    <3>0. Plain(o)
      BY <1>1, <2>3, ClearRow DEF Live
    <3>1. T(o).quantity - Paid(o) \in Nat /\ left[o] <= T(o).quantity - Paid(o) /\ left[o] \in Nat
      BY <1>1, <2>3, <3>0, ClaimType, WrittenType
    <3> PICK m \in Nat : m = left[o]
      BY <3>1
    <3> PICK n \in Nat : T(o).quantity - Paid(o) = m + n
      <4> PICK k \in Nat : k = T(o).quantity - Paid(o)
        BY <3>1
      <4>1. k - m \in Nat /\ k = m + (k - m)
        BY <3>1
      <4> QED BY <4>1
    <3>2. Margin(o, m) \in Nat /\ Margin(o, n) \in Nat /\ Margin(o, m + n) = Margin(o, m) + Margin(o, n)
      BY MarginsAdd
    <3>3. Claim(r, o) = Margin(o, m + n)
      BY <2>3 DEF Claim, Live
    <3>4. need(r, o) = Margin(o, m)
      BY <2>3
    <3> QED BY <3>2, <3>3, <3>4
  <2>4. CASE Pays(o) # r \/ (o \notin onItsWay /\ o \notin resting)
    <3>1. need(r, o) = 0
      BY <2>4
    <3> QED BY <2>1, <3>1
  <2> QED BY <2>2, <2>3, <2>4
<1> HIDE DEF onItsWay
<1> SUFFICES ASSUME crashes = 0, NEW r \in Row, Clear(r)
             PROVE  balance[r].locked >= SumFunction([o \in Order |-> need(r, o)])
  BY DEF MarginCoversOpenOrders, Clear, onItsWay
<1> DEFINE f == [o \in Order |-> need(r, o)]
           g == [x \in Order |-> Claim(r, x)]
<1>2. \A o \in Order : f[o] \in Int /\ g[o] \in Int /\ f[o] <= g[o]
  BY <1>1, ClaimType
<1>3. Numbers(f, Order) /\ Numbers(g, Order)
  BY <1>2, TablesAssumption DEF Numbers
<1>4. SumFunction(f) = SumFunctionOnSet(f, Order)
  <2>1. DOMAIN f = Order
    OBVIOUS
  <2> HIDE DEF f
  <2> QED BY <2>1 DEF SumFunction
<1>5. balance[r].locked >= SumFunctionOnSet(g, Order)
  BY DEF Covered
<1> HIDE DEF f, g
<1>6. SumFunctionOnSet(f, Order) <= SumFunctionOnSet(g, Order)
  BY <1>2, <1>3, SumMonotone
<1>7. SumFunctionOnSet(f, Order) \in Int /\ SumFunctionOnSet(g, Order) \in Int /\ balance[r].locked \in Int
  BY <1>3, SumType DEF Core, Typed, TypedTables, Account
<1>8. balance[r].locked >= SumFunction(f)
  BY <1>4, <1>5, <1>6, <1>7
<1> QED BY <1>8 DEF f

\* At the start nobody claims anything.
LEMMA CoveredInit == Init => ClosingLast /\ Within /\ Covered
<1> SUFFICES ASSUME Init PROVE ClosingLast /\ Within /\ Covered
  OBVIOUS
<1>0. Core
  BY CoreInit
<1>1. ClosingLast
  BY DEF Init, ClosingLast
<1>2. \A x \in Order : /\ ~Named(x) /\ ~Waiting(x) /\ x \notin resting /\ left[x] = 0 /\ orders[x].filled = 0
                        /\ placing[x] = "new"
  BY DEF Init, Named, Mentions, Waiting, Offers
<1>3. Within
  BY <1>0, <1>2, WrittenType, TermsType DEF Within, Executed
<1>4. Covered
  <2> SUFFICES ASSUME NEW r \in Row
               PROVE  balance[r].locked >= SumFunctionOnSet([x \in Order |-> Claim(r, x)], Order)
    BY DEF Covered
  <2> DEFINE g == [x \in Order |-> Claim(r, x)]
  <2>1. \A x \in Order : g[x] = 0
    BY <1>2 DEF Claim, Live, Awaited
  <2> HIDE DEF g
  <2>2. SumFunctionOnSet(g, Order) = 0
    BY <2>1, TablesAssumption, SumZero
  <2>3. balance[r].locked = 0
    BY DEF Init
  <2>4. balance[r].locked >= SumFunctionOnSet(g, Order)
    BY <2>2, <2>3
  <2> QED BY <2>4 DEF g
<1> QED BY <1>1, <1>3, <1>4

\* As long as the process has not crashed, what is locked of an asset covers
\* every order of its owner that may still have to be paid for, if every order
\* paid from that row has been sent once and is executed within its price.
THEOREM MarginAlwaysCovers == Spec => []MarginCoversOpenOrders
<1> DEFINE Inv == Core /\ ClosingLast /\ Within /\ Covered
<1>1. Init => Inv
  BY CoreInit, CoveredInit
<1>2. Inv /\ [Next]_vars => Inv'
  BY CoreNext, ClosingLastNext, WithinNext, CoveredNext
<1>3. Inv => MarginCoversOpenOrders
  BY ClaimsSuffice
<1> QED BY <1>1, <1>2, <1>3, PTL DEF Spec

-----------------------------------------------------------------------------
(* Money. *)

\* What a user has of an asset, with what the open transaction adds to it.
Purse(u, asset) == Worth(<<u, asset>>) + tx[<<u, asset>>]
Holdings(asset) == SumFunctionOnSet([u \in User |-> Purse(u, asset)], User)

\* What the sides of the trade in hand that have been settled with have gained.
Part(x, e, asset) == IF IsExternal(x) THEN 0 ELSE Gain(x, e, asset)
HalfAt(at, e, asset) == (IF at \in TradeSteps THEN Part(e.order, e, asset) ELSE 0)
                        + (IF at \in TradeSteps \ {"maker"} THEN Part(e.maker, e, asset) ELSE 0)
Half(asset) == HalfAt(writer.at, Event, asset)
Recorded(asset) == abroad[asset] + (IF asset = "quote" THEN fees ELSE 0)

\* An asset that only orders in budget are paid in.
Sound(asset) == \A o \in Order : Pays(o)[2] = asset => InBudget(o)

Balanced == crashes = 0 => \A asset \in Asset : Sound(asset) =>
    Holdings(asset) + Recorded(asset) = Cardinality(User) * Funds + Half(asset)

\* What each user has is a number.
LEMMA PurseType ==
    ASSUME Core, NEW asset \in Asset
    PROVE  /\ \A u \in User : /\ <<u, asset>> \in Row /\ <<u, asset>> \in DOMAIN balance
                              /\ balance[<<u, asset>>].available \in Int
                              /\ balance[<<u, asset>>].locked \in Int
                              /\ tx[<<u, asset>>] \in Int /\ Purse(u, asset) \in Int
           /\ Numbers([u \in User |-> Purse(u, asset)], User)
           /\ Holdings(asset) \in Int /\ Recorded(asset) \in Int
<1>0. TypedTables /\ TypedMoney
  BY DEF Core, Typed
<1>1. \A u \in User : /\ <<u, asset>> \in Row /\ <<u, asset>> \in DOMAIN balance /\ <<u, asset>> \in AnyRow
  BY <1>0 DEF TypedTables, Row, AnyRow
<1>2. \A u \in User : /\ balance[<<u, asset>>].available \in Int
                      /\ balance[<<u, asset>>].locked \in Int
                      /\ tx[<<u, asset>>] \in Int
  BY <1>0, <1>1 DEF TypedTables, TypedMoney, Account
<1>3. \A u \in User : Purse(u, asset) \in Int
  BY <1>2 DEF Purse, Worth
<1>4. Numbers([u \in User |-> Purse(u, asset)], User)
  BY <1>3, TablesAssumption DEF Numbers
<1>5. Holdings(asset) \in Int
  BY <1>4, SumType DEF Holdings
<1>6. Recorded(asset) \in Int
  BY <1>0 DEF TypedMoney, Recorded
<1> QED BY <1>1, <1>2, <1>3, <1>4, <1>5, <1>6

\* Steps in which what one user has changes, and that of nobody else.
LEMMA HoldingsChange ==
    ASSUME Core, NEW asset \in Asset, NEW v \in User, NEW d \in Int,
           Purse(v, asset)' = Purse(v, asset) + d,
           \A u \in User : u # v => Purse(u, asset)' = Purse(u, asset)
    PROVE  Holdings(asset)' = Holdings(asset) + d
<1> DEFINE f == [u \in User |-> Purse(u, asset)]
           g == [u \in User |-> Purse(u, asset)']
<1>1. Numbers(f, User) /\ f[v] \in Int /\ Holdings(asset) \in Int
  BY PurseType
<1>2. g[v] = f[v] + d /\ \A u \in User \ {v} : f[u] = g[u]
  OBVIOUS
<1>3. Holdings(asset)' = SumFunctionOnSet(g, User) /\ Holdings(asset) = SumFunctionOnSet(f, User)
  BY DEF Holdings
<1> HIDE DEF f, g
<1>4. g[v] \in Int
  BY <1>1, <1>2
<1>5. SumFunctionOnSet(g, User) = SumFunctionOnSet(f, User) - f[v] + g[v]
  BY <1>1, <1>2, <1>4, SumChange
<1> QED BY <1>1, <1>2, <1>3, <1>5

\* Steps in which nobody's wealth changes.
LEMMA HoldingsStay ==
    ASSUME Core, NEW asset \in Asset, \A u \in User : Purse(u, asset)' = Purse(u, asset)
    PROVE  Holdings(asset)' = Holdings(asset)
<1> DEFINE f == [u \in User |-> Purse(u, asset)]
           g == [u \in User |-> Purse(u, asset)']
<1>1. f = g
  OBVIOUS
<1>2. Holdings(asset)' = SumFunctionOnSet(g, User) /\ Holdings(asset) = SumFunctionOnSet(f, User)
  BY DEF Holdings
<1> HIDE DEF f, g
<1> QED BY <1>1, <1>2

\* The two sides of a trade gain nothing together, and pay the fees.
LEMMA GainsCancel ==
    ASSUME Core, events # <<>>, Event.type = "trade", NEW asset \in Asset
    PROVE  /\ Gain(Event.order, Event, asset) + Gain(Event.maker, Event, asset)
                + (IF asset = "quote" THEN Fee(Event.order, Event) + Fee(Event.maker, Event) ELSE 0) = 0
           /\ \A x \in {Event.order, Event.maker} :
                /\ Part(x, Event, asset) + GainAbroad(x, Event, asset) = Gain(x, Event, asset)
                /\ Part(x, Event, asset) \in Int /\ GainAbroad(x, Event, asset) \in Int
                /\ Gain(x, Event, asset) \in Int /\ Fee(x, Event) \in Nat
<1>1. /\ Event.order \in Order /\ Event.maker \in Order /\ Event \in Message
      /\ Event.quantity \in Nat /\ Event.price \in Nat /\ Fair(Event)
  BY InHandType DEF Core, Typed
<1>2. /\ T(Event.order).side \in {"buy", "sell"} /\ T(Event.maker).side \in {"buy", "sell"}
      /\ T(Event.order).side # T(Event.maker).side
  BY <1>1, TermsType DEF Fair
<1>3. \A x \in {Event.order, Event.maker} : Gain(x, Event, asset) \in Int /\ Fee(x, Event) \in Nat
  BY <1>1, Amounts
<1>4. \A x \in {Event.order, Event.maker} :
                /\ Part(x, Event, asset) + GainAbroad(x, Event, asset) = Gain(x, Event, asset)
                /\ Part(x, Event, asset) \in Int /\ GainAbroad(x, Event, asset) \in Int
  BY <1>3 DEF Part, GainAbroad
<1> PICK m \in Nat : m = Event.price * Event.quantity
  BY <1>1, Products
<1> PICK s \in Nat, t \in Nat : s = Fee(Event.order, Event) /\ t = Fee(Event.maker, Event)
  BY <1>3
<1>5. Gain(Event.order, Event, asset) + Gain(Event.maker, Event, asset)
                + (IF asset = "quote" THEN s + t ELSE 0) = 0
  <2> PICK n \in Nat : n = Event.quantity
    BY <1>1
  <2>1. CASE asset = "base"
    BY <1>2, <2>1 DEF Gain
  <2>2. CASE asset = "quote"
    <3>1. \A x \in {Event.order, Event.maker} :
             Gain(x, Event, asset) = (IF T(x).side = "buy" THEN -m ELSE m) - Fee(x, Event)
      BY <2>2 DEF Gain
    <3> HIDE DEF Gain
    <3>2. CASE T(Event.order).side = "buy"
      <4>1. Gain(Event.order, Event, asset) = -m - s /\ Gain(Event.maker, Event, asset) = m - t
        BY <1>2, <3>1, <3>2
      <4> QED BY <2>2, <4>1
    <3>3. CASE T(Event.order).side = "sell"
      <4>1. Gain(Event.order, Event, asset) = m - s /\ Gain(Event.maker, Event, asset) = -m - t
        BY <1>2, <3>1, <3>3
      <4> QED BY <2>2, <4>1
    <3> QED BY <1>2, <3>2, <3>3
  <2> QED BY <2>1, <2>2 DEF Asset
<1> QED BY <1>3, <1>4, <1>5

\* Nobody is short of what a trade debits from a row in budget.
LEMMA NotCapped ==
    ASSUME Core, Within, Covered, crashes = 0, NEW x \in Order, ~IsExternal(x), Clear(Pays(x)),
           (PayTaker /\ x = Event.order) \/ (PayMaker /\ x = Event.maker)
    PROVE  Capped(Pays(x), Debit(x, Event)) = Debit(x, Event) /\ Debit(x, Event) \in Nat
<1>0. TypedTables /\ TypedMoney /\ TypedFeed
  BY DEF Core, Typed
<1> PICK r \in Row : r = Pays(x)
  BY TermsType
<1>l. Live(x)
  <2>1. events # <<>> /\ writer.at # "close"
    BY <1>0 DEF PayTaker, PayMaker, InHand, TypedFeed
  <2>2. Named(x)
    BY <1>0, <2>1, InHandType
  <2> QED BY <2>1, <2>2 DEF Live, Awaited
<1>c. Clear(r)
  OBVIOUS
<1>p. Plain(x) /\ Id(x) \notin dear
  BY <1>c, <1>l, ClearRow
<1>1. /\ events # <<>> /\ Event.type = "trade" /\ Event.quantity \in Nat
      /\ Paid(x) + Event.quantity <= T(x).quantity
  BY <1>p, PaidRoom
<1> PICK q \in Nat : q = Event.quantity
  BY <1>1
<1>2. Debit(x, Event) <= Margin(x, q) /\ Debit(x, Event) \in Nat
  BY <1>0, <1>1, <1>p, DebitWithinMargin, InHandType, Amounts
<1>3. Paid(x) \in Nat /\ T(x).quantity \in Nat
  BY <1>c, <1>p, ClaimType, TermsType
<1> PICK m \in Nat : T(x).quantity - Paid(x) = m + q
  <2> PICK m \in Nat : m = T(x).quantity - (Paid(x) + q)
    BY <1>1, <1>3
  <2>1. T(x).quantity - Paid(x) = m + q
    BY <1>3
  <2> QED BY <2>1
<1>4. Margin(x, m + q) = Margin(x, m) + Margin(x, q) /\ Margin(x, m) \in Nat /\ Margin(x, q) \in Nat
  BY MarginsAdd
<1>5. Claim(r, x) = Margin(x, m + q)
  BY <1>l DEF Claim
<1> DEFINE g == [y \in Order |-> Claim(r, y)]
<1>6. Numbers(g, Order) /\ (\A y \in Order : g[y] >= 0) /\ g[x] = Claim(r, x)
  <2>1. \A y \in Order : Claim(r, y) \in Nat
    BY <1>c, ClaimType
  <2> QED BY <2>1, TablesAssumption DEF Numbers
<1>7. balance[r].locked >= SumFunctionOnSet(g, Order)
  BY <1>c DEF Covered
<1> HIDE DEF g
<1>8. g[x] <= SumFunctionOnSet(g, Order) /\ SumFunctionOnSet(g, Order) \in Int
  BY <1>6, SumBounds, SumType
<1>9. r \in DOMAIN balance /\ balance[r].locked \in Int
  BY <1>0 DEF TypedTables, Account
<1>10. Debit(x, Event) <= balance[r].locked
  BY <1>2, <1>4, <1>5, <1>6, <1>7, <1>8, <1>9
<1> QED BY <1>2, <1>9, <1>10 DEF Capped

\* Settling with one side of a trade: its owner has what the trade gains it.
LEMMA PayGains ==
    ASSUME Core, Within, Covered, crashes = 0, NEW x \in Order,
           (PayTaker /\ x = Event.order) \/ (PayMaker /\ x = Event.maker /\ ~IsExternal(x)),
           NEW asset \in Asset, Sound(asset)
    PROVE  Holdings(asset)' = Holdings(asset) + Part(x, Event, asset)
<1>0. TypedTables /\ TypedMoney /\ TypedFeed
  BY DEF Core, Typed
<1>1. events # <<>> /\ Pay(x) /\ Event.type = "trade"
  BY <1>0 DEF PayTaker, PayMaker, InHand, TypedFeed, TradeSteps
<1>2. Event \in Message /\ Debit(x, Event) \in Nat /\ Credit(x, Event) \in Nat /\ Fee(x, Event) \in Nat
  BY <1>0, <1>1, InHandType, Amounts
<1> PICK n : n = Capped(Pays(x), Debit(x, Event))
  OBVIOUS
<1> PICK c \in Nat, f \in Nat : c = Credit(x, Event) /\ f = Fee(x, Event)
  BY <1>2
<1>3. n \in Nat /\ \A r \in DOMAIN balance :
        /\ balance'[r].available = balance[r].available
        /\ r # Pays(x) => balance'[r] = balance[r]
        /\ r = Pays(x) => balance'[r].locked = balance[r].locked - n
  BY <1>0, <1>1, PayEffect
<1>4. \A r \in AnyRow : tx'[r] = tx[r] + (IF r = Gets(x) THEN c ELSE 0)
                 - (IF r = Quote(x) /\ (T(x).side = "sell" \/ Quote(x) \in DOMAIN balance) THEN f ELSE 0)
  BY <1>1 DEF Pay
<1>5. \A u \in User : /\ <<u, asset>> \in Row /\ <<u, asset>> \in DOMAIN balance /\ <<u, asset>> \in AnyRow
                      /\ balance[<<u, asset>>].available \in Int
                      /\ balance[<<u, asset>>].locked \in Int
                      /\ tx[<<u, asset>>] \in Int
  BY PurseType DEF Row, AnyRow
<1>6. \A u \in User : u # T(x).owner => Purse(u, asset)' = Purse(u, asset)
  <2> SUFFICES ASSUME NEW u \in User, u # T(x).owner
               PROVE  Purse(u, asset)' = Purse(u, asset)
    OBVIOUS
  <2> PICK r : r = <<u, asset>>
    OBVIOUS
  <2>1. r # Pays(x) /\ r # Gets(x) /\ r # Quote(x)
    BY DEF Pays, Gets, Quote
  <2>2. balance'[r] = balance[r] /\ tx'[r] = tx[r]
    BY <1>3, <1>4, <1>5, <2>1
  <2>3. Purse(u, asset)' = balance'[r].available + balance'[r].locked + tx'[r]
    BY DEF Purse, Worth
  <2> QED BY <2>2, <2>3 DEF Purse, Worth
<1>7. CASE IsExternal(x)
  <2>1. \A u \in User : Purse(u, asset)' = Purse(u, asset)
    BY <1>6, <1>7, SettlementAssumption DEF IsExternal
  <2>2. Part(x, Event, asset) = 0 /\ Holdings(asset) \in Int
    BY <1>7, PurseType DEF Part
  <2> QED BY <2>1, <2>2, HoldingsStay
<1>8. CASE ~IsExternal(x)
  <2>1. Pays(x)[2] = asset => n = Debit(x, Event)
    <3>1. Pays(x)[2] = asset => Clear(Pays(x))
      BY DEF Sound, Clear
    <3> QED BY <1>8, <3>1, NotCapped
  <2> PICK v \in User : v = T(x).owner
    BY <1>8, <1>0, <1>1, InHandType, TermsType
  <2> PICK r : r = <<v, asset>>
    OBVIOUS
  <2>2. Quote(x) \in DOMAIN balance
    <3>1. Quote(x) \in Row
      BY <1>0, <1>1, <1>8, TermsType
    <3> QED BY <1>0, <3>1 DEF TypedTables
  <2>3. tx'[r] = tx[r] + (IF r = Gets(x) THEN c ELSE 0) - (IF r = Quote(x) THEN f ELSE 0)
    BY <1>4, <1>5, <2>2
  <2>4. balance'[r].available = balance[r].available
        /\ balance'[r].locked = balance[r].locked - IF r = Pays(x) THEN n ELSE 0
    BY <1>3, <1>5
  <2>5. Purse(v, asset)' = balance'[r].available + balance'[r].locked + tx'[r]
        /\ Purse(v, asset) = balance[r].available + balance[r].locked + tx[r]
    BY DEF Purse, Worth
  <2>6. Purse(v, asset)' = Purse(v, asset) + (IF r = Gets(x) THEN c ELSE 0)
                             - (IF r = Quote(x) THEN f ELSE 0) - (IF r = Pays(x) THEN n ELSE 0)
    BY <1>3, <1>5, <2>3, <2>4, <2>5
  <2> PICK m \in Nat, q \in Nat : m = Event.price * Event.quantity /\ q = Event.quantity
    BY <1>0, <1>1, InHandType, Products
  <2>7. Gain(x, Event, asset) = (IF r = Gets(x) THEN c ELSE 0)
                             - (IF r = Quote(x) THEN f ELSE 0) - (IF r = Pays(x) THEN n ELSE 0)
    <3>1. T(x).side \in {"buy", "sell"} /\ asset \in {"base", "quote"}
      BY TermsType DEF Asset
    <3>2. CASE T(x).side = "buy" /\ asset = "base"
      <4>1. r = Gets(x) /\ r # Quote(x) /\ r # Pays(x)
        BY <3>2 DEF Gets, Quote, Pays
      <4>2. c = q
        BY <3>2 DEF Credit
      <4> QED BY <3>2, <4>1, <4>2 DEF Gain
    <3>3. CASE T(x).side = "buy" /\ asset = "quote"
      <4>1. r # Gets(x) /\ r = Quote(x) /\ r = Pays(x)
        BY <3>3 DEF Gets, Quote, Pays
      <4>2. n = m
        BY <2>1, <3>3 DEF Debit, Cost, Pays
      <4> QED BY <3>3, <4>1, <4>2 DEF Gain
    <3>4. CASE T(x).side = "sell" /\ asset = "base"
      <4>1. r # Gets(x) /\ r # Quote(x) /\ r = Pays(x)
        BY <3>4 DEF Gets, Quote, Pays
      <4>2. n = q
        BY <2>1, <3>4 DEF Debit, Cost, Pays
      <4> QED BY <3>4, <4>1, <4>2 DEF Gain
    <3>5. CASE T(x).side = "sell" /\ asset = "quote"
      <4>1. r = Gets(x) /\ r = Quote(x) /\ r # Pays(x)
        BY <3>5 DEF Gets, Quote, Pays
      <4>2. c = m
        BY <3>5 DEF Credit
      <4> QED BY <3>5, <4>1, <4>2 DEF Gain
    <3> QED BY <3>1, <3>2, <3>3, <3>4, <3>5
  <2> PICK d \in Int : d = Gain(x, Event, asset)
    BY <1>3, <2>7
  <2>8. Purse(v, asset)' = Purse(v, asset) + d
    <3>1. Purse(v, asset) \in Int
      BY PurseType
    <3> QED BY <1>3, <2>6, <2>7, <3>1
  <2>9. Holdings(asset)' = Holdings(asset) + d
    BY <1>6, <2>8, HoldingsChange
  <2> QED BY <1>8, <2>9 DEF Part
<1> QED BY <1>7, <1>8

\* Locking and releasing margin changes nobody's wealth.
LEMMA WorthKept ==
    ASSUME Core, NEW s, NEW m \in Int, NEW asset \in Asset, tx' = tx,
           (s \in DOMAIN balance /\ balance[s].locked + m \in Nat /\ balance' = Locking(balance, s, m))
             \/ (s \in DOMAIN balance /\ balance[s].locked - m \in Nat /\ balance' = Releasing(balance, s, m))
             \/ balance' = balance
    PROVE  Holdings(asset)' = Holdings(asset)
<1>0. balance \in [DOMAIN balance -> Account]
  BY DEF Core, Typed, TypedTables
<1>1. \A r \in DOMAIN balance : /\ balance[r].available \in Int /\ balance[r].locked \in Int
                                /\ balance'[r].available + balance'[r].locked
                                     = balance[r].available + balance[r].locked
  <2> PICK D, b, c : D = DOMAIN balance /\ b = balance /\ c = balance'
    OBVIOUS
  <2>1. b \in [D -> Account] /\ \A r \in D : b[r].available \in Int /\ b[r].locked \in Int
    BY <1>0 DEF Account
  <2>2. CASE s \in D /\ b[s].locked + m \in Nat /\ c = Locking(b, s, m)
    <3>1. /\ c[s].available = b[s].available - m /\ c[s].locked = b[s].locked + m
          /\ \A y \in D : y # s => c[y] = b[y]
      BY <2>1, <2>2, RowLocks
    <3> QED BY <2>1, <2>2, <3>1
  <2>3. CASE s \in D /\ b[s].locked - m \in Nat /\ c = Releasing(b, s, m)
    <3>1. /\ c[s].available = b[s].available + m /\ c[s].locked = b[s].locked - m
          /\ \A y \in D : y # s => c[y] = b[y]
      BY <2>1, <2>3, RowReleases
    <3> QED BY <2>1, <2>3, <3>1
  <2>4. CASE c = b
    BY <2>1, <2>4
  <2> QED BY <2>2, <2>3, <2>4
<1>2. ASSUME NEW u \in User
      PROVE  Purse(u, asset)' = Purse(u, asset)
  <2>1. <<u, asset>> \in DOMAIN balance
    BY PurseType
  <2>2. Purse(u, asset)' = balance'[<<u, asset>>].available + balance'[<<u, asset>>].locked + tx'[<<u, asset>>]
    BY DEF Purse, Worth
  <2> QED BY <1>1, <2>1, <2>2 DEF Purse, Worth
<1> QED BY <1>2, HoldingsStay

\* Releasing margin changes nobody's wealth.
LEMMA UnlockKeeps ==
    ASSUME Core, Unlock, NEW asset \in Asset
    PROVE  Holdings(asset)' = Holdings(asset)
<1>0. TypedTables /\ TypedFeed
  BY DEF Core, Typed
<1>1. events # <<>> /\ Event.order \in Order /\ tx' = tx
  BY <1>0, InHandType DEF Unlock, TypedFeed
<1> PICK s : s = Pays(Event.order)
  OBVIOUS
<1> PICK n : n = Capped(s, ToRelease(Event.order, writer.seen))
  OBVIOUS
<1>2. balance' = Releasing(balance, s, n)
  BY DEF Unlock, Releasing
<1>3. CASE s \in DOMAIN balance
  <2>1. ToRelease(Event.order, writer.seen) \in Int
    <3>1. T(Event.order).quantity - writer.seen.filled \in Int /\ T(Event.order).price \in Int
      BY <1>0, <1>1, TermsType DEF TypedFeed, RowValue
    <3>2. \A a, b \in Int : a * b \in Int
      OBVIOUS
    <3>3. T(Event.order).price * (T(Event.order).quantity - writer.seen.filled) \in Int
      BY <3>1, <3>2
    <3> QED BY <3>1, <3>3 DEF ToRelease, Margin, Cost
  <2>2. balance[s].locked \in Nat
    BY <1>0, <1>3 DEF TypedTables, Account
  <2>3. n \in Int /\ balance[s].locked - n \in Nat
    BY <1>3, <2>1, <2>2 DEF Capped
  <2> QED BY <1>1, <1>2, <1>3, <2>3, WorthKept
<1>4. CASE s \notin DOMAIN balance
  <2>1. balance' = balance
    BY <1>0, <1>2, <1>4 DEF Releasing, TypedTables
  <2> PICK z \in Int : z = 0
    OBVIOUS
  <2> QED BY <1>1, <2>1, WorthKept
<1> QED BY <1>3, <1>4

\* Locking the margin of an order takes it from what was available.
LEMMA LockKeeps ==
    ASSUME Core, NEW x \in Order, Lock(x), NEW asset \in Asset
    PROVE  Holdings(asset)' = Holdings(asset)
<1>0. TypedTables
  BY DEF Core, Typed
<1>1. ~IsExternal(x) /\ tx' = tx
  BY DEF Lock
<1> PICK s : s = Pays(x)
  OBVIOUS
<1> PICK m \in Nat : m = LockedFor(x)
  BY MarginType, TermsType DEF LockedFor
<1>2. balance' = Locking(balance, s, m)
  BY DEF Lock, Locking
<1>3. s \in DOMAIN balance /\ balance[s].locked + m \in Nat /\ m \in Int
  <2>1. s \in DOMAIN balance
    BY <1>0, <1>1, TermsType DEF TypedTables
  <2> QED BY <1>0, <2>1 DEF TypedTables, Account
<1> QED BY <1>1, <1>2, <1>3, WorthKept

\* Settling a trade puts the proceeds of the open transaction into the rows.
LEMMA CommitKeeps ==
    ASSUME Core, Commit, NEW asset \in Asset
    PROVE  /\ Holdings(asset)' = Holdings(asset)
           /\ Recorded(asset)' = Recorded(asset) - Half(asset)
           /\ Half(asset)' = 0 /\ Half(asset) \in Int
<1>0. TypedTables /\ TypedMoney /\ TypedFeed
  BY DEF Core, Typed
<1>1. events # <<>> /\ Event.type = "trade" /\ writer.at = "commit" /\ Finish /\ tx' = NoTx
  BY <1>0 DEF Commit, TypedFeed, TradeSteps
<1>2. Holdings(asset)' = Holdings(asset)
  <2> SUFFICES ASSUME NEW u \in User
               PROVE  Purse(u, asset)' = Purse(u, asset)
    BY HoldingsStay
  <2> PICK r : r = <<u, asset>>
    OBVIOUS
  <2>1. r \in DOMAIN balance /\ balance[r].available \in Int /\ balance[r].locked \in Int /\ tx[r] \in Int
        /\ r \in AnyRow
    BY PurseType DEF Row, AnyRow
  <2>2. balance'[r] = [balance[r] EXCEPT !.available = @ + tx[r]] /\ balance[r] \in Account
    BY <1>0, <2>1 DEF Commit, TypedTables
  <2>3. balance'[r].available = balance[r].available + tx[r] /\ balance'[r].locked = balance[r].locked
    BY <2>2 DEF Account
  <2>4. tx'[r] = 0
    BY <1>1, <2>1 DEF NoTx
  <2>5. Purse(u, asset)' = balance'[r].available + balance'[r].locked + tx'[r]
    BY DEF Purse, Worth
  <2>6. Purse(u, asset) = balance[r].available + balance[r].locked + tx[r]
    BY DEF Purse, Worth
  <2> QED BY <2>1, <2>3, <2>4, <2>5, <2>6
<1>3. Half(asset)' = 0
  <2>1. writer'.at = "idle"
    BY <1>1 DEF Finish, Idle
  <2> QED BY <2>1 DEF Half, HalfAt, TradeSteps
<1> PICK e : e = Event
  OBVIOUS
<1>4. /\ Gain(e.order, e, asset) + Gain(e.maker, e, asset)
           + (IF asset = "quote" THEN Fee(e.order, e) + Fee(e.maker, e) ELSE 0) = 0
      /\ Part(e.order, e, asset) + GainAbroad(e.order, e, asset) = Gain(e.order, e, asset)
      /\ Part(e.maker, e, asset) + GainAbroad(e.maker, e, asset) = Gain(e.maker, e, asset)
      /\ Part(e.order, e, asset) \in Int /\ GainAbroad(e.order, e, asset) \in Int
      /\ Part(e.maker, e, asset) \in Int /\ GainAbroad(e.maker, e, asset) \in Int
      /\ Gain(e.order, e, asset) \in Int /\ Fee(e.order, e) \in Nat
      /\ Gain(e.maker, e, asset) \in Int /\ Fee(e.maker, e) \in Nat
  BY <1>1, GainsCancel
<1> PICK go \in Int, gm \in Int, po \in Int, pm \in Int, ao \in Int, am \in Int, fo \in Nat, fm \in Nat :
      /\ go = Gain(e.order, e, asset) /\ gm = Gain(e.maker, e, asset)
      /\ po = Part(e.order, e, asset) /\ pm = Part(e.maker, e, asset)
      /\ ao = GainAbroad(e.order, e, asset) /\ am = GainAbroad(e.maker, e, asset)
      /\ fo = Fee(e.order, e) /\ fm = Fee(e.maker, e)
  BY <1>4
<1>5. Half(asset) = po + pm
  BY <1>1 DEF Half, HalfAt, TradeSteps
<1>6. abroad'[asset] = abroad[asset] + ao + am /\ fees' = fees + fo + fm
  BY DEF Commit
<1>7. abroad[asset] \in Int /\ fees \in Int
  BY <1>0 DEF TypedMoney
<1>8. Recorded(asset)' = abroad'[asset] + (IF asset = "quote" THEN fees' ELSE 0)
  BY DEF Recorded
<1>9. Recorded(asset)' = Recorded(asset) - Half(asset)
  <2>1. po + ao = go /\ pm + am = gm /\ go + gm + (IF asset = "quote" THEN fo + fm ELSE 0) = 0
    BY <1>4
  <2> PICK a \in Int, fs \in Int : a = abroad[asset] /\ fs = fees
    BY <1>7
  <2>2. CASE asset = "quote"
    <3>1. Recorded(asset)' = a + ao + am + (fs + fo + fm) /\ Recorded(asset) = a + fs
      BY <1>6, <1>8, <2>2 DEF Recorded
    <3> QED BY <1>5, <2>1, <2>2, <3>1
  <2>3. CASE asset # "quote"
    <3>1. Recorded(asset)' = a + ao + am /\ Recorded(asset) = a
      BY <1>6, <1>8, <2>3 DEF Recorded
    <3>2. go + gm = 0
      BY <2>1, <2>3
    <3>3. po + ao = go /\ pm + am = gm
      BY <2>1
    <3>4. a + ao + am = a - (po + pm)
      BY <3>2, <3>3
    <3> QED BY <1>5, <3>1, <3>4
  <2> QED BY <2>2, <2>3
<1> QED BY <1>2, <1>3, <1>5, <1>9

\* Money is kept, on every step.
LEMMA BalancedNext ==
    ASSUME Core, Within, Covered, Balanced, [Next]_vars
    PROVE  Balanced'
<1> SUFFICES ASSUME crashes' = 0, NEW asset \in Asset, Sound(asset)'
             PROVE  Holdings(asset)' + Recorded(asset)' = Cardinality(User) * Funds + Half(asset)'
  BY DEF Balanced
<1>0. /\ Typed /\ TypedTables /\ TypedMoney /\ TypedFeed
      /\ Holdings(asset) \in Int /\ Recorded(asset) \in Int
  BY PurseType DEF Core, Typed
<1> PICK k : k = Cardinality(User) * Funds
  OBVIOUS
<1>s. Sound(asset)
  <2>1. \A o \in Order : InBudget(o)' => InBudget(o)
    BY BudgetBefore
  <2> QED BY <2>1 DEF Sound
<1>a. crashes = 0 => Holdings(asset) + Recorded(asset) = k + Half(asset)
  BY <1>s DEF Balanced
<1>k. k \in Int
  <2>1. Cardinality(User) \in Nat /\ Funds \in Nat
    BY TablesAssumption, SettlementAssumption, FS_CardinalityType
  <2> QED BY <2>1, Products
\* Steps that leave all sums alone.
<1>1. ASSUME crashes = 0, Holdings(asset)' = Holdings(asset), fees' = fees, abroad' = abroad,
             Half(asset)' = Half(asset)
      PROVE  Holdings(asset)' + Recorded(asset)' = k + Half(asset)'
  BY <1>a, <1>1 DEF Recorded
<1>2. ASSUME balance' = balance, tx' = tx
      PROVE  Holdings(asset)' = Holdings(asset)
  BY <1>2 DEF Holdings, Purse, Worth
<1>3. ASSUME writer.at \notin TradeSteps, writer'.at \notin TradeSteps
      PROVE  Half(asset)' = Half(asset)
  BY <1>3 DEF Half, HalfAt
<1>4. ASSUME writer.at \in TradeSteps \ {"maker"}, writer'.at \in TradeSteps \ {"maker"}, events' = events
      PROVE  Half(asset)' = Half(asset)
  BY <1>4 DEF Half, HalfAt, Event
<1>5. ASSUME NEW x \in Order, Api(x)
      PROVE  Holdings(asset)' + Recorded(asset)' = k + Half(asset)'
  <2>1. crashes' = crashes /\ fees' = fees /\ abroad' = abroad /\ writer' = writer /\ events' = events /\ tx' = tx
    BY <1>5, ApiFrame
  <2>2. Half(asset)' = Half(asset)
    BY <2>1 DEF Half, HalfAt, Event
  <2>3. CASE Lock(x)
    BY <1>1, <2>1, <2>2, <2>3, LockKeeps
  <2>4. CASE ~Lock(x)
    <3>1. balance' = balance
      BY <1>5, <2>4 DEF Api, Insert, Record, Publish, SendAgain, Inject, ReadForCancel, SendCancel,
                        MarkCanceled, money
    <3> QED BY <1>1, <1>2, <2>1, <2>2, <3>1
  <2> QED BY <2>3, <2>4
<1>6. CASE EngineStep
  <2>1. \E new : /\ balance' = balance /\ tx' = tx /\ fees' = fees /\ abroad' = abroad /\ crashes' = crashes
                 /\ writer' = writer /\ events \in Seq(Message) /\ new \in Seq(Message) /\ events' = events \o new
    BY <1>6, EngineView
  <2>2. Half(asset)' = Half(asset)
    <3>1. CASE writer.at \notin TradeSteps
      BY <1>3, <2>1, <3>1
    <3>2. CASE writer.at \in TradeSteps
      <4>1. events # <<>>
        BY <1>0, <3>2 DEF TypedFeed, TradeSteps
      <4>2. PICK new \in Seq(Message) : events' = events \o new
        BY <2>1
      <4> PICK es \in Seq(Message) : es = events
        BY <2>1
      <4>3. Head(es \o new) = Head(es)
        BY <4>1
      <4>4. Event' = Event
        BY <4>2, <4>3 DEF Event
      <4> QED BY <2>1, <4>4 DEF Half
    <3> QED BY <3>1, <3>2
  <2> QED BY <1>1, <1>2, <2>1, <2>2
<1>7. CASE ApplyStatus \/ DropOutside \/ ReadClosing \/ Unlock \/ Close
  <2>1. writer.at \notin TradeSteps /\ writer'.at \notin TradeSteps
    BY <1>0, <1>7 DEF ApplyStatus, DropOutside, ReadClosing, Unlock, Close, InHand, Finish, Idle, TradeSteps
  <2>2. crashes' = crashes /\ fees' = fees /\ abroad' = abroad
    BY <1>7 DEF ApplyStatus, DropOutside, ReadClosing, Unlock, Close, money
  <2>3. CASE Unlock
    BY <1>1, <1>3, <2>1, <2>2, <2>3, UnlockKeeps
  <2>4. CASE ~Unlock
    <3>1. balance' = balance /\ tx' = tx
      BY <1>7, <2>4 DEF ApplyStatus, DropOutside, ReadClosing, Close, money
    <3> QED BY <1>1, <1>2, <1>3, <2>1, <2>2, <3>1
  <2> QED BY <2>3, <2>4
<1>8. CASE ReadFilled \/ WriteFilled
  <2>1. /\ writer.at \in TradeSteps \ {"maker"} /\ writer'.at \in TradeSteps \ {"maker"} /\ events' = events
        /\ balance' = balance /\ tx' = tx /\ crashes' = crashes /\ fees' = fees /\ abroad' = abroad
    BY <1>8 DEF ReadFilled, WriteFilled, Idle, TradeSteps, money
  <2> QED BY <1>1, <1>2, <1>4, <2>1
<1>9. CASE PayTaker
  <2>1. /\ writer.at = "idle" /\ writer'.at = "maker" /\ events' = events /\ events # <<>>
        /\ crashes' = crashes /\ fees' = fees /\ abroad' = abroad /\ Event.type = "trade"
    BY <1>0, <1>9 DEF PayTaker, InHand, TypedFeed
  <2> PICK x \in Order : x = Event.order
    BY <1>0, <2>1, InHandType
  <2>2. Holdings(asset)' = Holdings(asset) + Part(x, Event, asset)
    BY <1>9, <1>s, <2>1, PayGains
  <2>3. Part(x, Event, asset) \in Int
    BY <2>1, GainsCancel
  <2>4. Half(asset) = 0
    BY <2>1 DEF Half, HalfAt, TradeSteps
  <2>5. Half(asset)' = Part(x, Event, asset)
    <3>1. Half(asset)' = HalfAt("maker", Event, asset)
      BY <2>1 DEF Half, Event
    <3> QED BY <2>3, <3>1 DEF HalfAt, TradeSteps
  <2>6. Recorded(asset)' = Recorded(asset)
    BY <2>1 DEF Recorded
  <2> QED BY <1>0, <1>a, <1>k, <2>1, <2>2, <2>3, <2>4, <2>5, <2>6
<1>10. CASE PayMaker
  <2>1. /\ writer.at = "maker" /\ writer'.at = "fillMaker" /\ events' = events /\ events # <<>>
        /\ crashes' = crashes /\ fees' = fees /\ abroad' = abroad /\ Event.type = "trade"
    BY <1>0, <1>10 DEF PayMaker, TypedFeed, TradeSteps
  <2> PICK x \in Order : x = Event.maker
    BY <1>0, <2>1, InHandType
  <2>2. Holdings(asset)' = Holdings(asset) + Part(x, Event, asset)
    <3>1. CASE ~IsExternal(x)
      BY <1>10, <1>s, <2>1, <3>1, PayGains
    <3>2. CASE IsExternal(x)
      <4>1. balance' = balance /\ tx' = tx /\ Part(x, Event, asset) = 0
        BY <1>10, <3>2 DEF PayMaker, Part
      <4> QED BY <1>0, <1>2, <4>1
    <3> QED BY <3>1, <3>2
  <2>3. Part(x, Event, asset) \in Int /\ Part(Event.order, Event, asset) \in Int
    BY <2>1, GainsCancel
  <2>4. Half(asset) = Part(Event.order, Event, asset)
    BY <2>1, <2>3 DEF Half, HalfAt, TradeSteps
  <2>5. Half(asset)' = Part(Event.order, Event, asset) + Part(x, Event, asset)
    <3>1. Half(asset)' = HalfAt("fillMaker", Event, asset)
      BY <2>1 DEF Half, Event
    <3> QED BY <2>3, <3>1 DEF HalfAt, TradeSteps
  <2>6. Recorded(asset)' = Recorded(asset)
    BY <2>1 DEF Recorded
  <2> PICK p \in Int, g \in Int : p = Part(x, Event, asset) /\ g = Part(Event.order, Event, asset)
    BY <2>3
  <2>7. Holdings(asset)' = Holdings(asset) + p /\ Half(asset) = g /\ Half(asset)' = g + p
    BY <2>2, <2>4, <2>5
  <2> PICK h \in Int, c \in Int : h = Holdings(asset) /\ c = Recorded(asset)
    BY <1>0
  <2>8. h + c = k + g
    BY <1>a, <2>1, <2>7
  <2>9. Holdings(asset)' = h + p /\ Recorded(asset)' = c /\ Half(asset)' = g + p
    BY <2>6, <2>7
  <2>10. (h + p) + c = k + (g + p)
    BY <1>k, <2>8
  <2> QED BY <2>9, <2>10
<1>11. CASE Commit
  <2>1. crashes' = crashes
    BY <1>11 DEF Commit
  <2>2. /\ Holdings(asset)' = Holdings(asset) /\ Recorded(asset)' = Recorded(asset) - Half(asset)
        /\ Half(asset)' = 0 /\ Half(asset) \in Int
    BY <1>11, CommitKeeps
  <2> QED BY <1>0, <1>a, <1>k, <2>1, <2>2
<1>12. CASE Crash
  BY <1>0, <1>12 DEF Crash, TypedMoney
<1>13. CASE UNCHANGED vars
  <2>1. /\ balance' = balance /\ tx' = tx /\ fees' = fees /\ abroad' = abroad /\ crashes' = crashes
        /\ writer' = writer /\ events' = events
    BY <1>13 DEF vars
  <2>2. Half(asset)' = Half(asset)
    BY <2>1 DEF Half, Event
  <2> QED BY <1>1, <1>2, <2>1, <2>2
<1> QED BY <1>5, <1>6, <1>7, <1>8, <1>9, <1>10, <1>11, <1>12, <1>13 DEF Next, Api, Writer

\* At the start there are the deposits.
LEMMA BalancedInit == Init => Balanced
<1> SUFFICES ASSUME Init, NEW asset \in Asset, Sound(asset)
             PROVE  Holdings(asset) + Recorded(asset) = Cardinality(User) * Funds + Half(asset)
  BY DEF Balanced
<1>1. Half(asset) = 0
  BY DEF Init, Idle, Half, HalfAt, TradeSteps
<1>2. Recorded(asset) = 0
  BY DEF Init, Recorded
<1> DEFINE f == [u \in User |-> Purse(u, asset)]
<1>3. Funds \in Int
  BY SettlementAssumption
<1>4. \A u \in User : f[u] = Funds
  <2>1. \A u \in User : <<u, asset>> \in Row /\ <<u, asset>> \in AnyRow
    BY DEF Row, AnyRow
  <2>2. \A u \in User : Worth(<<u, asset>>) = Funds /\ tx[<<u, asset>>] = 0
    BY <1>3, <2>1 DEF Init, Worth, NoTx
  <2> QED BY <1>3, <2>2 DEF Purse
<1>5. Holdings(asset) = SumFunctionOnSet(f, User)
  BY DEF Holdings
<1> HIDE DEF f
<1>6. Holdings(asset) = Cardinality(User) * Funds
  BY <1>3, <1>4, <1>5, TablesAssumption, SumConstant
<1>7. Cardinality(User) * Funds \in Int
  BY <1>3, SettlementAssumption, TablesAssumption, FS_CardinalityType, Products
<1> QED BY <1>1, <1>2, <1>6, <1>7

\* Between two events, what the users have, the fees and what the market maker
\* has gained are the deposits: no trade, cancel or reject makes or loses money,
\* in an asset that only orders sent once and within their price are paid in.
THEOREM MoneyKept == Spec => []MoneyConserved
<1> DEFINE Inv == Core /\ ClosingLast /\ Within /\ Covered /\ Balanced
<1>1. Init => Inv
  BY CoreInit, CoveredInit, BalancedInit
<1>2. Inv /\ [Next]_vars => Inv'
  BY CoreNext, ClosingLastNext, WithinNext, CoveredNext, BalancedNext
<1>3. Inv => MoneyConserved
  <2> SUFFICES ASSUME Inv, writer.at = "idle", crashes = 0, NEW asset \in Asset, Sound(asset)
               PROVE  SumFunction([u \in User |-> Worth(<<u, asset>>)])
                        + abroad[asset] + (IF asset = "quote" THEN fees ELSE 0)
                      = Cardinality(User) * Funds
    BY DEF MoneyConserved, Sound
  <2>1. Half(asset) = 0
    BY DEF Half, HalfAt, TradeSteps
  <2>2. \A u \in User : Purse(u, asset) = Worth(<<u, asset>>)
    <3>1. tx = NoTx
      BY DEF Core, Typed, TypedMoney, TradeSteps
    <3>2. \A u \in User : <<u, asset>> \in AnyRow
      BY DEF AnyRow
    <3>3. \A u \in User : Purse(u, asset) = Worth(<<u, asset>>) + 0
      BY <3>1, <3>2 DEF Purse, NoTx
    <3>4. \A u \in User : Worth(<<u, asset>>) \in Int
      <4>1. \A u \in User : balance[<<u, asset>>].available \in Int /\ balance[<<u, asset>>].locked \in Int
        BY PurseType
      <4> QED BY <4>1 DEF Worth
    <3> QED BY <3>3, <3>4
  <2> DEFINE f == [u \in User |-> Worth(<<u, asset>>)]
  <2>3. f = [u \in User |-> Purse(u, asset)]
    BY <2>2
  <2>4. SumFunction(f) = Holdings(asset)
    <3>1. DOMAIN f = User /\ Holdings(asset) = SumFunctionOnSet(f, User)
      BY <2>3 DEF Holdings
    <3> HIDE DEF f
    <3> QED BY <3>1 DEF SumFunction
  <2> HIDE DEF f
  <2> PICK k : k = Cardinality(User) * Funds
    OBVIOUS
  <2>5. Holdings(asset) + Recorded(asset) = k + Half(asset)
    BY DEF Balanced
  <2>6. k \in Int /\ Holdings(asset) \in Int /\ abroad[asset] \in Int /\ fees \in Int
    <3>1. Cardinality(User) \in Nat /\ Funds \in Nat
      BY TablesAssumption, SettlementAssumption, FS_CardinalityType
    <3>2. Holdings(asset) \in Int
      BY PurseType
    <3> QED BY <3>1, <3>2, Products DEF Core, Typed, TypedMoney
  <2>7. SumFunction(f) + abroad[asset] + (IF asset = "quote" THEN fees ELSE 0) = k
    BY <2>1, <2>4, <2>5, <2>6 DEF Recorded
  <2> QED BY <2>7 DEF f
<1> QED BY <1>1, <1>2, <1>3, PTL DEF Spec

-----------------------------------------------------------------------------
(* What an order's row says of the order.                                    *)

\* A cancel or a reject of the order is among the messages.
HasClosing(es, x) == \E i \in 1..Len(es) : es[i].type \in Closing /\ es[i].order = x
Ending(x)    == HasClosing(events, x)

\* The order has a row and is on its way to the engine, or is in its book.
Known(x)     == orders[x].status # "none"
Coming(x)    == placing[x] \in {"record", "send"} \/ Waiting(x)
Standing(x)  == Coming(x) \/ x \in resting
Canceling(x) == Offers(commands, "cancel", x)

Shown == {"open", "partially_filled"}
Dead  == Closing \union {"filled"}

\* Acceptance is the first thing said of an order, and nothing has been filled
\* when it is applied.
AcceptFirst ==
    \A y \in Order : \A i \in 1..Len(events) :
        events[i].type = "accepted" /\ events[i].order = y =>
            /\ Plain(y) => orders[y].filled = 0
            /\ \A j \in 1..Len(events) : j < i => ~Names(events[j], y)

OutsideNoted == \A i \in 1..Len(events) : events[i].type = "outside" => events[i].order \in outside

\* Where the lots of an order are: it ends with some of them untraded, it has
\* ended, or all that are not in the book have been traded.
Accounted(x) ==
    \/ Ending(x) /\ Executed(x) < T(x).quantity
    \/ ~Ending(x) /\ ~Standing(x) /\ ~Named(x) /\ orders[x].status \in Closing
    \/ ~Ending(x) /\ (Coming(x) \/ Executed(x) + left[x] = T(x).quantity)

\* While the engine has the order the row is open, unless a cancel that is in
\* the stream has been marked in it; and when the last event has been applied
\* the row is closed.
Followed(x) ==
    /\ Accounted(x)
    /\ Standing(x) => IF calls[x] \in {"new", "send"} THEN orders[x].status \in Shown ELSE Canceling(x)
    /\ ~Standing(x) /\ ~Named(x) => orders[x].status \in Dead
    /\ orders[x].status = "filled" => orders[x].filled = T(x).quantity
    /\ orders[x].filled = T(x).quantity => orders[x].status \in Dead

\* So it is with every order that is placed once and ahead of its CANCEL.
Story == crashes = 0 => \A x \in Order \ (outside \union overtaken) :
    Plain(x) /\ Known(x) => Followed(x)

Told == Core /\ ClosingLast /\ Within /\ AcceptFirst /\ OutsideNoted

\* Cancels and rejects, with more messages behind and with the first one done.
LEMMA ClosingsGrow ==
    ASSUME NEW es \in Seq(Message), NEW fs \in Seq(Message)
    PROVE  \A x : HasClosing(es \o fs, x) <=> HasClosing(es, x) \/ HasClosing(fs, x)
<1> DEFINE gs == es \o fs
<1>1. /\ Len(es) \in Nat /\ Len(fs) \in Nat /\ Len(gs) = Len(es) + Len(fs)
      /\ \A i \in 1..Len(gs) : gs[i] = IF i <= Len(es) THEN es[i] ELSE fs[i - Len(es)]
  BY VolumeConcat, LenProperties
<1> HIDE DEF gs
<1>2. ASSUME NEW x
      PROVE  HasClosing(gs, x) <=> HasClosing(es, x) \/ HasClosing(fs, x)
  <2>1. ASSUME NEW i \in 1..Len(gs), gs[i].type \in Closing /\ gs[i].order = x
        PROVE  HasClosing(es, x) \/ HasClosing(fs, x)
    <3>1. (i <= Len(es) /\ i \in 1..Len(es)) \/ (~(i <= Len(es)) /\ i - Len(es) \in 1..Len(fs))
      BY <1>1
    <3> QED BY <1>1, <2>1, <3>1 DEF HasClosing
  <2>2. ASSUME NEW i \in 1..Len(es), es[i].type \in Closing /\ es[i].order = x
        PROVE  HasClosing(gs, x)
    <3>1. i <= Len(es) /\ i \in 1..Len(gs)
      BY <1>1
    <3> QED BY <1>1, <2>2, <3>1 DEF HasClosing
  <2>3. ASSUME NEW i \in 1..Len(fs), fs[i].type \in Closing /\ fs[i].order = x
        PROVE  HasClosing(gs, x)
    <3>1. ~(Len(es) + i <= Len(es)) /\ Len(es) + i \in 1..Len(gs) /\ (Len(es) + i) - Len(es) = i
      BY <1>1
    <3> QED BY <1>1, <2>3, <3>1 DEF HasClosing
  <2> QED BY <2>1, <2>2, <2>3 DEF HasClosing
<1> QED BY <1>2 DEF gs

\* The message in hand is done.
LEMMA ClosingsShrink ==
    ASSUME NEW es \in Seq(Message), es # <<>>
    PROVE  \A x : HasClosing(es, x) <=> (Head(es).type \in Closing /\ Head(es).order = x)
                                        \/ HasClosing(Tail(es), x)
<1> DEFINE ds == Tail(es)
           h == Head(es)
<1>1. /\ Len(es) \in Nat /\ 1 \in 1..Len(es) /\ h = es[1] /\ Len(ds) = Len(es) - 1
      /\ \A i \in 1..Len(ds) : i + 1 \in 1..Len(es) /\ ds[i] = es[i + 1]
  BY VolumeTail
<1> HIDE DEF ds, h
<1>2. ASSUME NEW x
      PROVE  HasClosing(es, x) <=> (h.type \in Closing /\ h.order = x) \/ HasClosing(ds, x)
  <2>1. ASSUME NEW i \in 1..Len(es), es[i].type \in Closing /\ es[i].order = x
        PROVE  (h.type \in Closing /\ h.order = x) \/ HasClosing(ds, x)
    <3>1. i = 1 \/ (i - 1 \in 1..Len(ds) /\ (i - 1) + 1 = i)
      BY <1>1
    <3> QED BY <1>1, <2>1, <3>1 DEF HasClosing
  <2> QED BY <1>1, <2>1 DEF HasClosing
<1> QED BY <1>2 DEF ds, h

\* An order that ends has been named.
LEMMA EndingNamed ==
    ASSUME NEW x, Ending(x)
    PROVE  Named(x)
BY DEF Ending, HasClosing, Named, Mentions, Names

\* An order that is placed once is meant only by its own events.
LEMMA MeantByItself ==
    ASSUME Core, events # <<>>, NEW x \in Order, Plain(x)
    PROVE  /\ Event.order \in Order /\ Event.maker \in Order
           /\ Id(Event.order) \in Order /\ Id(Event.maker) \in Order
           /\ ~IsExternal(x) /\ Id(x) = x
           /\ Id(Event.order) = x <=> Event.order = x
           /\ Id(Event.maker) = x <=> Event.maker = x
<1>1. /\ Event.order \in Order /\ Event.maker \in Order /\ Sent(Event.order) /\ Sent(Event.maker)
  BY NamedSent DEF Core, Once
<1>2. ~IsExternal(x) /\ Id(x) = x /\ Id(Event.order) \in Order /\ Id(Event.maker) \in Order
  BY <1>1, TermsType DEF Plain
<1> QED BY <1>1, <1>2, OnlyItself

\* What the writer does to the row of such an order: it touches those of the
\* event in hand, and their filled quantities only when it writes a fill.
LEMMA WriterTouches ==
    ASSUME Core, Writer, NEW x \in Order, Plain(x)
    PROVE  /\ ~Names(Event, x) => orders'[x] = orders[x]
           /\ \/ orders'[x].filled = orders[x].filled
              \/ Names(Event, x) /\ Event.type = "trade"
<1>0. TypedTables /\ TypedFeed /\ Typed /\ Rowed /\ Untouched /\ SeenRow /\ orders \in [Order -> RowValue]
  BY DEF Core, Typed, TypedTables, Once
<1>a. events # <<>>
  BY <1>0, WriterEvents
<1>b. /\ Id(Event.order) \in Order /\ Id(Event.maker) \in Order /\ ~IsExternal(x)
      /\ Id(Event.order) = x <=> Event.order = x
      /\ Id(Event.maker) = x <=> Event.maker = x
  BY <1>a, MeantByItself
<1>t. ~Names(Event, x) => orders'[x] = orders[x]
  BY <1>0, <1>b, WriterRows DEF InHandRows, Names
<1>1. ASSUME NEW s \in Statuses, SetStatus(Id(Event.order), s)
      PROVE  orders'[x].filled = orders[x].filled
  BY <1>0, <1>b, <1>1, StatusSet
<1>2. CASE orders' = orders
  BY <1>t, <1>2
<1>3. CASE ApplyStatus
  <2>1. SetStatus(Id(Event.order), "open") \/ SetStatus(Id(Event.order), "filled")
    BY <1>3 DEF ApplyStatus
  <2> QED BY <1>t, <1>1, <2>1 DEF Statuses
<1>5. CASE Close
  <2>1. SetStatus(Id(Event.order), Event.type) /\ Event.type \in Closing
    BY <1>0, <1>5 DEF Close, TypedFeed
  <2> QED BY <1>t, <1>1, <2>1 DEF Statuses, Closing
<1>6. CASE WriteFilled
  <2>1. Event.type = "trade"
    BY <1>0, <1>6 DEF WriteFilled, TypedFeed, TradeSteps
  <2> QED BY <1>t, <2>1
<1>7. CASE Commit
  <2>1. orders' = [o \in Order |->
                     IF IsExternal(o) /\ o \in {Event.order, Event.maker} /\ orders[o].status = "none"
                     THEN [status |-> "filled", filled |-> Event.quantity] ELSE orders[o]]
    BY <1>7 DEF Commit
  <2>2. orders'[x] = orders[x]
    BY <1>b, <2>1
  <2> QED BY <2>2
<1> QED BY <1>2, <1>3, <1>5, <1>6, <1>7
    DEF Writer, DropOutside, ReadClosing, Unlock, PayTaker, PayMaker, ReadFilled, money

\* Acceptance stays the first word.
LEMMA AcceptFirstNext ==
    ASSUME Core, AcceptFirst, [Next]_vars
    PROVE  AcceptFirst'
<1> SUFFICES ASSUME NEW y \in Order, NEW i \in 1..Len(events'), events'[i].type = "accepted", events'[i].order = y
             PROVE  /\ Plain(y)' => orders'[y].filled = 0
                    /\ \A j \in 1..Len(events') : j < i => ~Names(events'[j], y)
  BY DEF AcceptFirst
<1>p. Plain(y)' => Plain(y)
  BY PlacingMoves DEF Core
<1>0. /\ Typed /\ TypedFeed /\ events \in Seq(Message) /\ orders \in [Order -> RowValue] /\ Untouched
  BY DEF Core, Once, Typed, TypedFeed, TypedTables
<1> DEFINE Goal == /\ Plain(y)' => orders'[y].filled = 0
                   /\ \A j \in 1..Len(events') : j < i => ~Names(events'[j], y)
<1>1. ASSUME events' = events, orders'[y].filled = orders[y].filled
      PROVE  Goal
  <2>1. (Plain(y) => orders[y].filled = 0) /\ \A j \in 1..Len(events) : j < i => ~Names(events[j], y)
    BY <1>1 DEF AcceptFirst
  <2> QED BY <1>1, <1>p, <2>1
<1>2. ASSUME NEW x \in Order, Api(x)
      PROVE  Goal
  <2>1. events' = events
    BY <1>2, ApiFrame
  <2>2. orders'[y].filled = orders[y].filled
    BY <1>0, <1>2, ApiSteps
  <2> QED BY <1>1, <2>1, <2>2
<1>3. CASE EngineStep
  <2>1. PICK x \in Order : \E new :
             /\ Tells(x, new)
             /\ \/ Waiting(x) /\ ~Named(x)
                \/ Cancels(x, new)
             /\ new \in Seq(Message) /\ events' = events \o new /\ orders' = orders
    BY <1>3, EngineView
  <2>2. PICK new :
             /\ Tells(x, new)
             /\ \/ Waiting(x) /\ ~Named(x)
                \/ Cancels(x, new)
             /\ new \in Seq(Message) /\ events' = events \o new /\ orders' = orders
    BY <2>1
  <2> PICK es \in Seq(Message) : es = events
    BY <1>0
  <2> DEFINE gs == es \o new
  <2>3. /\ Len(gs) = Len(es) + Len(new) /\ Len(es) \in Nat /\ Len(new) \in Nat
        /\ \A k \in 1..Len(gs) : gs[k] = IF k <= Len(es) THEN es[k] ELSE new[k - Len(es)]
    BY <2>2, VolumeConcat, LenProperties
  <2>4. events' = gs
    BY <2>2
  <2> HIDE DEF gs
  <2>5. i \in 1..Len(gs) /\ gs[i].type = "accepted" /\ gs[i].order = y
    BY <2>4
  <2>6. CASE i <= Len(es)
    <3>1. i \in 1..Len(es) /\ gs[i] = es[i]
      BY <2>3, <2>5, <2>6
    <3>2. \A j \in 1..Len(gs) : j < i => j \in 1..Len(es) /\ gs[j] = es[j]
      BY <2>3, <2>5, <2>6
    <3>3. (Plain(y) => orders[y].filled = 0) /\ \A j \in 1..Len(es) : j < i => ~Names(es[j], y)
      BY <2>5, <3>1 DEF AcceptFirst
    <3> QED BY <1>p, <2>2, <2>4, <3>2, <3>3
  <2>7. CASE ~(i <= Len(es))
    <3>1. i - Len(es) \in 1..Len(new) /\ gs[i] = new[i - Len(es)]
      BY <2>3, <2>5, <2>7
    <3>2. Accepts(new)
      BY <2>5, <3>1 DEF Accepts
    <3>3. Waiting(x) /\ ~Named(x)
      BY <2>2, <3>2 DEF Cancels
    <3>4. i - Len(es) = 1 /\ y = x
      BY <2>2, <2>5, <3>1 DEF Tells
    <3>5. Plain(y) => orders[y].filled = 0
      BY <1>0, <3>3, <3>4 DEF Untouched
    <3>6. \A j \in 1..Len(gs) : j < i => j \in 1..Len(es) /\ gs[j] = es[j]
      BY <2>3, <2>5, <3>4
    <3>7. \A j \in 1..Len(es) : ~Names(es[j], y)
      BY <3>3, <3>4 DEF Named, Mentions
    <3> QED BY <1>p, <2>2, <2>4, <3>5, <3>6, <3>7
  <2> QED BY <2>6, <2>7
<1>4. CASE Writer
  <2>1. events # <<>> /\ (events' = events \/ events' = Tail(events))
    BY <1>0, <1>4, WriterEvents
  <2>2. 1 \in 1..Len(events) /\ Event = events[1]
    BY <1>0, <2>1, InHandType
  \* Where the acceptance was.
  <2>3. ASSUME NEW k \in 1..Len(events), events[k].type = "accepted", events[k].order = y
        PROVE  /\ Plain(y)' => orders'[y].filled = 0
               /\ \A j \in 1..Len(events) : j < k => ~Names(events[j], y)
    <3>1. (Plain(y) => orders[y].filled = 0) /\ \A j \in 1..Len(events) : j < k => ~Names(events[j], y)
      BY <2>3 DEF AcceptFirst
    <3>2. Len(events) \in Nat /\ (k = 1 \/ 1 < k)
      BY <1>0, LenProperties
    <3>3. ~(Names(Event, y) /\ Event.type = "trade")
      BY <2>2, <2>3, <3>1, <3>2
    <3>4. Plain(y) => orders'[y].filled = orders[y].filled
      BY <1>4, <3>3, WriterTouches
    <3> QED BY <1>p, <3>1, <3>4
  <2>4. CASE events' = events
    BY <2>3, <2>4
  <2>5. CASE events' = Tail(events)
    <3>1. \A k \in 1..Len(events') : k + 1 \in 1..Len(events) /\ events'[k] = events[k + 1]
      BY <1>0, <2>1, <2>5, VolumeTail
    <3>2. i + 1 \in 1..Len(events) /\ events[i + 1].type = "accepted" /\ events[i + 1].order = y
      BY <3>1
    <3>3. \A j \in 1..Len(events') : j < i => j + 1 < i + 1 /\ j + 1 \in 1..Len(events) /\ events'[j] = events[j + 1]
      BY <3>1
    <3> QED BY <2>3, <3>2, <3>3
  <2> QED BY <2>1, <2>4, <2>5
<1>5. CASE Crash
  <2>1. events' = <<>> /\ Len(<<>>) = 0 /\ 1..0 = {}
    BY <1>5 DEF Crash
  <2> QED BY <2>1
<1>6. CASE UNCHANGED vars
  BY <1>1, <1>6 DEF vars
<1> QED BY <1>2, <1>3, <1>4, <1>5, <1>6 DEF Next, Api

\* Fills at the mark price stay noted.
LEMMA OutsideNotedNext ==
    ASSUME Core, OutsideNoted, [Next]_vars
    PROVE  OutsideNoted'
<1>0. Typed /\ events \in Seq(Message)
  BY DEF Core, Typed, TypedFeed
<1>1. CASE events' = events /\ outside' = outside
  BY <1>1 DEF OutsideNoted
<1>2. ASSUME NEW x \in Order, Api(x)
      PROVE  OutsideNoted'
  BY <1>1, <1>2, ApiFrame
<1>3. CASE EngineStep
  <2>1. PICK x \in Order : \E new :
             Tells(x, new) /\ new \in Seq(Message) /\ events' = events \o new
    BY <1>3, EngineView
  <2>2. PICK new : Tells(x, new) /\ new \in Seq(Message) /\ events' = events \o new
    BY <2>1
  <2> PICK es \in Seq(Message) : es = events
    BY <1>0
  <2> DEFINE gs == es \o new
  <2>3. /\ Len(gs) = Len(es) + Len(new) /\ Len(es) \in Nat /\ Len(new) \in Nat
        /\ \A i \in 1..Len(gs) : gs[i] = IF i <= Len(es) THEN es[i] ELSE new[i - Len(es)]
    BY <2>2, VolumeConcat, LenProperties
  <2>4. events' = gs
    BY <2>2
  <2> HIDE DEF gs
  <2>5. ASSUME NEW i \in 1..Len(gs), gs[i].type = "outside"
        PROVE  gs[i].order \in outside'
    <3>1. CASE i <= Len(es)
      <4>1. i \in 1..Len(es) /\ gs[i] = es[i]
        BY <2>3, <3>1
      <4>2. outside \subseteq outside'
        BY <2>2 DEF Tells
      <4> QED BY <2>5, <4>1, <4>2 DEF OutsideNoted
    <3>2. CASE ~(i <= Len(es))
      <4>1. i - Len(es) \in 1..Len(new) /\ gs[i] = new[i - Len(es)]
        BY <2>3, <3>2
      <4> QED BY <2>2, <2>5, <4>1 DEF Tells
    <3> QED BY <3>1, <3>2
  <2> QED BY <2>4, <2>5 DEF OutsideNoted
<1>4. CASE Writer
  <2>1. events # <<>> /\ (events' = events \/ events' = Tail(events)) /\ outside' = outside
    BY <1>0, <1>4, WriterEvents, WriterFrame
  <2>2. CASE events' = Tail(events)
    <3>1. \A i \in 1..Len(events') : i + 1 \in 1..Len(events) /\ events'[i] = events[i + 1]
      BY <1>0, <2>1, <2>2, VolumeTail
    <3> QED BY <2>1, <3>1 DEF OutsideNoted
  <2> QED BY <1>1, <2>1, <2>2
<1>5. CASE Crash
  <2>1. events' = <<>> /\ Len(<<>>) = 0 /\ 1..0 = {}
    BY <1>5 DEF Crash
  <2> QED BY <2>1 DEF OutsideNoted
<1>6. CASE UNCHANGED vars
  BY <1>1, <1>6 DEF vars
<1> QED BY <1>2, <1>3, <1>4, <1>5, <1>6 DEF Next, Api

\* An order that nothing has happened to is followed as before.
LEMMA FollowedKept ==
    ASSUME NEW x \in Order, Followed(x),
           Coming(x)' <=> Coming(x), x \in resting' <=> x \in resting, left'[x] = left[x],
           Named(x)' <=> Named(x), Ending(x)' <=> Ending(x), Canceling(x) => Canceling(x)',
           calls'[x] = calls[x], orders'[x] = orders[x], Executed(x)' = Executed(x)
    PROVE  Followed(x)'
<1>1. Standing(x)' <=> Standing(x)
  BY DEF Standing
<1>2. Accounted(x)'
  BY <1>1 DEF Followed, Accounted
<1> QED BY <1>1, <1>2 DEF Followed

\* The API's calls.
LEMMA FollowedApi ==
    ASSUME Core, NEW z \in Order, Api(z), NEW x \in Order, Plain(x), x \notin overtaken',
           Known(x) => Followed(x), Known(x)'
    PROVE  Followed(x)'
<1>0. /\ Typed /\ Once /\ RowedAt(x) /\ orders \in [Order -> RowValue] /\ commands \in Seq(Command)
      /\ calls \in [Order -> {"new", "send", "mark", "done"}] /\ placing \in [Order -> Stations]
      /\ ~IsExternal(x) /\ Id(x) = x
  BY DEF Core, Typed, TypedTables, Rowed, Plain
<1>1. events' = events /\ left' = left /\ resting' = resting
  BY ApiFrame
<1>2. Executed(x)' = Executed(x) /\ (Named(x)' <=> Named(x)) /\ (Ending(x)' <=> Ending(x))
  BY <1>1, ApiLots DEF Ending
<1>3. ASSUME NEW k \in {"place", "cancel"}, Send(k, z), k = "cancel" => z \in MayCancel
      PROVE  /\ Waiting(x)' <=> Waiting(x) \/ (k = "place" /\ z = x)
             /\ Canceling(x)' <=> Canceling(x) \/ (k = "cancel" /\ z = x)
  <2> PICK cs \in Seq(Command) : cs = commands
    BY <1>0
  <2> PICK c \in Command : c = [op |-> k, order |-> z]
    BY <1>3 DEF Command
  <2>1. \A kind, y : Offers(Append(cs, c), kind, y) <=> Offers(cs, kind, y) \/ (c.op = kind /\ c.order = y)
    BY CommandsGrow
  <2>2. Waiting(x)' <=> Offers(Append(cs, c), "place", x)
    BY <1>3 DEF Waiting, Send
  <2>3. Canceling(x)' <=> Offers(Append(cs, c), "cancel", x)
    BY <1>3 DEF Canceling, Send
  <2> QED BY <2>1, <2>2, <2>3 DEF Waiting, Canceling
<1>4. commands' = commands => (Waiting(x)' <=> Waiting(x)) /\ (Canceling(x)' <=> Canceling(x))
  BY DEF Waiting, Canceling
<1>5. calls[x] # "new" => Known(x)
  BY <1>0 DEF RowedAt, Known
<1>6. \/ Send("place", z)
      \/ Send("cancel", z) /\ z \in MayCancel
      \/ commands' = commands
  <2>1. calls[z] = "send" => z \in MayCancel
    BY <1>0 DEF Typed, TypedTables
  <2> QED BY <2>1 DEF Api, Lock, Insert, Record, Publish, SendAgain, Inject, ReadForCancel, SendCancel, MarkCanceled
<1>7. CASE z # x
  <2>1. orders'[x] = orders[x] /\ calls'[x] = calls[x] /\ placing'[x] = placing[x]
    BY <1>0, <1>7, ApiSteps
  <2>2. (Waiting(x)' <=> Waiting(x)) /\ (Canceling(x)' <=> Canceling(x))
    BY <1>3, <1>4, <1>6, <1>7
  <2>3. Coming(x)' <=> Coming(x)
    BY <2>1, <2>2 DEF Coming
  <2>4. Known(x)
    BY <2>1 DEF Known
  <2> QED BY <1>1, <1>2, <2>1, <2>2, <2>3, <2>4, FollowedKept
\* Nothing changes but the station, or that the PLACE is sent.
<1>8. ASSUME z = x, orders'[x] = orders[x], calls'[x] = calls[x], Coming(x)' <=> Coming(x),
             Canceling(x)' <=> Canceling(x)
      PROVE  Followed(x)'
  <2>1. Known(x)
    BY <1>8 DEF Known
  <2> QED BY <1>1, <1>2, <1>8, <2>1, FollowedKept
<1>9. CASE z = x /\ Lock(x)
  <2>1. orders' = orders /\ placing[x] = "new"
    BY <1>9 DEF Lock
  <2> QED BY <1>0, <2>1 DEF RowedAt, Known
<1>10. CASE z = x /\ Insert(x)
  <2>1. /\ orders' = [orders EXCEPT ![x].status = "open"] /\ calls' = calls
        /\ placing[x] = "insert" /\ placing'[x] = "record"
    BY <1>0, <1>10 DEF Insert, Goto
  <2>2. calls[x] = "new" /\ ~Named(x) /\ orders[x].filled = 0
    BY <1>0, <2>1 DEF RowedAt, Core, Once, Untouched, Sent
  <2>3. orders'[x].status = "open" /\ orders'[x].filled = 0 /\ calls'[x] = "new"
    BY <1>0, <2>1, <2>2 DEF RowValue
  <2>4. Coming(x)' /\ Standing(x)' /\ ~Ending(x)'
    BY <1>2, <2>1, <2>2, EndingNamed DEF Coming, Standing
  <2>5. T(x).quantity > 0 /\ T(x).quantity \in Nat
    BY TermsType
  <2> QED BY <2>3, <2>4, <2>5 DEF Followed, Accounted, Shown
<1>11. CASE z = x /\ Record(x)
  <2>1. /\ orders' = orders /\ calls' = calls /\ commands' = commands
        /\ placing[x] = "record" /\ placing'[x] = "send"
    BY <1>0, <1>11 DEF Record, Goto
  <2> QED BY <1>4, <1>8, <1>11, <2>1 DEF Coming
<1>12. CASE z = x /\ Publish(x)
  <2>1. orders' = orders /\ calls' = calls /\ Send("place", x) /\ placing[x] = "send"
    BY <1>12 DEF Publish
  <2>2. Waiting(x)' /\ (Canceling(x)' <=> Canceling(x))
    BY <1>3, <1>12, <2>1
  <2> QED BY <1>8, <1>12, <2>1, <2>2 DEF Coming
<1>13. CASE z = x /\ (SendAgain(x) \/ Inject(x))
  BY <1>0, <1>13 DEF SendAgain, Inject, Again
<1>14. CASE z = x /\ ReadForCancel(x)
  <2>1. orders' = orders /\ commands' = commands /\ placing' = placing /\ calls[x] = "new" /\ calls'[x] = "send"
    BY <1>0, <1>14 DEF ReadForCancel
  <2>2. Known(x)
    BY <2>1 DEF Known
  <2>3. (Coming(x)' <=> Coming(x)) /\ (Standing(x)' <=> Standing(x))
    BY <1>1, <1>4, <2>1 DEF Coming, Standing
  <2> QED BY <1>1, <1>2, <2>1, <2>2, <2>3 DEF Followed, Accounted
<1>15. CASE z = x /\ SendCancel(x)
  <2>1. orders' = orders /\ Send("cancel", x) /\ placing' = placing
        /\ calls[x] = "send" /\ calls'[x] = "mark" /\ x \in MayCancel
    BY <1>0, <1>15 DEF SendCancel, Typed, TypedTables
  <2>2. Known(x)
    BY <2>1 DEF Known
  <2>3. (Waiting(x)' <=> Waiting(x)) /\ Canceling(x)'
    BY <1>3, <1>15, <2>1
  <2>4. (Coming(x)' <=> Coming(x)) /\ (Standing(x)' <=> Standing(x))
    BY <1>1, <2>1, <2>3 DEF Coming, Standing
  <2> QED BY <1>1, <1>2, <2>1, <2>2, <2>3, <2>4 DEF Followed, Accounted
<1>16. CASE z = x /\ MarkCanceled(x)
  <2>1. /\ orders' = [orders EXCEPT ![x].status = "canceled"] /\ commands' = commands /\ placing' = placing
        /\ calls[x] = "mark" /\ calls'[x] = "done"
    BY <1>0, <1>16 DEF MarkCanceled
  <2>2. orders'[x].status = "canceled" /\ orders'[x].filled = orders[x].filled
    BY <1>0, <2>1 DEF RowValue
  <2>3. Known(x)
    BY <1>5, <2>1
  <2>4. (Coming(x)' <=> Coming(x)) /\ (Standing(x)' <=> Standing(x)) /\ (Canceling(x)' <=> Canceling(x))
    BY <1>1, <1>4, <2>1 DEF Coming, Standing
  <2>5. Followed(x) /\ calls[x] \notin {"new", "send"} /\ calls'[x] \notin {"new", "send"}
    BY <2>1, <2>3
  <2>6. Accounted(x)'
    BY <1>1, <1>2, <2>2, <2>4, <2>5 DEF Followed, Accounted, Closing
  <2> QED BY <1>2, <2>2, <2>4, <2>5, <2>6 DEF Followed, Closing, Dead
<1> QED BY <1>7, <1>9, <1>10, <1>11, <1>12, <1>13, <1>14, <1>15, <1>16 DEF Api

\* The engine's step.
LEMMA FollowedEngine ==
    ASSUME Told, EngineStep, NEW x \in Order, x \notin outside', x \notin overtaken, Plain(x), Followed(x)
    PROVE  Followed(x)'
<1>0. /\ Core /\ Typed /\ TypedBook /\ Once /\ Untouched /\ commands \in Seq(Command) /\ ClosingLast
      /\ Id(x) = x /\ ~Doubled(x)
  BY DEF Told, Core, Typed, TypedTables, Once, Plain
<1>1. PICK z \in Order : \E new :
             /\ commands # <<>> /\ Tells(z, new)
             /\ \/ /\ Head(commands).op = "place" /\ Head(commands).order = z /\ Waiting(z) /\ Sent(z)
                   /\ z \notin resting /\ ~Named(z) /\ ~Waiting(z)' /\ Places(z, new)
                   /\ \A y \in Order : y # z => (Waiting(y)' <=> Waiting(y))
                \/ /\ Head(commands).op = "cancel" /\ Head(commands).order = Id(z) /\ Cancels(z, new)
                   /\ z \notin resting => Id(z) = z
                   /\ \A y \in Order : Waiting(y)' <=> Waiting(y)
                   /\ Id(z) \notin overtaken => Sent(Id(z)) /\ ~Waiting(Id(z))
             /\ commands' = Tail(commands)
             /\ events \in Seq(Message) /\ new \in Seq(Message) /\ events' = events \o new
             /\ UNCHANGED <<orders, placing, calls, writer>>
  BY <1>0, EngineView
<1>2. PICK new :
             /\ commands # <<>> /\ Tells(z, new)
             /\ \/ /\ Head(commands).op = "place" /\ Head(commands).order = z /\ Waiting(z) /\ Sent(z)
                   /\ z \notin resting /\ ~Named(z) /\ ~Waiting(z)' /\ Places(z, new)
                   /\ \A y \in Order : y # z => (Waiting(y)' <=> Waiting(y))
                \/ /\ Head(commands).op = "cancel" /\ Head(commands).order = Id(z) /\ Cancels(z, new)
                   /\ z \notin resting => Id(z) = z
                   /\ \A y \in Order : Waiting(y)' <=> Waiting(y)
                   /\ Id(z) \notin overtaken => Sent(Id(z)) /\ ~Waiting(Id(z))
             /\ commands' = Tail(commands)
             /\ events \in Seq(Message) /\ new \in Seq(Message) /\ events' = events \o new
             /\ UNCHANGED <<orders, placing, calls, writer>>
  BY <1>1
\* Only its own commands are about x.
<1>a. Head(commands).order = x => z = x
  <2>1. z \in resting => Sent(z)
    BY <1>0 DEF Untouched
  <2> QED BY <1>2, <2>1, OnlyItself
<1>3. /\ Executed(x)' = Executed(x) + Volume(new, x)
      /\ Named(x)' <=> Named(x) \/ Mentions(new, x)
      /\ Volume(new, x) \in Nat
  BY <1>0, <1>2, EngineLots, VolumeType
<1>4. Ending(x)' <=> Ending(x) \/ HasClosing(new, x)
  <2> PICK es \in Seq(Message) : es = events
    BY <1>2
  <2>1. HasClosing(es \o new, x) <=> HasClosing(es, x) \/ HasClosing(new, x)
    BY <1>2, ClosingsGrow
  <2>2. Ending(x)' <=> HasClosing(es \o new, x)
    BY <1>2 DEF Ending
  <2> QED BY <2>1, <2>2 DEF Ending
<1>5. HasClosing(new, x) <=> z = x /\ Closes(new)
  <2>1. \A i \in 1..Len(new) : new[i].order = z
    BY <1>2 DEF Tells
  <2> QED BY <2>1 DEF HasClosing, Closes
<1>6. Canceling(x) => Canceling(x)' \/ (z = x /\ Head(commands).op = "cancel")
  <2> PICK cs \in Seq(Command) : cs = commands
    BY <1>0
  <2>1. Offers(cs, "cancel", x) <=> Offers(Tail(cs), "cancel", x) \/ (Head(cs).op = "cancel" /\ Head(cs).order = x)
    BY <1>2, CommandsShrink
  <2>2. Canceling(x)' <=> Offers(Tail(cs), "cancel", x)
    BY <1>2 DEF Canceling
  <2> QED BY <1>2, <1>a, <2>1, <2>2 DEF Canceling
<1>7. /\ x \in resting <=> left[x] > 0
      /\ x \in resting' <=> left'[x] > 0
      /\ left[x] \in Nat /\ left'[x] \in Nat
      /\ T(x).quantity \in Nat /\ T(x).quantity > 0
  BY <1>0, <1>2, TermsType DEF TypedBook, Tells
<1>8. Executed(x) \in Int /\ Executed(x) + left[x] <= T(x).quantity
  <2>1. /\ Written(x) \in Nat /\ Volume(events, x) \in Nat /\ orders[x].filled \in Nat
    BY <1>0, WrittenType
  <2> HIDE DEF Plain
  <2> QED BY <2>1 DEF Executed, Told, Within
<1>9. orders'[x] = orders[x] /\ calls'[x] = calls[x] /\ placing'[x] = placing[x]
  BY <1>2
<1>10. CASE z # x
  <2>1. left'[x] + Volume(new, x) = left[x] /\ (Coming(x)' <=> Coming(x))
    BY <1>2, <1>9, <1>10 DEF Tells, Coming
  <2>2. (Ending(x)' <=> Ending(x)) /\ (Canceling(x) => Canceling(x)')
    BY <1>4, <1>5, <1>6, <1>10
  <2>3. Standing(x)' => Standing(x)
    BY <1>3, <1>7, <2>1 DEF Standing
  <2>4. Mentions(new, x) \/ Volume(new, x) = 0
    BY <1>2, VolumeUnnamed
  <2>5. Standing(x) => Standing(x)' \/ Named(x)'
    BY <1>3, <1>7, <2>1, <2>4 DEF Standing
  <2>6. x \notin resting => ~Mentions(new, x) /\ Volume(new, x) = 0 /\ left'[x] = 0 /\ left[x] = 0
    <3>1. \A i \in 1..Len(new) : new[i].order = z /\ (new[i].maker = z \/ new[i].maker \in resting)
      BY <1>2 DEF Tells
    <3>2. x \notin resting => ~Mentions(new, x)
      BY <1>10, <3>1 DEF Mentions, Names
    <3> QED BY <1>3, <1>7, <2>1, <2>4, <3>2
  <2>7. Accounted(x)'
    <3>1. CASE Ending(x) /\ Executed(x) < T(x).quantity
      <4>1. x \notin resting
        <5>1. PICK i \in 1..Len(events) : events[i].type \in Closing /\ events[i].order = x
          BY <3>1 DEF Ending, HasClosing
        <5> QED BY <1>0, <5>1 DEF ClosingLast, Final
      <4>2. Executed(x)' = Executed(x)
        BY <1>3, <1>8, <2>6, <4>1
      <4> QED BY <2>2, <3>1, <4>2 DEF Accounted
    <3>2. CASE ~Ending(x) /\ ~Standing(x) /\ ~Named(x) /\ orders[x].status \in Closing
      <4>1. ~Mentions(new, x)
        BY <2>6, <3>2 DEF Standing
      <4>2. ~Named(x)' /\ ~Standing(x)' /\ ~Ending(x)'
        BY <1>3, <2>2, <2>3, <3>2, <4>1
      <4> QED BY <1>9, <3>2, <4>2 DEF Accounted
    <3>3. CASE ~Ending(x) /\ Coming(x)
      BY <2>1, <2>2, <3>3 DEF Accounted
    <3>4. CASE ~Ending(x) /\ Executed(x) + left[x] = T(x).quantity
      <4>1. Executed(x)' + left'[x] = T(x).quantity
        BY <1>3, <1>7, <1>8, <2>1, <3>4
      <4> QED BY <2>2, <3>4, <4>1 DEF Accounted
    <3> QED BY <3>1, <3>2, <3>3, <3>4 DEF Followed, Accounted
  <2>8. Standing(x)' => IF calls'[x] \in {"new", "send"} THEN orders'[x].status \in Shown ELSE Canceling(x)'
    BY <1>9, <2>2, <2>3 DEF Followed
  <2>9. ~Standing(x)' /\ ~Named(x)' => orders'[x].status \in Dead
    BY <1>3, <1>9, <2>5 DEF Followed
  <2> QED BY <1>9, <2>7, <2>8, <2>9 DEF Followed
<1>11. CASE /\ z = x /\ Head(commands).op = "place" /\ Waiting(x) /\ Sent(x) /\ x \notin resting /\ ~Named(x)
             /\ ~Waiting(x)' /\ Places(x, new)
  <2>1. orders[x].filled = 0
    BY <1>0, <1>11 DEF Untouched
  <2>2. Executed(x) = 0
    <3>1. Written(x) = 0 /\ Volume(events, x) = 0
      BY <1>0, <1>11, WrittenType
    <3> QED BY <2>1, <3>1 DEF Executed
  <2>3. Named(x)'
    <3>1. Len(new) \in Nat /\ Len(new) > 0
      BY <1>2, <1>11 DEF Places
    <3>2. 1 \in 1..Len(new) /\ new[1].order = x
      BY <1>2, <1>11, <3>1 DEF Tells
    <3>3. Mentions(new, x)
      BY <3>2 DEF Mentions, Names
    <3> QED BY <1>3, <3>3
  <2>4. ~Ending(x) /\ (Ending(x)' <=> Closes(new))
    BY <1>4, <1>5, <1>11, EndingNamed
  <2>5. Executed(x)' = Volume(new, x)
    BY <1>3, <2>2
  <2>6. Accounted(x)'
    <3>1. CASE Closes(new) /\ Volume(new, x) < T(x).quantity
      BY <2>4, <2>5, <3>1 DEF Accounted
    <3>2. CASE ~Closes(new) /\ left'[x] + Volume(new, x) = T(x).quantity
      <4>1. Executed(x)' + left'[x] = T(x).quantity
        BY <1>3, <1>7, <2>5, <3>2
      <4> QED BY <2>4, <3>2, <4>1 DEF Accounted
    <3> QED BY <1>11, <3>1, <3>2 DEF Places
  <2>7. Standing(x)
    BY <1>11 DEF Standing, Coming
  <2>8. IF calls'[x] \in {"new", "send"} THEN orders'[x].status \in Shown ELSE Canceling(x)'
    BY <1>6, <1>9, <1>11, <2>7 DEF Followed
  <2> QED BY <1>9, <2>3, <2>6, <2>8 DEF Followed
<1>12. CASE z = x /\ Cancels(x, new) /\ Sent(x) /\ ~Waiting(x) /\ ~Waiting(x)'
  <2>1. left'[x] = 0 /\ Volume(new, x) = 0
    BY <1>0, <1>7, <1>12 DEF Cancels
  <2>c. ~Coming(x) /\ ~Coming(x)'
    BY <1>9, <1>12 DEF Coming, Sent
  <2>2. ~Standing(x)' /\ Executed(x)' = Executed(x)
    BY <1>2, <1>3, <1>7, <1>8, <2>1, <2>c DEF Standing
  <2>3. CASE x \in resting
    <3>1. Closes(new)
      BY <1>0, <1>12, <2>3 DEF Cancels
    <3>2. Ending(x)' /\ Named(x)'
      <4>1. Mentions(new, x)
        BY <1>2, <1>12, <3>1 DEF Tells, Closes, Mentions, Names
      <4> QED BY <1>3, <1>4, <1>5, <1>12, <3>1, <4>1
    <3>3. Executed(x)' < T(x).quantity
      BY <1>7, <1>8, <2>2, <2>3
    <3>4. Accounted(x)'
      BY <3>2, <3>3 DEF Accounted
    <3> QED BY <1>9, <2>2, <3>2, <3>4 DEF Followed
  <2>4. CASE x \notin resting
    <3>1. new = <<>> /\ left' = left /\ resting' = resting
      BY <1>12, <2>4 DEF Cancels
    <3>2. events' = events
      BY <1>2, <3>1
    <3>3. (Named(x)' <=> Named(x)) /\ (Ending(x)' <=> Ending(x))
      BY <3>2 DEF Named, Ending
    <3>4. ~Standing(x) /\ left'[x] = left[x]
      BY <2>4, <2>c, <3>1 DEF Standing
    <3>5. Accounted(x)'
      BY <1>9, <2>2, <2>c, <3>3, <3>4 DEF Followed, Accounted
    <3> QED BY <1>9, <2>2, <3>3, <3>4, <3>5 DEF Followed
  <2> QED BY <2>3, <2>4
<1> QED BY <1>0, <1>2, <1>10, <1>11, <1>12

\* The writer's steps.
LEMMA FollowedWriter ==
    ASSUME Told, Writer, NEW x \in Order, x \notin outside, Plain(x), Known(x), Followed(x)
    PROVE  Followed(x)'
<1>0. /\ Core /\ Typed /\ TypedFeed /\ TypedTables /\ TypedBook /\ Untouched /\ SeenRow
      /\ events \in Seq(Message) /\ orders \in [Order -> RowValue] /\ ClosingLast /\ Rowed
  BY DEF Told, Core, Once, Typed, TypedFeed, TypedTables
<1>1. /\ events # <<>>
      /\ (events' = events /\ writer'.at # "idle") \/ (events' = Tail(events) /\ writer' = Idle)
      /\ left' = left /\ resting' = resting /\ calls' = calls /\ commands' = commands
      /\ placing' = placing
  BY <1>0, WriterEvents, WriterFrame
<1>i. /\ Event.order \in Order /\ Event.maker \in Order
      /\ Id(Event.order) \in Order /\ Id(Event.maker) \in Order
      /\ ~IsExternal(x) /\ Id(x) = x
      /\ Id(Event.order) = x <=> Event.order = x
      /\ Id(Event.maker) = x <=> Event.maker = x
  BY <1>0, <1>1, MeantByItself
<1>2. /\ Coming(x)' <=> Coming(x)
      /\ Standing(x)' <=> Standing(x)
      /\ Canceling(x)' <=> Canceling(x)
  BY <1>1 DEF Waiting, Coming, Standing, Canceling
<1>3. Executed(x)' = Executed(x)
  BY <1>0, WriterLots
<1>4. /\ Event.order \in Order /\ Event.maker \in Order /\ Event.quantity \in Nat /\ Fair(Event)
      /\ 1 \in 1..Len(events) /\ Event = events[1]
  BY <1>0, <1>1, InHandType
<1>5. /\ Named(x) <=> Names(Event, x) \/ Mentions(Tail(events), x)
      /\ Ending(x) <=> (Event.type \in Closing /\ Event.order = x) \/ HasClosing(Tail(events), x)
  <2> PICK es \in Seq(Message) : es = events
    BY <1>0
  <2>1. /\ Mentions(es, x) <=> Names(Head(es), x) \/ Mentions(Tail(es), x)
        /\ HasClosing(es, x) <=> (Head(es).type \in Closing /\ Head(es).order = x) \/ HasClosing(Tail(es), x)
    BY <1>1, MessagesShrink, ClosingsShrink
  <2> QED BY <2>1 DEF Named, Ending, Event
<1>6. events' = Tail(events) => (Named(x)' <=> Mentions(Tail(events), x)) /\ (Ending(x)' <=> HasClosing(Tail(events), x))
  BY DEF Named, Ending
<1>7. events' = events => (Named(x)' <=> Named(x)) /\ (Ending(x)' <=> Ending(x))
  BY DEF Named, Ending
<1>8. HasClosing(Tail(events), x) => Mentions(Tail(events), x)
  BY DEF HasClosing, Mentions, Names
<1>9. /\ x \in resting <=> left[x] > 0
      /\ left[x] \in Nat /\ T(x).quantity \in Nat /\ T(x).quantity > 0
      /\ orders[x].filled \in Nat /\ orders[x].status \in Statuses
  BY <1>0, TermsType DEF TypedBook, RowValue
<1>10. /\ Written(x) \in Nat /\ Written(x) <= Volume(events, x) /\ Volume(events, x) \in Nat
       /\ writer.at \notin TradeSteps => Written(x) = 0
       /\ Executed(x) = orders[x].filled - Written(x) + Volume(events, x)
       /\ Executed(x) \in Nat /\ Executed(x) + left[x] <= T(x).quantity
  <2>1. /\ Written(x) \in Nat /\ Written(x) <= Volume(events, x) /\ Volume(events, x) \in Nat
        /\ writer.at \notin TradeSteps => Written(x) = 0
    BY <1>0, WrittenType
  <2>2. Executed(x) = orders[x].filled - Written(x) + Volume(events, x)
    BY DEF Executed
  <2>3. Executed(x) + left[x] <= T(x).quantity
    <3> HIDE DEF Plain
    <3> QED BY DEF Told, Within
  <2> QED BY <1>9, <2>1, <2>2, <2>3
<1>11. x = Event.order \/ x = Event.maker => ~Coming(x) /\ orders[x].status # "none"
  <2>1. x = Event.order \/ x = Event.maker => Sent(x) /\ ~Waiting(x)
    BY <1>0, <1>1, NamedSent
  <2> QED BY <2>1 DEF Coming, Sent, Known
\* The row says all there is to say when no event names the order any more.
<1>12. ASSUME Finish, ~Mentions(Tail(events), x)
       PROVE  Executed(x) = orders'[x].filled
  <2>1. Written(x)' = 0
    BY <1>12 DEF Finish, Idle, Written, WrittenAt
  <2>2. Volume(events', x) = 0
    <3> PICK es \in Seq(Message) : es = Tail(events)
      BY <1>0, <1>1, InHandType
    <3>1. Volume(es, x) = 0
      BY <1>12, VolumeUnnamed
    <3> QED BY <1>12, <3>1 DEF Finish
  <2>3. Executed(x)' = orders'[x].filled - Written(x)' + Volume(events', x)
    BY DEF Executed
  <2>4. orders'[x].filled \in Nat
    <3>1. \/ orders'[x].filled = orders[x].filled
          \/ Names(Event, x) /\ Event.type = "trade"
      BY <1>0, WriterTouches
    <3>2. orders'[x].filled = orders[x].filled \/ Commit
      BY <1>0, <1>9, <1>12, <3>1
      DEF Writer, ApplyStatus, DropOutside, ReadClosing, Unlock, Close, InHand, PayTaker, PayMaker,
          ReadFilled, WriteFilled, Finish, Idle, Closing, TypedFeed
    <3>3. Commit => orders'[x] = orders[x]
      BY <1>i DEF Commit
    <3> QED BY <1>9, <3>2, <3>3
  <2> QED BY <1>3, <2>1, <2>2, <2>3, <2>4
<1>13. CASE ~Names(Event, x)
  <2>1. orders'[x] = orders[x]
    BY <1>0, <1>13, WriterTouches
  <2>2. (Named(x)' <=> Named(x)) /\ (Ending(x)' <=> Ending(x))
    BY <1>1, <1>5, <1>6, <1>7, <1>13 DEF Names
  <2> QED BY <1>1, <1>2, <1>3, <2>1, <2>2, FollowedKept
<1>14. CASE orders'[x] = orders[x] /\ events' = events
  BY <1>1, <1>2, <1>3, <1>7, <1>14, FollowedKept
<1>15. CASE Names(Event, x) /\ ApplyStatus /\ Event.type = "accepted"
  <2>1. SetStatus(Id(Event.order), "open") /\ Id(Event.order) = x /\ Finish /\ events' = Tail(events) /\ Event.order = x
    BY <1>4, <1>i, <1>15 DEF ApplyStatus, InHand, Finish, Fair, Names
  <2>2. orders'[x].status = "open" /\ orders'[x].filled = orders[x].filled
    BY <1>0, <1>4, <1>11, <2>1, StatusSet DEF SetStatus, RowValue
  <2>3. orders[x].filled = 0
    <3> HIDE DEF Plain
    <3> QED BY <1>4, <1>15, <2>1 DEF Told, AcceptFirst
  <2>4. (Ending(x)' <=> Ending(x)) /\ Named(x) /\ ~Coming(x)
    BY <1>5, <1>6, <1>11, <1>15, <2>1 DEF Closing
  <2>5. Accounted(x)'
    BY <1>1, <1>2, <1>3, <2>4 DEF Followed, Accounted
  <2>6. ~Standing(x) => Named(x)'
    <3> SUFFICES ASSUME ~Standing(x), ~Named(x)' PROVE FALSE
      OBVIOUS
    <3>1. ~Mentions(Tail(events), x)
      BY <1>6, <2>1
    <3>2. Executed(x) = 0
      BY <1>12, <2>1, <2>2, <2>3, <3>1
    <3>3. ~Ending(x) /\ left[x] = 0
      BY <1>6, <1>8, <1>9, <2>1, <2>4, <3>1 DEF Standing
    <3> QED BY <1>9, <2>4, <3>2, <3>3 DEF Followed, Accounted
  <2>7. Standing(x)' => IF calls'[x] \in {"new", "send"} THEN orders'[x].status \in Shown ELSE Canceling(x)'
    BY <1>1, <1>2, <2>2 DEF Followed, Shown
  <2> QED BY <1>2, <1>9, <2>2, <2>3, <2>5, <2>6, <2>7 DEF Followed
<1>16. CASE Names(Event, x) /\ ApplyStatus /\ Event.type = "filled"
  <2>1. SetStatus(Id(Event.order), "filled") /\ Id(Event.order) = x /\ Finish /\ events' = Tail(events) /\ Event.order = x
    BY <1>4, <1>i, <1>16 DEF ApplyStatus, InHand, Finish, Fair, Names
  <2>2. orders'[x].status = "filled" /\ orders'[x].filled = orders[x].filled
    BY <1>0, <1>4, <1>11, <2>1, StatusSet DEF SetStatus, RowValue
  <2>3. x \notin resting /\ ~Mentions(Tail(events), x)
    <3>1. Final(events[1], outside) /\ events[1].order = x
      BY <1>4, <1>16, <2>1 DEF Final
    <3>2. x \notin resting /\ \A j \in 1..Len(events) : j > 1 => ~Names(events[j], x)
      BY <1>0, <1>4, <3>1 DEF ClosingLast
    <3>3. \A i \in 1..Len(Tail(events)) : i + 1 \in 1..Len(events) /\ i + 1 > 1 /\ Tail(events)[i] = events[i + 1]
      BY <1>0, <1>1, VolumeTail
    <3> QED BY <3>2, <3>3 DEF Mentions
  <2>4. ~Ending(x) /\ ~Ending(x)' /\ Named(x) /\ ~Coming(x) /\ ~Standing(x) /\ left[x] = 0
    BY <1>5, <1>6, <1>8, <1>9, <1>11, <1>16, <2>1, <2>3 DEF Closing, Standing
  <2>5. Executed(x) = T(x).quantity
    BY <1>9, <1>10, <2>4 DEF Followed, Accounted
  <2>6. orders'[x].filled = T(x).quantity
    BY <1>12, <2>1, <2>3, <2>5
  <2>7. Accounted(x)'
    BY <1>1, <1>3, <1>9, <2>4, <2>5 DEF Accounted
  <2> QED BY <1>2, <2>2, <2>4, <2>6, <2>7 DEF Followed, Dead
<1>17. CASE Names(Event, x) /\ DropOutside
  <2>1. Event.type = "outside" /\ Event.order = x
    BY <1>4, <1>17 DEF DropOutside, InHand, Fair, Names
  <2> QED BY <1>4, <2>1 DEF Told, OutsideNoted
\* The order's last word.
<1>18. ASSUME Names(Event, x), Event.type \in Closing
       PROVE  /\ Event.order = x /\ x \notin resting /\ ~Mentions(Tail(events), x)
              /\ ~HasClosing(Tail(events), x) /\ ~Standing(x) /\ Executed(x) < T(x).quantity
  <2>1. Event.order = x
    BY <1>4, <1>18 DEF Fair, Names, Closing
  <2>2. x \notin resting /\ ~Mentions(Tail(events), x)
    <3>1. Final(events[1], outside) /\ events[1].order = x
      BY <1>4, <1>18, <2>1 DEF Final
    <3>2. x \notin resting /\ \A j \in 1..Len(events) : j > 1 => ~Names(events[j], x)
      BY <1>0, <1>4, <3>1 DEF ClosingLast
    <3>3. \A i \in 1..Len(Tail(events)) : i + 1 \in 1..Len(events) /\ i + 1 > 1 /\ Tail(events)[i] = events[i + 1]
      BY <1>0, <1>1, VolumeTail
    <3> QED BY <3>2, <3>3 DEF Mentions
  <2>3. Ending(x) /\ ~Standing(x)
    BY <1>5, <1>11, <1>18, <2>1, <2>2 DEF Standing
  <2> QED BY <1>8, <2>1, <2>2, <2>3 DEF Followed, Accounted
<1>19. ASSUME Names(Event, x), Event.type \in Closing, Finish,
              orders'[x].status \in Closing, orders'[x].filled = orders[x].filled
       PROVE  Followed(x)'
  <2>1. ~Named(x)' /\ ~Ending(x)' /\ ~Standing(x)'
    BY <1>2, <1>6, <1>18, <1>19 DEF Finish
  <2>2. Accounted(x)'
    BY <1>19, <2>1 DEF Accounted
  <2> QED BY <1>19, <2>1, <2>2 DEF Followed, Closing, Dead
<1>20. CASE Names(Event, x) /\ ReadClosing
  <2>1. Event.type \in Closing /\ writer.at = "idle" /\ orders' = orders
    BY <1>20 DEF ReadClosing, InHand, Closing
  <2>2. Event.order = x
    BY <1>18, <1>20, <2>1
  <2>3. CASE events' = events
    BY <1>14, <2>1, <2>3
  <2>4. CASE events' # events
    <3>1. Finish /\ ~Releases(Event.type, orders[x].status) /\ Event.type # "rejected"
      BY <1>i, <1>20, <2>2, <2>4 DEF ReadClosing
    <3>2. orders[x].status # "filled"
      BY <1>9, <1>10, <1>18, <1>20, <2>1 DEF Followed, TradeSteps
    <3>3. orders[x].status = "rejected"
      BY <1>11, <2>1, <2>2, <3>1, <3>2 DEF Releases, Closing
    <3> QED BY <1>19, <1>20, <2>1, <3>1, <3>3 DEF Closing
  <2> QED BY <2>3, <2>4
<1>21. CASE Names(Event, x) /\ Close
  <2>1. Event.type \in Closing /\ SetStatus(Id(Event.order), Event.type) /\ Finish
    BY <1>0, <1>21 DEF Close, TypedFeed
  <2>2. Event.order = x
    BY <1>18, <1>21, <2>1
  <2>3. orders'[x].status = Event.type /\ orders'[x].filled = orders[x].filled
    BY <1>0, <1>i, <1>11, <2>1, <2>2 DEF SetStatus, RowValue
  <2> QED BY <1>19, <1>21, <2>1, <2>3
<1>22. CASE Unlock \/ PayTaker \/ PayMaker \/ ReadFilled
  BY <1>14, <1>22 DEF Unlock, PayTaker, PayMaker, ReadFilled, money
<1>23. CASE Names(Event, x) /\ WriteFilled
  <2>1. /\ events' = events /\ Event.type = "trade"
        /\ \/ writer.at = "writeMaker" /\ orders' = [orders EXCEPT ![Id(Event.maker)] = Filled(Event.maker, Event.quantity)]
           \/ writer.at = "writeTaker" /\ orders' = [orders EXCEPT ![Id(Event.order)] = Filled(Event.order, Event.quantity)]
    BY <1>0, <1>23 DEF WriteFilled, TypedFeed, TradeSteps
  <2>2. Event.order # Event.maker
    BY <1>4, <2>1 DEF Fair
  <2>3. CASE /\ x = Event.maker \/ x = Event.order
             /\ orders' = [orders EXCEPT ![x] = Filled(x, Event.quantity)]
             /\ writer.seen.filled = orders[x].filled /\ writer.seen.status # "none"
             /\ Written(x) = 0
    <3> PICK n \in Nat : n = orders[x].filled + Event.quantity
      BY <1>4, <1>9
    <3>1. orders'[x] = [status |-> IF n >= T(x).quantity THEN "filled" ELSE "partially_filled", filled |-> n]
      BY <1>0, <1>i, <2>3 DEF Filled
    <3>2. /\ orders'[x].filled = n
          /\ orders'[x].status = IF n >= T(x).quantity THEN "filled" ELSE "partially_filled"
      BY <3>1
    <3>3. Event.quantity <= Volume(events, x)
      <4>1. Lots(events[1], x) <= Volume(events, x)
        BY <1>0, <1>4, VolumeType
      <4> QED BY <1>4, <2>1, <2>3, <4>1 DEF Lots, Names
    <3>4. n <= Executed(x)
      BY <1>4, <1>9, <1>10, <2>3, <3>3
    <3>5. Named(x) /\ Named(x)' /\ (Ending(x)' <=> Ending(x)) /\ ~Coming(x)
      BY <1>5, <1>7, <1>11, <1>23, <2>1, <2>3
    <3>6. Accounted(x)'
      BY <1>1, <1>2, <1>3, <3>5 DEF Followed, Accounted
    <3>7. Standing(x) => n < T(x).quantity
      BY <1>9, <1>10, <3>4, <3>5 DEF Standing
    <3>8. Standing(x)' => IF calls'[x] \in {"new", "send"} THEN orders'[x].status \in Shown ELSE Canceling(x)'
      BY <1>1, <1>2, <1>9, <3>2, <3>7 DEF Followed, Shown
    <3>9. n >= T(x).quantity => n = T(x).quantity
      BY <1>9, <1>10, <3>4
    <3> QED BY <1>9, <3>2, <3>5, <3>6, <3>8, <3>9 DEF Followed, Dead
  <2>4. CASE writer.at = "writeMaker"
    <3>1. CASE x = Event.maker
      <4>1. orders' = [orders EXCEPT ![x] = Filled(x, Event.quantity)]
        BY <1>i, <2>1, <2>4, <3>1
      <4>2. writer.seen.filled = orders[x].filled /\ writer.seen.status # "none"
        BY <1>0, <1>i, <1>11, <2>4, <3>1 DEF SeenRow
      <4>3. Written(x) = 0
        BY <2>4 DEF Written, WrittenAt
      <4> QED BY <2>3, <3>1, <4>1, <4>2, <4>3
    <3>2. CASE x # Event.maker
      BY <1>0, <1>i, <1>14, <2>1, <2>4, <3>2
    <3> QED BY <3>1, <3>2
  <2>5. CASE writer.at = "writeTaker"
    <3>1. CASE x = Event.order
      <4>1. orders' = [orders EXCEPT ![x] = Filled(x, Event.quantity)]
        BY <1>i, <2>1, <2>5, <3>1
      <4>2. writer.seen.filled = orders[x].filled /\ writer.seen.status # "none"
        BY <1>0, <1>i, <1>11, <2>5, <3>1 DEF SeenRow
      <4>3. Written(x) = 0
        BY <2>2, <2>5, <3>1 DEF Written, WrittenAt
      <4> QED BY <2>3, <3>1, <4>1, <4>2, <4>3
    <3>2. CASE x # Event.order
      BY <1>0, <1>i, <1>14, <2>1, <2>5, <3>2
    <3> QED BY <3>1, <3>2
  <2> QED BY <2>1, <2>4, <2>5
<1>24. CASE Names(Event, x) /\ Commit
  <2>1. Finish /\ events' = Tail(events) /\ orders'[x] = orders[x] /\ Event.type = "trade"
    BY <1>0, <1>i, <1>24 DEF Commit, Finish, TypedFeed, TradeSteps
  <2>2. (Ending(x)' <=> Ending(x)) /\ Named(x)
    BY <1>5, <1>6, <1>24, <2>1 DEF Closing
  <2>3. Accounted(x)'
    BY <1>1, <1>2, <1>3, <2>2 DEF Followed, Accounted
  <2>4. ~Standing(x) /\ ~Named(x)' => orders[x].status \in Dead
    <3> SUFFICES ASSUME ~Standing(x), ~Named(x)' PROVE orders[x].status \in Dead
      OBVIOUS
    <3>1. ~Mentions(Tail(events), x)
      BY <1>6, <2>1
    <3>2. ~Ending(x) /\ left[x] = 0 /\ ~Coming(x)
      BY <1>6, <1>8, <1>9, <2>1, <2>2, <3>1 DEF Standing
    <3>3. Executed(x) = T(x).quantity
      BY <1>9, <1>10, <2>2, <3>2 DEF Followed, Accounted
    <3>4. orders[x].filled = T(x).quantity
      BY <1>12, <2>1, <3>1, <3>3
    <3> QED BY <3>4 DEF Followed
  <2> QED BY <1>1, <1>2, <2>1, <2>3, <2>4 DEF Followed
<1>25. ApplyStatus => Event.type \in {"accepted", "filled"}
  BY DEF ApplyStatus, InHand
<1> QED BY <1>13, <1>15, <1>16, <1>17, <1>20, <1>21, <1>22, <1>23, <1>24, <1>25 DEF Writer

\* Rows follow their orders, on every step.
LEMMA StoryNext ==
    ASSUME Told, Story, [Next]_vars
    PROVE  Story'
<1>0. Core /\ crashes \in 0..MaxCrashes
  BY DEF Told, Core, Typed, TypedMoney
<1> SUFFICES ASSUME crashes' = 0, NEW x \in Order, x \notin outside', x \notin overtaken', Plain(x)', Known(x)'
             PROVE  Followed(x)'
  BY DEF Story
<1>p. Plain(x) /\ crashes = 0
  <2>1. (\A z : Plain(z)' => Plain(z)) /\ (crashes' = 0 => crashes = 0)
    BY <1>0, PlacingMoves DEF Core
  <2> QED BY <2>1
<1> HIDE DEF Plain
<1>1. ASSUME x \notin outside, x \notin overtaken, Known(x)
      PROVE  Followed(x)
  BY <1>p, <1>1 DEF Story
<1>2. ASSUME NEW z \in Order, Api(z)
      PROVE  Followed(x)'
  <2>1. x \notin outside
    BY <1>2, ApiFrame
  <2>2. x \notin overtaken
    BY <1>2 DEF Api, Lock, Insert, Record, Publish, SendAgain, Inject, ReadForCancel, SendCancel, MarkCanceled
  <2> QED BY <1>0, <1>1, <1>2, <1>p, <2>1, <2>2, FollowedApi
<1>3. CASE EngineStep
  <2>1. orders' = orders /\ overtaken' = overtaken /\ outside \subseteq outside'
    <3>1. PICK z \in Order : \E new : Tells(z, new) /\ UNCHANGED <<orders, overtaken>>
      BY <1>0, <1>3, EngineView
    <3> QED BY <3>1 DEF Tells
  <2>2. x \notin outside /\ x \notin overtaken /\ Known(x)
    BY <2>1 DEF Known
  <2> QED BY <1>1, <1>3, <1>p, <2>2, FollowedEngine
<1>4. CASE Writer
  <2>1. outside' = outside /\ overtaken' = overtaken
    BY <1>4, WriterFrame
  <2>2. ~IsExternal(x) => (orders'[x].status = "none" <=> orders[x].status = "none")
    BY <1>0, <1>4, WriterRows DEF Core, Once
  <2>3. Known(x)
    BY <1>p, <2>2 DEF Known, Plain
  <2> QED BY <1>1, <1>4, <1>p, <2>1, <2>3, FollowedWriter
<1>5. CASE Crash
  BY <1>0, <1>5 DEF Crash
<1>6. CASE UNCHANGED vars
  <2>1. x \notin outside /\ x \notin overtaken /\ Known(x)
    BY <1>6 DEF vars, Known
  <2>2. /\ Coming(x)' <=> Coming(x)
        /\ Named(x)' <=> Named(x)
        /\ Ending(x)' <=> Ending(x)
        /\ Canceling(x)' <=> Canceling(x)
    BY <1>6 DEF vars, Waiting, Coming, Named, Ending, Canceling
  <2>3. Executed(x)' = Executed(x)
    BY <1>6 DEF vars, Executed, Written, Event
  <2> QED BY <1>1, <1>6, <2>1, <2>2, <2>3, FollowedKept DEF vars
<1> QED BY <1>2, <1>3, <1>4, <1>5, <1>6 DEF Next, Api

\* When nothing is on its way, rows and book agree.
LEMMA StoryEnds ==
    ASSUME Told, Story
    PROVE  RowsMatchBook
<1> SUFFICES ASSUME Quiet, NEW x \in Order \ (Again \union outside \union overtaken), ~IsExternal(x), ~Doubled(x)
             PROVE  /\ x \in resting <=> orders[x].status \in {"open", "partially_filled"}
                    /\ x \in resting => orders[x].filled = T(x).quantity - left[x]
                    /\ orders[x].status = "filled" => orders[x].filled = T(x).quantity
  BY DEF RowsMatchBook
<1>1. Core /\ Typed /\ Untouched /\ RowedAt(x) /\ x \in Order /\ Plain(x)
  BY DEF Told, Core, Once, Rowed, Plain, Again
<1>2. /\ commands = <<>> /\ events = <<>> /\ crashes = 0 /\ calls[x] \in {"new", "done"}
      /\ placing[x] \in {"new", "done"} /\ Len(<<>>) = 0 /\ 1..0 = {}
  BY DEF Quiet
<1>3. ~Coming(x) /\ ~Canceling(x) /\ ~Named(x) /\ ~Ending(x)
  BY <1>2 DEF Coming, Waiting, Canceling, Offers, Named, Mentions, Ending, HasClosing
<1>4. orders[x].filled \in Nat /\ left[x] \in Nat /\ T(x).quantity \in Nat
      /\ Written(x) = 0 /\ Volume(events, x) = 0
  BY <1>1, <1>3, WrittenType, TermsType
<1>5. CASE ~Known(x)
  <2>1. placing[x] = "new"
    BY <1>1, <1>2, <1>5 DEF Known, RowedAt, Plain
  <2> QED BY <1>1, <1>5, <2>1 DEF Known, Untouched, Sent
<1>6. CASE Known(x)
  <2>1. Followed(x)
    BY <1>1, <1>2, <1>6 DEF Story
  <2>2. x \in resting <=> orders[x].status \in {"open", "partially_filled"}
    BY <1>2, <1>3, <2>1 DEF Followed, Standing, Shown, Dead, Closing
  <2>3. Executed(x) = orders[x].filled
    BY <1>4 DEF Executed
  <2>4. x \in resting => orders[x].filled = T(x).quantity - left[x]
    BY <1>3, <1>4, <2>1, <2>3 DEF Followed, Accounted, Standing
  <2> QED BY <2>1, <2>2, <2>4 DEF Followed
<1> QED BY <1>5, <1>6

\* When nothing is on its way, the rows say what the engine knows: open rows
\* are orders in the book, with the filled quantities of both adding up, and
\* the mark of an optimistic cancel neither hides a resting order for good nor
\* revives a dead one.  It is so of each order whose PLACE has been sent once and
\* ahead of its CANCEL and that was not filled at the mark price, whatever has
\* become of the others.
THEOREM RowsFollow == Spec => []RowsMatchBook
<1> DEFINE Inv == Told /\ Story
<1>1. Init => Inv
  <2> SUFFICES ASSUME Init PROVE Inv
    OBVIOUS
  <2>1. Core
    BY CoreInit
  <2>2. events = <<>> /\ Len(<<>>) = 0 /\ 1..0 = {}
    BY DEF Init
  <2>3. ClosingLast /\ AcceptFirst /\ OutsideNoted
    BY <2>2 DEF ClosingLast, AcceptFirst, OutsideNoted
  <2>4. Within
    BY CoveredInit
  <2>5. Story
    BY DEF Story, Known, Init
  <2> QED BY <2>1, <2>3, <2>4, <2>5 DEF Told
<1>2. Inv /\ [Next]_vars => Inv'
  <2> SUFFICES ASSUME Inv, [Next]_vars PROVE Inv'
    OBVIOUS
  <2>1. Core' /\ ClosingLast' /\ Within' /\ AcceptFirst' /\ OutsideNoted'
    BY CoreNext, ClosingLastNext, WithinNext, AcceptFirstNext, OutsideNotedNext DEF Told
  <2>2. Told'
    BY <2>1 DEF Told
  <2> QED BY <2>2, StoryNext
<1>3. Inv => RowsMatchBook
  BY StoryEnds
<1> QED BY <1>1, <1>2, <1>3, PTL DEF Spec
===============================================================================
