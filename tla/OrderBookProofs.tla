--------------------------- MODULE OrderBookProofs ---------------------------
(***************************************************************************)
(* Theorems about OrderBook, for every set of orders, every price and      *)
(* quantity range and every number of deliveries.                          *)
(***************************************************************************)
EXTENDS OrderBook, SumLemmas, SequenceTheorems, WellFoundedInduction, TLAPS

-----------------------------------------------------------------------------
(* Facts about queues and levels. *)

\* Filling an order by what it has left at most keeps it an order.
LEMMA FillProperties ==
    ASSUME NEW e \in Entry, NEW n \in 0..Left(e)
    PROVE  /\ Fill(e, n) \in Entry
           /\ Fill(e, n).id = e.id
           /\ Fill(e, n).quantity = e.quantity
           /\ Fill(e, n).filled = e.filled + n
           /\ Left(Fill(e, n)) = Left(e) - n
  BY BoundsAssumption DEF Fill, Entry, Left, Qty

\* Filling the front of a queue changes no other order of it.
LEMMA FillFrontProperties ==
    ASSUME NEW q \in Seq(Entry), q # <<>>,
           NEW n \in 0..Left(Head(q))
    PROVE  /\ FillFront(q, n) \in Seq(Entry)
           /\ FillFront(q, n) # <<>>
           /\ Len(FillFront(q, n)) = Len(q)
           /\ \A i \in 1..Len(q) :
                /\ FillFront(q, n)[i].id = q[i].id
                /\ FillFront(q, n)[i] = IF i = 1 THEN Fill(q[1], n) ELSE q[i]
<1>1. /\ 1 \in 1..Len(q)
      /\ Head(q) = q[1]
  OBVIOUS
<1>2. q[1] \in Entry
  BY <1>1
<1>3. Fill(q[1], n) \in Entry /\ Fill(q[1], n).id = q[1].id
  BY <1>1, <1>2, FillProperties
<1>4. /\ FillFront(q, n) \in Seq(Entry)
      /\ Len(FillFront(q, n)) = Len(q)
      /\ \A j \in 1..Len(q) :
            FillFront(q, n)[j] = IF j = 1 THEN Fill(q[1], n) ELSE q[j]
  BY <1>1, <1>3, ExceptSeq DEF FillFront
<1> QED
  BY <1>1, <1>3, <1>4

\* Removing one place of a queue keeps the others, in their order.
LEMMA RemoveAtProperties ==
    ASSUME NEW q \in Seq(Entry), NEW i \in 1..Len(q)
    PROVE  /\ RemoveAt(q, i) \in Seq(Entry)
           /\ Len(RemoveAt(q, i)) = Len(q) - 1
           /\ \A j \in 1..(Len(q) - 1) :
                RemoveAt(q, i)[j] = IF j < i THEN q[j] ELSE q[j + 1]
<1> DEFINE front == SubSeq(q, 1, i - 1)
           back  == SubSeq(q, i + 1, Len(q))
<1>0. Len(q) \in Nat /\ \A j \in 1..Len(q) : q[j] \in Entry
  BY LenProperties, ElementOfSeq
<1>1. /\ front \in Seq(Entry)
      /\ Len(front) = i - 1
      /\ \A j \in 1..(i - 1) : front[j] = q[j]
  BY <1>0, SubSeqProperties
<1>2. /\ back \in Seq(Entry)
      /\ Len(back) = Len(q) - i
      /\ \A j \in 1..(Len(q) - i) : back[j] = q[i + j]
  <2>1. /\ back \in Seq(Entry)
        /\ Len(back) = IF i + 1 <= Len(q) THEN Len(q) - (i + 1) + 1 ELSE 0
        /\ \A j \in 1..(Len(q) - (i + 1) + 1) : back[j] = q[i + 1 + j - 1]
    BY <1>0, SubSeqProperties
  <2> QED BY <1>0, <2>1
<1>3. RemoveAt(q, i) = front \o back
  BY DEF RemoveAt
<1> HIDE DEF front, back
<1>4. /\ front \o back \in Seq(Entry)
      /\ Len(front \o back) = Len(front) + Len(back)
      /\ \A j \in 1..(Len(front) + Len(back)) :
            (front \o back)[j] = IF j <= Len(front) THEN front[j]
                                 ELSE back[j - Len(front)]
  BY <1>1, <1>2, ConcatProperties
<1> QED
  BY <1>0, <1>1, <1>2, <1>3, <1>4

\* Taking the front away is removing the first place.
LEMMA TailIsRemoveAt ==
    ASSUME NEW q \in Seq(Entry), q # <<>>
    PROVE  Tail(q) = RemoveAt(q, 1)
<1>1. Len(q) \in Nat /\ Len(q) >= 1 /\ 1 \in 1..Len(q)
  OBVIOUS
<1>2. /\ Tail(q) \in Seq(Entry)
      /\ Len(Tail(q)) = Len(q) - 1
      /\ \A j \in 1..Len(Tail(q)) : Tail(q)[j] = q[j + 1]
  BY HeadTailProperties
<1>3. /\ RemoveAt(q, 1) \in Seq(Entry)
      /\ Len(RemoveAt(q, 1)) = Len(q) - 1
      /\ \A j \in 1..(Len(q) - 1) :
            RemoveAt(q, 1)[j] = IF j < 1 THEN q[j] ELSE q[j + 1]
  BY <1>1, RemoveAtProperties
<1>4. \A j \in 1..Len(Tail(q)) : Tail(q)[j] = RemoveAt(q, 1)[j]
  BY <1>1, <1>2, <1>3
<1> QED BY <1>1, <1>2, <1>3, <1>4, SeqEqual

\* A side that is not empty has a best level, and only one.
LEMMA LowestLevel ==
    ASSUME NEW S \in SUBSET Nat, S # {}
    PROVE  \E p \in S : \A q \in S : p <= q
<1> DEFINE R == OpToRel(<, Nat)
<1>1. \E x \in S : \A y \in S : ~ (<<y, x>> \in R)
  <2> HIDE DEF R
  <2> QED BY NatLessThanWellFounded, WFMin DEF R
<1>2. \A x, y \in Nat : y < x => <<y, x>> \in R
  BY DEF OpToRel
<1> HIDE DEF R
<1>3. PICK x \in S : \A y \in S : ~ (<<y, x>> \in R)
  BY <1>1
<1>4. \A y \in S : x \in Nat /\ y \in Nat /\ ~ (y < x)
  BY <1>2, <1>3
<1> QED BY <1>4

\* The same for the bids, whose best level is the highest.
LEMMA HighestLevel ==
    ASSUME NEW N \in Nat, NEW S \in SUBSET (1..N), S # {}
    PROVE  \E p \in S : \A q \in S : q <= p
<1> DEFINE T == {N - p : p \in S}
<1>1. T \in SUBSET Nat /\ T # {}
  <2>1. T # {}
    OBVIOUS
  <2>2. \A p \in S : N - p \in Nat
    OBVIOUS
  <2> QED BY <2>1, <2>2
<1>2. PICK t \in T : \A u \in T : t <= u
  BY <1>1, LowestLevel
<1>3. PICK p \in S : t = N - p
  BY <1>2
<1>4. \A q \in S : t <= N - q
  BY <1>2
<1> QED BY <1>3, <1>4

\* bestBid() and bestAsk() find a level when there is one.
LEMMA BestLevelExists ==
    ASSUME NEW s \in Side, Levels(s) # {}
    PROVE  \E p \in Price : IsBest(s, p)
<1>1. Levels(s) \in SUBSET (1..MaxPrice) /\ MaxPrice \in Nat
  BY BoundsAssumption DEF Levels, Price
<1>2. CASE s = "buy"
  BY <1>1, <1>2, HighestLevel DEF IsBest, Levels
<1>3. CASE s = "sell"
  <2>1. Levels(s) \in SUBSET Nat
    BY <1>1
  <2>2. PICK p \in Levels(s) : \A q \in Levels(s) : p <= q
    BY <2>1, LowestLevel
  <2> QED BY <1>3, <2>2 DEF IsBest, Levels
<1> QED BY <1>2, <1>3 DEF Side

\* A side has at most one best level.
LEMMA BestLevelUnique ==
    ASSUME NEW s \in Side, NEW p \in Price, NEW q \in Price,
           IsBest(s, p), IsBest(s, q)
    PROVE  p = q
  BY BoundsAssumption DEF IsBest, Levels, Side, Price

-----------------------------------------------------------------------------
(* Type correctness. *)

\* The best opposite level of an order in hand exists and holds a maker.
LEMMA BestMaker ==
    ASSUME TypeOK, NEW s \in Side, NEW p \in Price, IsBest(s, p)
    PROVE  /\ book[s][p] \in Seq(Entry)
           /\ book[s][p] # <<>>
           /\ Head(book[s][p]) \in Entry
  BY HeadTailProperties DEF TypeOK, IsBest, Levels

\* Between receipt and return there is an order in hand, and its terms are known.
LEMMA InHand ==
    ASSUME TypeOK, pc # "idle"
    PROVE  /\ taker.id \in OrderId
           /\ taker.filled \in 0..MaxQty
           /\ taker \in [id: OrderId, filled: 0..MaxQty, status: Status]
           /\ Asked \in OrderTerms
           /\ Asked.side \in Side
           /\ Asked.price \in Price
           /\ Asked.quantity \in Qty
           /\ Opposite(Asked.side) \in Side
  BY TermsAssumption DEF TypeOK, Asked, OrderTerms, Opposite, Side

\* One execution of qty lots at level p: at least a lot, at most what either
\* side has left.
Executed(p, qty) ==
    LET s     == Opposite(Asked.side)
        maker == Head(book[s][p])
    IN  /\ pc = "match"
        /\ IsBest(s, p)
        /\ qty \in 1..Left(maker)
        /\ taker.filled + qty <= Asked.quantity
        /\ book' = [book EXCEPT ![s][p] = FillFront(@, qty)]
        /\ taker' = [taker EXCEPT !.filled = @ + qty]
        /\ trades' = Append(trades, [maker |-> maker.id, taker |-> taker.id,
                                     price |-> p, quantity |-> qty])
        /\ pc' = IF qty = Left(maker) THEN "pop" ELSE "match"
        /\ UNCHANGED <<terms, deliveries, index>>

\* An execution trades a positive quantity that neither side exceeds.
LEMMA ExecutedQuantity ==
    ASSUME TypeOK, NEW p \in Price, Execute(p)
    PROVE  \E qty \in Qty : Executed(p, qty)
<1> DEFINE s     == Opposite(Asked.side)
           maker == Head(book[s][p])
           want  == Asked.quantity - taker.filled
           qty   == IF want < Left(maker) THEN want ELSE Left(maker)
<1>1. pc = "match" /\ taker.filled < Asked.quantity /\ IsBest(s, p) /\ Left(maker) > 0
  BY DEF Execute, CanTrade, Unfilled
<1>2. maker \in Entry
  BY <1>1, InHand, BestMaker
<1>3. Left(maker) \in Int /\ Left(maker) <= MaxQty
  BY <1>2, BoundsAssumption DEF Left, Entry, Qty
<1>4. want \in Int /\ want > 0
  BY <1>1, InHand, BoundsAssumption DEF Qty
<1>5. qty \in Qty /\ qty \in 1..Left(maker) /\ qty <= want
  <2> HIDE DEF maker, want
  <2> QED BY <1>1, <1>3, <1>4, BoundsAssumption DEF Qty
<1>6. taker.filled + qty <= Asked.quantity
  <2> HIDE DEF qty
  <2> QED BY <1>1, <1>5, InHand, BoundsAssumption DEF Qty
<1> QED
  BY <1>1, <1>5, <1>6 DEF Execute, Executed

\* An empty book has its types.
LEMMA TypeInit == Init => TypeOK
  BY DEF Init, TypeOK, Status, NoOrder

\* Every step of match() and cancelResting() keeps the types.
LEMMA TypeNext == TypeOK /\ [Next]_vars => TypeOK'
<1> SUFFICES ASSUME TypeOK, [Next]_vars
             PROVE  TypeOK'
  OBVIOUS
<1> USE DEF TypeOK
<1>1. ASSUME NEW o \in OrderId, Receive(o)
      PROVE  TypeOK'
  BY <1>1, BoundsAssumption DEF Receive, Status
<1>2. ASSUME NEW o \in OrderId, Cancel(o)
      PROVE  TypeOK'
  <2> DEFINE s == index[o].side
             p == index[o].price
             q == book[s][p]
  <2>1. s \in Side /\ p \in Price
    BY <1>2 DEF Cancel, Place
  <2>2. PICK i \in 1..Len(q) : book' = [book EXCEPT ![s][p] = RemoveAt(q, i)]
    BY <1>2 DEF Cancel
  <2>3. q \in Seq(Entry)
    BY <2>1
  <2>4. RemoveAt(q, i) \in Seq(Entry)
    BY <2>3, RemoveAtProperties
  <2>5. book' \in [Side -> [Price -> Seq(Entry)]]
    BY <2>1, <2>2, <2>4
  <2> QED
    BY <1>2, <2>5 DEF Cancel, Forget
<1>3. ASSUME NEW p \in Price, Execute(p)
      PROVE  TypeOK'
  <2> DEFINE s == Opposite(Asked.side)
             maker == Head(book[s][p])
  <2>1. PICK qty \in Qty : Executed(p, qty)
    BY <1>3, ExecutedQuantity
  <2>2. /\ taker.id \in OrderId
        /\ taker.filled \in 0..MaxQty
        /\ taker \in [id: OrderId, filled: 0..MaxQty, status: Status]
        /\ Asked.quantity \in Qty
        /\ s \in Side
    BY <2>1, InHand DEF Executed
  <2>3. /\ book[s][p] \in Seq(Entry)
        /\ book[s][p] # <<>>
        /\ maker \in Entry
    BY <2>1, <2>2, BestMaker DEF Executed
  <2>4. FillFront(book[s][p], qty) \in Seq(Entry)
    <3>1. Left(maker) \in Int
      BY <2>3, BoundsAssumption DEF Left, Entry, Qty
    <3>2. qty \in 0..Left(maker)
      BY <2>1, <3>1 DEF Executed
    <3> QED BY <2>3, <3>2, FillFrontProperties
  <2>5. book' \in [Side -> [Price -> Seq(Entry)]]
    BY <2>1, <2>2, <2>4 DEF Executed
  <2>6. taker.filled + qty \in 0..MaxQty
    BY <2>1, <2>2, BoundsAssumption DEF Executed, Qty
  <2>7. taker' \in [id: OrderId, filled: 0..MaxQty, status: Status]
    BY <2>1, <2>2, <2>6 DEF Executed
  <2>8. trades' \in Seq(Trade)
    BY <2>1, <2>2, <2>3, AppendProperties DEF Executed, Trade, Entry
  <2> QED
    BY <2>1, <2>5, <2>7, <2>8 DEF Executed
<1>4. ASSUME NEW p \in Price, PopFilled(p)
      PROVE  TypeOK'
  <2> DEFINE s == Opposite(Asked.side)
  <2>1. s \in Side /\ IsBest(s, p)
    BY <1>4, InHand DEF PopFilled
  <2>2. /\ book[s][p] \in Seq(Entry)
        /\ book[s][p] # <<>>
    BY <2>1, BestMaker
  <2>3. Tail(book[s][p]) \in Seq(Entry)
    BY <2>2, HeadTailProperties
  <2>4. book' \in [Side -> [Price -> Seq(Entry)]]
    BY <1>4, <2>1, <2>3 DEF PopFilled
  <2> QED
    BY <1>4, <2>4 DEF PopFilled, Forget
<1>5. ASSUME Rest
      PROVE  TypeOK'
  <2>1. /\ taker.id \in OrderId
        /\ taker.filled \in 0..MaxQty
        /\ taker \in [id: OrderId, filled: 0..MaxQty, status: Status]
        /\ Asked.side \in Side
        /\ Asked.price \in Price
        /\ Asked.quantity \in Qty
    BY <1>5, InHand DEF Rest, Unfilled
  <2> DEFINE e == [id |-> taker.id, quantity |-> Asked.quantity, filled |-> taker.filled]
             q == book[Asked.side][Asked.price]
  <2>2. e \in Entry /\ q \in Seq(Entry)
    BY <2>1 DEF Entry
  <2>3. Append(q, e) \in Seq(Entry)
    <3> HIDE DEF e, q
    <3> QED BY <2>2, AppendProperties
  <2>4. book' = [book EXCEPT ![Asked.side][Asked.price] = Append(q, e)]
    BY <1>5 DEF Rest, Unfilled
  <2>5. book' \in [Side -> [Price -> Seq(Entry)]]
    <3> HIDE DEF e, q
    <3> QED BY <2>1, <2>3, <2>4
  <2>6. index' \in [OrderId -> Place \union {Nowhere}]
    BY <1>5, <2>1 DEF Rest, Locate, Place
  <2>7. taker' \in [id: OrderId, filled: 0..MaxQty, status: Status]
    BY <1>5, <2>1 DEF Rest, Status
  <2> QED
    BY <1>5, <2>5, <2>6, <2>7 DEF Rest, Unfilled
<1>6. CASE Discard
  BY <1>6, InHand DEF Discard, Status
<1>7. CASE Complete
  BY <1>7, InHand DEF Complete, Status
<1>8. CASE Return
  BY <1>8 DEF Return
<1>9. CASE UNCHANGED vars
  BY <1>9 DEF vars
<1> QED
  BY <1>1, <1>2, <1>3, <1>4, <1>5, <1>6, <1>7, <1>8, <1>9 DEF Next

\* Everything match() and cancelResting() leave in memory has the type the
\* code gives it; in particular nothing is ever filled beyond a quantity.
THEOREM TypeCorrect == Spec => []TypeOK
  BY TypeInit, TypeNext, PTL DEF Spec

-----------------------------------------------------------------------------
(* The book is never crossed. *)

\* An order that may no longer trade crosses no level of the other side.
LEMMA NothingCrosses ==
    ASSUME TypeOK, pc = "match", taker.filled < Asked.quantity,
           ~ \E p \in Price : CanTrade(p),
           NEW q \in Price, book[Opposite(Asked.side)][q] # <<>>
    PROVE  ~ Crosses(Asked, q)
<1> DEFINE s == Opposite(Asked.side)
<1>1. Asked \in OrderTerms /\ s \in Side /\ q \in Levels(s)
  BY InHand DEF Levels
<1>2. PICK p \in Price : IsBest(s, p)
  BY <1>1, BestLevelExists
<1>3. ~ Crosses(Asked, p)
  BY <1>2 DEF CanTrade, Unfilled
<1>4. CASE Asked.side = "buy"
  <2>1. s = "sell" /\ p <= q
    BY <1>1, <1>2, <1>4 DEF Opposite, IsBest
  <2> QED
    BY <1>1, <1>3, <1>4, <2>1, BoundsAssumption DEF Crosses, OrderTerms, Price
<1>5. CASE Asked.side = "sell"
  <2>1. s = "buy" /\ q <= p
    BY <1>1, <1>2, <1>5 DEF Opposite, IsBest
  <2> QED
    BY <1>1, <1>3, <1>5, <2>1, BoundsAssumption DEF Crosses, OrderTerms, Price
<1> QED
  BY <1>1, <1>4, <1>5 DEF OrderTerms, Side

\* Only Rest makes a level that was empty appear.
LEMMA LevelsShrink ==
    ASSUME TypeOK, [Next]_vars, ~ Rest,
           NEW s \in Side, NEW p \in Price, book[s][p] = <<>>
    PROVE  book'[s][p] = <<>>
<1>0. book \in [Side -> [Price -> Seq(Entry)]]
  BY DEF TypeOK
<1>1. ASSUME NEW o \in OrderId, Cancel(o)
      PROVE  book'[s][p] = <<>>
  <2> DEFINE t == index[o].side
             r == index[o].price
  <2>1. PICK i \in 1..Len(book[t][r]) : book' = [book EXCEPT ![t][r] = RemoveAt(book[t][r], i)]
    BY <1>1 DEF Cancel
  <2>2. book[t][r] # <<>>
    BY <2>1
  <2> HIDE DEF t, r
  <2> QED BY <1>0, <2>1, <2>2
<1>2. ASSUME NEW q \in Price, Execute(q)
      PROVE  book'[s][p] = <<>>
  <2>1. PICK qty \in Qty : Executed(q, qty)
    BY <1>2, ExecutedQuantity
  <2>2. book[Opposite(Asked.side)][q] # <<>>
    BY <2>1 DEF Executed, IsBest, Levels
  <2> QED BY <1>0, <2>1, <2>2 DEF Executed
<1>3. ASSUME NEW q \in Price, PopFilled(q)
      PROVE  book'[s][p] = <<>>
  <2>1. book[Opposite(Asked.side)][q] # <<>>
    BY <1>3 DEF PopFilled, IsBest, Levels
  <2> QED BY <1>0, <1>3, <2>1 DEF PopFilled
<1>4. ASSUME UNCHANGED book
      PROVE  book'[s][p] = <<>>
  BY <1>4
<1> QED
  BY <1>1, <1>2, <1>3, <1>4 DEF Next, vars, Receive, Discard, Complete, Return

\* No step crosses the book.
LEMMA UncrossedNext == TypeOK /\ Uncrossed /\ [Next]_vars => Uncrossed'
<1> SUFFICES ASSUME TypeOK, Uncrossed, [Next]_vars,
                    NEW b \in Price, NEW a \in Price,
                    book'["buy"][b] # <<>>, book'["sell"][a] # <<>>
             PROVE  b < a
  BY DEF Uncrossed
<1>1. CASE ~ Rest
  BY <1>1, LevelsShrink DEF Side, Uncrossed
<1>2. CASE Rest
  <2> DEFINE t == Asked
             e == [id |-> taker.id, quantity |-> t.quantity, filled |-> taker.filled]
  <2>1. /\ pc = "match"
        /\ taker.filled < t.quantity
        /\ ~ \E p \in Price : CanTrade(p)
        /\ t.type = "limit"
        /\ book' = [book EXCEPT ![t.side][t.price] = Append(@, e)]
    BY <1>2 DEF Rest, Rests, Unfilled
  <2>2. t \in OrderTerms /\ t.side \in Side /\ t.price \in Price
    BY <2>1, InHand
  <2>3. \A s \in Side, p \in Price :
           s # t.side \/ p # t.price => book'[s][p] = book[s][p]
    <3> HIDE DEF e, t
    <3> QED BY <2>1, <2>2 DEF TypeOK
  <2>4. CASE t.side = "buy"
    <3>1. book["sell"][a] # <<>> /\ Opposite(t.side) = "sell"
      BY <2>3, <2>4 DEF Side, Opposite
    <3>2. ~ Crosses(t, a)
      BY <2>1, <3>1, NothingCrosses
    <3>3. t.price < a
      BY <2>2, <2>4, <3>2, BoundsAssumption DEF Crosses, Price
    <3>4. b = t.price \/ book["buy"][b] # <<>>
      BY <2>3 DEF Side
    <3> QED BY <3>1, <3>3, <3>4 DEF Uncrossed
  <2>5. CASE t.side = "sell"
    <3>1. book["buy"][b] # <<>> /\ Opposite(t.side) = "buy"
      BY <2>3, <2>5 DEF Side, Opposite
    <3>2. ~ Crosses(t, b)
      BY <2>1, <3>1, NothingCrosses
    <3>3. b < t.price
      BY <2>2, <2>5, <3>2, BoundsAssumption DEF Crosses, Price
    <3>4. a = t.price \/ book["sell"][a] # <<>>
      BY <2>3 DEF Side
    <3> QED BY <3>1, <3>3, <3>4 DEF Uncrossed
  <2> QED BY <2>2, <2>4, <2>5 DEF Side
<1> QED BY <1>1, <1>2

\* At every point of every order, and whatever is cancelled or delivered twice,
\* the best bid is below the best ask.
THEOREM NeverCrossed == Spec => []Uncrossed
<1>1. Init => Uncrossed
  BY DEF Init, Uncrossed, Side
<1>2. TypeOK /\ Uncrossed /\ [Next]_vars => Uncrossed'
  BY UncrossedNext
<1> QED BY <1>1, <1>2, TypeCorrect, PTL DEF Spec

-----------------------------------------------------------------------------
(* Every resting order can still trade. *)

\* An execution changes the first order of one queue and no level disappears.
LEMMA AfterExecution ==
    ASSUME TypeOK, NEW p \in Price, NEW qty \in Qty, Executed(p, qty)
    PROVE  LET s == Opposite(Asked.side)
               q == book[s][p]
           IN  /\ s \in Side
               /\ q \in Seq(Entry)
               /\ Len(book'[s][p]) = Len(q)
               /\ \A i \in 1..Len(q) : book'[s][p][i].id = q[i].id
               /\ \A i \in 1..Len(q) : i # 1 => book'[s][p][i] = q[i]
               /\ q[1] \in Entry
               /\ Left(book'[s][p][1]) = Left(q[1]) - qty
               /\ \A t \in Side, r \in Price :
                     t # s \/ r # p => book'[t][r] = book[t][r]
               /\ \A t \in Side : Levels(t)' = Levels(t)
               /\ Asked' = Asked
<1> DEFINE s == Opposite(Asked.side)
           q == book[s][p]
<1>1. /\ pc = "match"
      /\ IsBest(s, p)
      /\ qty \in 1..Left(Head(q))
      /\ book' = [book EXCEPT ![s][p] = FillFront(q, qty)]
      /\ taker' = [taker EXCEPT !.filled = @ + qty]
      /\ terms' = terms
  BY DEF Executed
<1>2. /\ s \in Side
      /\ taker \in [id: OrderId, filled: 0..MaxQty, status: Status]
  BY <1>1, InHand
<1>3. q \in Seq(Entry) /\ q # <<>> /\ Head(q) \in Entry
  BY <1>1, <1>2, BestMaker
<1>4. q[1] = Head(q) /\ 1 \in 1..Len(q)
  BY <1>3
<1>5. qty \in 0..Left(Head(q))
  <2>1. Left(Head(q)) \in Int
    BY <1>3, BoundsAssumption DEF Left, Entry, Qty
  <2> QED BY <1>1, <2>1
<1>6. book \in [Side -> [Price -> Seq(Entry)]]
  BY DEF TypeOK
<1> HIDE DEF s, q
<1>7. book'[s][p] = FillFront(q, qty)
  BY <1>1, <1>2, <1>6
<1>8. \A t \in Side, r \in Price : t # s \/ r # p => book'[t][r] = book[t][r]
  BY <1>1, <1>2, <1>6
<1>9. /\ FillFront(q, qty) # <<>>
      /\ Len(FillFront(q, qty)) = Len(q)
      /\ \A i \in 1..Len(q) :
            /\ FillFront(q, qty)[i].id = q[i].id
            /\ FillFront(q, qty)[i] = IF i = 1 THEN Fill(q[1], qty) ELSE q[i]
  BY <1>3, <1>5, FillFrontProperties
<1>10. Left(Fill(q[1], qty)) = Left(q[1]) - qty
  BY <1>3, <1>4, <1>5, FillProperties
<1>11. \A t \in Side : Levels(t)' = Levels(t)
  BY <1>3, <1>7, <1>8, <1>9 DEF Levels, q
<1>12. Asked' = Asked
  BY <1>1, <1>2 DEF Asked
<1> QED
  BY <1>2, <1>3, <1>4, <1>7, <1>8, <1>9, <1>10, <1>11, <1>12 DEF s, q

\* No step leaves an exhausted order behind, but the one PopFilled takes next.
LEMMA AllLiveNext == TypeOK /\ AllLive /\ [Next]_vars => AllLive'
<1> SUFFICES ASSUME TypeOK, AllLive, [Next]_vars,
                    NEW s \in Side, NEW p \in Price, NEW i \in 1..Len(book'[s][p])
             PROVE  \/ (Left(book[s][p][i]) > 0)'
                    \/ (pc = "pop" /\ i = 1 /\ s = Opposite(Asked.side) /\ IsBest(s, p))'
  BY DEF AllLive
<1> DEFINE live == (Left(book[s][p][i]) > 0)'
<1>0. book \in [Side -> [Price -> Seq(Entry)]]
  BY DEF TypeOK
<1>a. pc # "pop" => \A j \in 1..Len(book[s][p]) : Left(book[s][p][j]) > 0
  BY DEF AllLive
<1>1. ASSUME NEW o \in OrderId, Cancel(o)
      PROVE  live
  <2> DEFINE t == index[o].side
             r == index[o].price
  <2>1. PICK k \in 1..Len(book[t][r]) : book' = [book EXCEPT ![t][r] = RemoveAt(book[t][r], k)]
    BY <1>1 DEF Cancel
  <2>2. pc = "idle" /\ t \in Side /\ r \in Price
    BY <1>1 DEF Cancel, TypeOK, Place
  <2>3. CASE s = t /\ p = r
    <3>1. book'[s][p] = RemoveAt(book[s][p], k)
      <4> HIDE DEF t, r
      <4> QED BY <1>0, <2>1, <2>3
    <3>2. \E j \in 1..Len(book[s][p]) : book'[s][p][i] = book[s][p][j]
      <4>1. book[s][p] \in Seq(Entry) /\ k \in 1..Len(book[s][p])
        BY <1>0, <2>3
      <4>2. /\ Len(RemoveAt(book[s][p], k)) = Len(book[s][p]) - 1
            /\ \A j \in 1..(Len(book[s][p]) - 1) :
                 RemoveAt(book[s][p], k)[j] =
                   IF j < k THEN book[s][p][j] ELSE book[s][p][j + 1]
        BY <4>1, RemoveAtProperties
      <4>3. Len(book[s][p]) \in Nat /\ i \in 1..(Len(book[s][p]) - 1)
        BY <3>1, <4>1, <4>2
      <4>4. i \in 1..Len(book[s][p]) /\ i + 1 \in 1..Len(book[s][p])
        BY <4>3
      <4> QED BY <3>1, <4>2, <4>3, <4>4
    <3> QED BY <1>a, <2>2, <3>2 DEF Left
  <2>4. CASE ~(s = t /\ p = r)
    <3>1. book'[s][p] = book[s][p]
      <4> HIDE DEF t, r
      <4> QED BY <1>0, <2>1, <2>2, <2>4
    <3> QED BY <1>a, <2>2, <3>1 DEF Left
  <2> QED BY <2>3, <2>4
<1>2. ASSUME NEW q \in Price, Execute(q)
      PROVE  \/ live
             \/ (pc = "pop" /\ i = 1 /\ s = Opposite(Asked.side) /\ IsBest(s, p))'
  <2> DEFINE t == Opposite(Asked.side)
  <2>1. PICK qty \in Qty : Executed(q, qty)
    BY <1>2, ExecutedQuantity
  <2>2. /\ pc = "match"
        /\ IsBest(t, q)
        /\ qty \in 1..Left(Head(book[t][q]))
        /\ pc' = IF qty = Left(Head(book[t][q])) THEN "pop" ELSE "match"
    BY <2>1 DEF Executed
  <2>3. /\ t \in Side
        /\ book[t][q] \in Seq(Entry)
        /\ Len(book'[t][q]) = Len(book[t][q])
        /\ \A j \in 1..Len(book[t][q]) : j # 1 => book'[t][q][j] = book[t][q][j]
        /\ book[t][q][1] \in Entry
        /\ Left(book'[t][q][1]) = Left(book[t][q][1]) - qty
        /\ \A u \in Side, r \in Price : u # t \/ r # q => book'[u][r] = book[u][r]
        /\ \A u \in Side : Levels(u)' = Levels(u)
        /\ Asked' = Asked
    BY <2>1, AfterExecution
  <2>4. CASE s = t /\ p = q /\ i = 1
    <3>1. Head(book[t][q]) = book[t][q][1] /\ Left(book[t][q][1]) \in Int
      BY <2>3, BoundsAssumption DEF Left, Entry, Qty
    <3>2. CASE qty = Left(book[t][q][1])
      <4>1. pc' = "pop" /\ Opposite(Asked.side)' = t
        BY <2>2, <2>3, <3>1, <3>2 DEF Opposite
      <4>2. IsBest(s, p)'
        BY <2>2, <2>3, <2>4 DEF IsBest
      <4> QED BY <2>4, <4>1, <4>2
    <3>3. CASE qty # Left(book[t][q][1])
      <4>1. Left(book'[s][p][i]) > 0
        BY <2>2, <2>3, <2>4, <3>1, <3>3
      <4> QED BY <4>1 DEF Left
    <3> QED BY <3>2, <3>3
  <2>5. CASE ~(s = t /\ p = q /\ i = 1)
    <3>1. i \in 1..Len(book[s][p]) /\ book'[s][p][i] = book[s][p][i]
      BY <2>3, <2>5
    <3> QED BY <1>a, <2>2, <3>1 DEF Left
  <2> QED BY <2>4, <2>5
<1>3. ASSUME NEW q \in Price, PopFilled(q)
      PROVE  live
  <2> DEFINE t == Opposite(Asked.side)
  <2>1. /\ pc = "pop"
        /\ IsBest(t, q)
        /\ book' = [book EXCEPT ![t][q] = Tail(book[t][q])]
    BY <1>3 DEF PopFilled
  <2>2. t \in Side /\ book[t][q] \in Seq(Entry) /\ book[t][q] # <<>>
    BY <2>1, InHand, BestMaker
  <2>3. CASE s = t /\ p = q
    <3>1. book'[s][p] = Tail(book[s][p])
      BY <1>0, <2>1, <2>3
    <3>2. i + 1 \in 1..Len(book[s][p]) /\ book'[s][p][i] = book[s][p][i + 1] /\ i + 1 # 1
      BY <2>2, <2>3, <3>1, HeadTailProperties
    <3>3. Left(book[s][p][i + 1]) > 0
      BY <3>2 DEF AllLive
    <3> QED BY <3>2, <3>3 DEF Left
  <2>4. CASE ~(s = t /\ p = q)
    <3>1. book'[s][p] = book[s][p]
      BY <1>0, <2>1, <2>2, <2>4
    <3>2. ~(s = t /\ IsBest(s, p))
      BY <2>1, <2>2, <2>4, BestLevelUnique
    <3>3. Left(book[s][p][i]) > 0
      BY <3>1, <3>2 DEF AllLive
    <3> QED BY <3>1, <3>3 DEF Left
  <2> QED BY <2>3, <2>4
<1>4. CASE Rest
  <2> DEFINE t == Asked
             e == [id |-> taker.id, quantity |-> t.quantity, filled |-> taker.filled]
             q == book[t.side][t.price]
  <2>1. /\ pc = "match"
        /\ taker.filled < t.quantity
        /\ book' = [book EXCEPT ![t.side][t.price] = Append(q, e)]
    BY <1>4 DEF Rest, Unfilled
  <2>2. /\ t.side \in Side /\ t.price \in Price /\ t.quantity \in Qty
        /\ taker.id \in OrderId /\ taker.filled \in 0..MaxQty
    BY <2>1, InHand
  <2>3. e \in Entry /\ q \in Seq(Entry)
    BY <1>0, <2>2 DEF Entry
  <2>4. Left(e) > 0
    BY <2>1, <2>2, BoundsAssumption DEF Left, Qty
  <2>5. CASE s = t.side /\ p = t.price
    <3>1. book'[s][p] = Append(q, e) /\ book[s][p] = q
      <4> HIDE DEF t, e, q
      <4>1. book[s][p] = q
        BY <2>5 DEF q
      <4> QED BY <1>0, <2>1, <2>5, <4>1
    <3>2. i = Len(q) + 1 \/ i \in 1..Len(q)
      <4> HIDE DEF e, q
      <4> QED BY <2>3, <3>1, AppendProperties
    <3>3. book'[s][p][i] = e \/ (i \in 1..Len(q) /\ book'[s][p][i] = q[i])
      <4> HIDE DEF e, q
      <4> QED BY <2>3, <3>1, <3>2, AppendProperties
    <3>4. Left(book'[s][p][i]) > 0
      <4> HIDE DEF e, q
      <4> QED BY <1>a, <2>1, <2>4, <3>1, <3>3
    <3> QED BY <3>4 DEF Left
  <2>6. CASE ~(s = t.side /\ p = t.price)
    <3>1. book'[s][p] = book[s][p]
      <4> HIDE DEF t, e, q
      <4> QED BY <1>0, <2>1, <2>2, <2>6
    <3> QED BY <1>a, <2>1, <3>1 DEF Left
  <2> QED BY <2>5, <2>6
<1>5. ASSUME UNCHANGED book, pc # "pop"
      PROVE  live
  BY <1>a, <1>5 DEF Left
<1>6. CASE UNCHANGED vars
  BY <1>6 DEF AllLive, vars, Left, IsBest, Levels, Asked
<1> QED
  BY <1>1, <1>2, <1>3, <1>4, <1>5, <1>6
     DEF Next, Receive, Discard, Complete, Return

\* A resting order always has something left to trade, so the branch of the
\* matching loop marked "Should not happen" is dead code - as long as the book
\* was filled by match() itself.
THEOREM RestingOrdersLive == Spec => []AllLive
<1>1. Init => AllLive
  BY DEF Init, AllLive
<1>2. TypeOK /\ AllLive /\ [Next]_vars => AllLive'
  BY AllLiveNext
<1> QED BY <1>1, <1>2, TypeCorrect, PTL DEF Spec

-----------------------------------------------------------------------------
(* The index does not point to orders that are gone. *)

\* The order o is among the entries of the level the place names.
Holds(place, o) ==
    \E i \in 1..Len(book[place.side][place.price]) :
        book[place.side][place.price][i].id = o

\* No step leaves an index entry whose order is gone.
LEMMA IndexSoundNext == TypeOK /\ IndexSound /\ [Next]_vars => IndexSound'
<1> SUFFICES ASSUME TypeOK, IndexSound, [Next]_vars,
                    NEW o \in OrderId, index'[o] # Nowhere
             PROVE  Holds(index[o], o)'
  BY DEF IndexSound, Holds
<1>0. /\ book \in [Side -> [Price -> Seq(Entry)]]
      /\ index \in [OrderId -> Place \union {Nowhere}]
  BY DEF TypeOK
<1>a. index[o] # Nowhere => Holds(index[o], o)
  BY DEF IndexSound, Holds
<1>b. index[o] # Nowhere => index[o].side \in Side /\ index[o].price \in Price
  BY <1>0 DEF Place
<1>1. ASSUME NEW c \in OrderId, Cancel(c)
      PROVE  Holds(index[o], o)'
  <2> DEFINE t == index[c].side
             r == index[c].price
             q == book[t][r]
  <2>1. /\ index[c] # Nowhere
        /\ index' = [index EXCEPT ![c] = Nowhere]
    BY <1>1 DEF Cancel, Forget
  <2>2. PICK k \in 1..Len(q) : q[k].id = c /\ book' = [book EXCEPT ![t][r] = RemoveAt(q, k)]
    BY <1>1 DEF Cancel
  <2>3. t \in Side /\ r \in Price
    BY <1>0, <2>1 DEF Place
  <2>4. o # c /\ index'[o] = index[o] /\ index[o] # Nowhere
    BY <1>0, <2>1
  <2>5. PICK i \in 1..Len(book[index[o].side][index[o].price]) :
             book[index[o].side][index[o].price][i].id = o
    BY <1>a, <2>4 DEF Holds
  <2>6. CASE index[o].side = t /\ index[o].price = r
    <3>1. q \in Seq(Entry)
      BY <1>0, <2>3
    <3>2. book'[t][r] = RemoveAt(q, k)
      <4> HIDE DEF t, r, q
      <4> QED BY <1>0, <2>2, <2>3
    <3>3. /\ Len(RemoveAt(q, k)) = Len(q) - 1
          /\ \A j \in 1..(Len(q) - 1) :
               RemoveAt(q, k)[j] = IF j < k THEN q[j] ELSE q[j + 1]
      <4> HIDE DEF q
      <4> QED BY <2>2, <3>1, RemoveAtProperties
    <3>4. i \in 1..Len(q) /\ q[i].id = o /\ i # k /\ Len(q) \in Nat
      <4>1. i \in 1..Len(q) /\ q[i].id = o
        BY <2>5, <2>6
      <4>2. Len(q) \in Nat
        <5> HIDE DEF q
        <5> QED BY <3>1
      <4> HIDE DEF q, t, r
      <4> QED BY <2>2, <2>4, <4>1, <4>2
    <3>5. \E j \in 1..(Len(q) - 1) : RemoveAt(q, k)[j] = q[i]
      <4> HIDE DEF q
      <4>1. CASE i < k
        <5>1. i \in 1..(Len(q) - 1)
          BY <2>2, <3>4, <4>1
        <5> QED BY <3>3, <4>1, <5>1
      <4>2. CASE i > k
        <5>1. i - 1 \in 1..(Len(q) - 1) /\ ~(i - 1 < k) /\ (i - 1) + 1 = i
          BY <2>2, <3>4, <4>2
        <5> QED BY <3>3, <5>1
      <4> QED BY <2>2, <3>4, <4>1, <4>2
    <3> QED
      <4> HIDE DEF t, r, q
      <4> QED BY <2>4, <2>6, <3>2, <3>3, <3>4, <3>5 DEF Holds
  <2>7. CASE ~(index[o].side = t /\ index[o].price = r)
    <3>1. book'[index[o].side][index[o].price] = book[index[o].side][index[o].price]
      <4> HIDE DEF t, r, q
      <4> QED BY <1>0, <1>b, <2>2, <2>3, <2>4, <2>7
    <3> QED BY <2>4, <2>5, <3>1 DEF Holds
  <2> QED BY <2>6, <2>7
<1>2. ASSUME NEW p \in Price, Execute(p)
      PROVE  Holds(index[o], o)'
  <2> DEFINE s == Opposite(Asked.side)
  <2>1. PICK qty \in Qty : Executed(p, qty)
    BY <1>2, ExecutedQuantity
  <2>2. index' = index
    BY <2>1 DEF Executed
  <2>3. /\ Len(book'[s][p]) = Len(book[s][p])
        /\ \A i \in 1..Len(book[s][p]) : book'[s][p][i].id = book[s][p][i].id
        /\ \A t \in Side, r \in Price : t # s \/ r # p => book'[t][r] = book[t][r]
    BY <2>1, AfterExecution
  <2> QED BY <1>a, <1>b, <2>2, <2>3 DEF Holds
<1>3. ASSUME NEW p \in Price, PopFilled(p)
      PROVE  Holds(index[o], o)'
  <2> DEFINE s == Opposite(Asked.side)
             q == book[s][p]
  <2>1. /\ pc = "pop"
        /\ IsBest(s, p)
        /\ index' = [index EXCEPT ![Head(q).id] = Nowhere]
        /\ book' = [book EXCEPT ![s][p] = Tail(q)]
    BY <1>3 DEF PopFilled, Forget
  <2>2. s \in Side /\ q \in Seq(Entry) /\ q # <<>> /\ Head(q).id \in OrderId
    BY <2>1, InHand, BestMaker DEF Entry
  <2>3. o # Head(q).id /\ index'[o] = index[o] /\ index[o] # Nowhere
    <3> HIDE DEF q
    <3> QED BY <1>0, <2>1, <2>2
  <2>4. PICK i \in 1..Len(book[index[o].side][index[o].price]) :
             book[index[o].side][index[o].price][i].id = o
    BY <1>a, <2>3 DEF Holds
  <2>5. CASE index[o].side = s /\ index[o].price = p
    <3>1. book'[s][p] = Tail(q)
      <4> HIDE DEF s, q
      <4> QED BY <1>0, <2>1, <2>2
    <3>2. i \in 1..Len(q) /\ q[i].id = o /\ i # 1
      BY <2>2, <2>3, <2>4, <2>5
    <3>3. /\ Len(Tail(q)) = Len(q) - 1
          /\ \A j \in 1..Len(Tail(q)) : Tail(q)[j] = q[j + 1]
      <4> HIDE DEF q
      <4> QED BY <2>2, HeadTailProperties
    <3>4. i - 1 \in 1..Len(Tail(q)) /\ Tail(q)[i - 1] = q[i]
      <4> HIDE DEF q
      <4>1. i - 1 \in 1..Len(Tail(q)) /\ (i - 1) + 1 = i
        BY <2>2, <3>2, <3>3
      <4> QED BY <3>3, <4>1
    <3> QED
      <4> HIDE DEF s, q
      <4> QED BY <2>3, <2>5, <3>1, <3>2, <3>4 DEF Holds
  <2>6. CASE ~(index[o].side = s /\ index[o].price = p)
    <3>1. book'[index[o].side][index[o].price] = book[index[o].side][index[o].price]
      <4> HIDE DEF s, q
      <4> QED BY <1>0, <1>b, <2>1, <2>2, <2>3, <2>6
    <3> QED BY <2>3, <2>4, <3>1 DEF Holds
  <2> QED BY <2>5, <2>6
<1>4. CASE Rest
  <2> DEFINE t == Asked
             e == [id |-> taker.id, quantity |-> t.quantity, filled |-> taker.filled]
             q == book[t.side][t.price]
  <2>1. /\ pc = "match"
        /\ book' = [book EXCEPT ![t.side][t.price] = Append(q, e)]
        /\ index' = [index EXCEPT ![taker.id] = [side |-> t.side, price |-> t.price]]
    BY <1>4 DEF Rest, Locate
  <2>2. /\ t.side \in Side /\ t.price \in Price /\ t.quantity \in Qty
        /\ taker.id \in OrderId /\ taker.filled \in 0..MaxQty
    BY <2>1, InHand
  <2>3. e \in Entry /\ q \in Seq(Entry) /\ e.id = taker.id
    BY <1>0, <2>2 DEF Entry
  <2> HIDE DEF e, q
  <2>4. /\ Len(Append(q, e)) = Len(q) + 1
        /\ \A i \in 1..Len(q) : Append(q, e)[i] = q[i]
        /\ Append(q, e)[Len(q) + 1] = e
        /\ Len(q) \in Nat
    BY <2>3, AppendProperties
  <2>5. book'[t.side][t.price] = Append(q, e)
    <3> HIDE DEF t
    <3> QED BY <1>0, <2>1, <2>2
  <2>6. CASE o = taker.id
    <3>1. index'[o].side = t.side /\ index'[o].price = t.price
      BY <1>0, <2>1, <2>2, <2>6
    <3>2. Len(q) + 1 \in 1..Len(Append(q, e))
      BY <2>4
    <3> QED BY <2>3, <2>4, <2>5, <2>6, <3>1, <3>2 DEF Holds
  <2>7. CASE o # taker.id
    <3>1. index'[o] = index[o] /\ index[o] # Nowhere
      BY <1>0, <2>1, <2>2, <2>7
    <3>2. PICK i \in 1..Len(book[index[o].side][index[o].price]) :
               book[index[o].side][index[o].price][i].id = o
      BY <1>a, <3>1 DEF Holds
    <3>3. CASE index[o].side = t.side /\ index[o].price = t.price
      <4>1. i \in 1..Len(Append(q, e)) /\ Append(q, e)[i].id = o
        BY <2>4, <3>2, <3>3 DEF q
      <4> QED BY <2>5, <3>1, <3>3, <4>1 DEF Holds
    <3>4. CASE ~(index[o].side = t.side /\ index[o].price = t.price)
      <4>1. book'[index[o].side][index[o].price] = book[index[o].side][index[o].price]
        <5> HIDE DEF t
        <5> QED BY <1>0, <1>b, <2>1, <2>2, <3>1, <3>4
      <4> QED BY <3>1, <3>2, <4>1 DEF Holds
    <3> QED BY <3>3, <3>4
  <2> QED BY <2>6, <2>7
<1>5. ASSUME UNCHANGED <<book, index>>
      PROVE  Holds(index[o], o)'
  BY <1>a, <1>5 DEF Holds
<1> QED
  BY <1>1, <1>2, <1>3, <1>4, <1>5
     DEF Next, vars, Receive, Discard, Complete, Return

\* A cancel that finds its order in the index finds it in the book, for every
\* interleaving of orders and cancels and under repeated delivery.
THEOREM IndexNeverDangles == Spec => []IndexSound
<1>1. Init => IndexSound
  BY DEF Init, IndexSound
<1>2. TypeOK /\ IndexSound /\ [Next]_vars => IndexSound'
  BY IndexSoundNext
<1> QED BY <1>1, <1>2, TypeCorrect, PTL DEF Spec

-----------------------------------------------------------------------------
(* What a step does to the queue of a level. *)

\* While the filled maker waits to be popped, it is the one at the front.
FilledAtFront ==
    pc = "pop" => \A p \in Price :
        IsBest(Opposite(Asked.side), p) => Left(Head(book[Opposite(Asked.side)][p])) = 0

\* Execute goes to "pop" only with a maker it has filled.
LEMMA FilledAtFrontNext == TypeOK /\ FilledAtFront /\ [Next]_vars => FilledAtFront'
<1> SUFFICES ASSUME TypeOK, FilledAtFront, [Next]_vars PROVE FilledAtFront'
  OBVIOUS
<1>1. ASSUME NEW p \in Price, Execute(p)
      PROVE  FilledAtFront'
  <2> DEFINE s == Opposite(Asked.side)
  <2>1. PICK qty \in Qty : Executed(p, qty)
    BY <1>1, ExecutedQuantity
  <2>2. /\ IsBest(s, p)
        /\ qty \in 1..Left(Head(book[s][p]))
        /\ pc' = IF qty = Left(Head(book[s][p])) THEN "pop" ELSE "match"
    BY <2>1 DEF Executed
  <2>3. /\ s \in Side
        /\ book[s][p] \in Seq(Entry)
        /\ Len(book'[s][p]) = Len(book[s][p])
        /\ Left(book'[s][p][1]) = Left(book[s][p][1]) - qty
        /\ \A t \in Side : Levels(t)' = Levels(t)
        /\ Asked' = Asked
        /\ book[s][p][1] \in Entry
    BY <2>1, AfterExecution
  <2>4. \A r \in Price : IsBest(s, r)' => r = p
    <3>1. \A r \in Price : IsBest(s, r)' => IsBest(s, r)
      BY <2>3 DEF IsBest
    <3> QED BY <2>2, <2>3, <3>1, BestLevelUnique
  <2>5. book[s][p] # <<>> /\ Head(book[s][p]) = book[s][p][1]
    BY <2>2 DEF IsBest, Levels
  <2>6. Left(book[s][p][1]) \in Int
    BY <2>3, BoundsAssumption DEF Left, Entry, Qty
  <2>7. pc' = "pop" => Left(book'[s][p][1]) = 0
    BY <2>2, <2>3, <2>5, <2>6
  <2>8. Opposite(Asked.side)' = s
    BY <2>3 DEF Opposite
  <2>9. Head(book'[s][p]) = book'[s][p][1]
    BY <2>3, <2>5
  <2> QED BY <2>4, <2>7, <2>8, <2>9 DEF FilledAtFront, Left
<1>2. ASSUME pc' # "pop"
      PROVE  FilledAtFront'
  BY <1>2 DEF FilledAtFront
<1>3. CASE UNCHANGED vars
  BY <1>3 DEF FilledAtFront, vars, IsBest, Levels, Asked, Left, Opposite
<1>4. ASSUME NEW o \in OrderId, Receive(o) \/ Cancel(o)
      PROVE  pc' # "pop"
  BY <1>4 DEF Receive, Cancel
<1> QED
  BY <1>1, <1>2, <1>3, <1>4 DEF Next, PopFilled, Rest, Discard, Complete, Return

\* The level takes the remainder of the order in hand at its end.
Joined(s, p) ==
    /\ Rest /\ s = Asked.side /\ p = Asked.price
    /\ \E e \in Entry :
          /\ e.id = taker.id /\ e.quantity = Asked.quantity /\ e.filled = taker.filled
          /\ book'[s][p] = Append(book[s][p], e)

\* The orders of the level stay, some filled further.
Stays(s, p) ==
    /\ Len(book'[s][p]) = Len(book[s][p])
    /\ \A i \in 1..Len(book[s][p]) :
          /\ book'[s][p][i].id = book[s][p][i].id
          /\ book'[s][p][i].quantity = book[s][p][i].quantity
          /\ book'[s][p][i].filled >= book[s][p][i].filled

\* One order leaves the level: the one that is cancelled, or the filled maker.
Leaves(s, p) ==
    \E i \in 1..Len(book[s][p]) :
        /\ book'[s][p] = RemoveAt(book[s][p], i)
        /\ index'[book[s][p][i].id] = Nowhere
        /\ pc = "idle" \/ (pc = "pop" /\ i = 1 /\ Left(book[s][p][1]) = 0)

\* What is filled of an entry is a number.
LEMMA FilledInt ==
    ASSUME NEW q \in Seq(Entry), NEW i \in 1..Len(q)
    PROVE  q[i].filled \in Int
<1>1. q[i] \in Entry
  BY ElementOfSeq
<1> QED BY <1>1, BoundsAssumption DEF Entry

\* What one step does to a level: an order joins it, it stays, or one leaves.
LEMMA LevelStep ==
    ASSUME TypeOK, FilledAtFront, [Next]_vars, NEW s \in Side, NEW p \in Price
    PROVE  Joined(s, p) \/ Stays(s, p) \/ Leaves(s, p)
<1>0. /\ book \in [Side -> [Price -> Seq(Entry)]]
      /\ index \in [OrderId -> Place \union {Nowhere}]
      /\ book[s][p] \in Seq(Entry)
  BY DEF TypeOK
<1>a. book'[s][p] = book[s][p] => Stays(s, p)
  <2>1. \A i \in 1..Len(book[s][p]) : book[s][p][i].filled \in Int
    BY <1>0, FilledInt
  <2> QED BY <2>1 DEF Stays
<1>1. ASSUME NEW o \in OrderId, Cancel(o)
      PROVE  Stays(s, p) \/ Leaves(s, p)
  <2> DEFINE t == index[o].side
             r == index[o].price
             q == book[t][r]
  <2>1. PICK k \in 1..Len(q) : q[k].id = o /\ book' = [book EXCEPT ![t][r] = RemoveAt(q, k)]
    BY <1>1 DEF Cancel
  <2>2. pc = "idle" /\ index' = [index EXCEPT ![o] = Nowhere]
    BY <1>1 DEF Cancel, Forget
  <2>3. CASE s = t /\ p = r
    <3>1. book'[s][p] = RemoveAt(book[s][p], k) /\ book[s][p][k].id = o
      <4>1. q = book[s][p]
        BY <2>3
      <4> HIDE DEF t, r, q
      <4> QED BY <1>0, <2>1, <2>3, <4>1
    <3>2. index'[o] = Nowhere
      BY <1>0, <2>2
    <3>3. k \in 1..Len(book[s][p])
      BY <2>3
    <3> QED BY <2>2, <3>1, <3>2, <3>3 DEF Leaves
  <2>4. CASE ~(s = t /\ p = r)
    <3>1. book'[s][p] = book[s][p]
      <4> HIDE DEF t, r, q
      <4> QED BY <1>0, <2>1, <2>4
    <3> QED BY <1>a, <3>1
  <2> QED BY <2>3, <2>4
<1>2. ASSUME NEW q \in Price, Execute(q)
      PROVE  Stays(s, p)
  <2> DEFINE t == Opposite(Asked.side)
  <2>1. PICK qty \in Qty : Executed(q, qty)
    BY <1>2, ExecutedQuantity
  <2>2. /\ Len(book'[t][q]) = Len(book[t][q])
        /\ \A i \in 1..Len(book[t][q]) : book'[t][q][i].id = book[t][q][i].id
        /\ \A i \in 1..Len(book[t][q]) : i # 1 => book'[t][q][i] = book[t][q][i]
        /\ \A u \in Side, r \in Price : u # t \/ r # q => book'[u][r] = book[u][r]
        /\ book[t][q] \in Seq(Entry) /\ t \in Side
    BY <2>1, AfterExecution
  <2>3. CASE s = t /\ p = q
    <3>1. IsBest(t, q) /\ qty \in 1..Left(Head(book[t][q]))
          /\ book' = [book EXCEPT ![t][q] = FillFront(book[t][q], qty)]
      BY <2>1 DEF Executed
    <3>2. /\ book[t][q] # <<>>
          /\ Head(book[t][q]) = book[t][q][1]
          /\ book[t][q][1] \in Entry
      BY <2>2, <3>1 DEF IsBest, Levels
    <3>3. Left(book[t][q][1]) \in Int
      BY <3>2, BoundsAssumption DEF Left, Entry, Qty
    <3>4. qty \in 0..Left(book[t][q][1])
      BY <3>1, <3>2, <3>3
    <3>5. book'[t][q][1] = Fill(book[t][q][1], qty)
      <4>1. book'[t][q] = FillFront(book[t][q], qty)
        BY <1>0, <2>2, <3>1
      <4>2. 1 \in 1..Len(book[t][q])
        BY <2>2, <3>2
      <4> QED BY <2>2, <3>2, <3>4, <4>1, <4>2, FillFrontProperties
    <3>6. book'[t][q][1].filled >= book[t][q][1].filled
      <4>1. book'[t][q][1].filled = book[t][q][1].filled + qty
        BY <3>2, <3>4, <3>5, FillProperties
      <4>2. book[t][q][1].filled \in Int
        BY <3>2 DEF Entry
      <4> QED BY <4>1, <4>2, BoundsAssumption DEF Qty
    <3>7. \A i \in 1..Len(book[t][q]) : book[t][q][i].filled \in Int
      BY <2>2, FilledInt
    <3>8. \A i \in 1..Len(book[t][q]) : book'[t][q][i].filled >= book[t][q][i].filled
      BY <2>2, <3>6, <3>7
    <3>9. book'[t][q][1].quantity = book[t][q][1].quantity
      BY <3>2, <3>4, <3>5, FillProperties
    <3>10. \A i \in 1..Len(book[t][q]) : book'[t][q][i].quantity = book[t][q][i].quantity
      BY <2>2, <3>9
    <3> QED BY <2>2, <2>3, <3>8, <3>10 DEF Stays
  <2>4. CASE ~(s = t /\ p = q)
    BY <1>a, <2>2, <2>4
  <2> QED BY <2>3, <2>4
<1>3. ASSUME NEW q \in Price, PopFilled(q)
      PROVE  Stays(s, p) \/ Leaves(s, p)
  <2> DEFINE t == Opposite(Asked.side)
  <2>1. /\ pc = "pop"
        /\ IsBest(t, q)
        /\ book' = [book EXCEPT ![t][q] = Tail(book[t][q])]
        /\ index' = [index EXCEPT ![Head(book[t][q]).id] = Nowhere]
    BY <1>3 DEF PopFilled, Forget
  <2>2. /\ t \in Side /\ book[t][q] \in Seq(Entry) /\ book[t][q] # <<>>
        /\ Head(book[t][q]) \in Entry
    BY <2>1, InHand, BestMaker
  <2>3. Left(Head(book[t][q])) = 0
    BY <2>1 DEF FilledAtFront
  <2>4. CASE s = t /\ p = q
    <3>1. book'[s][p] = Tail(book[s][p])
      BY <1>0, <2>1, <2>4
    <3>2. Tail(book[s][p]) = RemoveAt(book[s][p], 1)
      BY <2>2, <2>4, TailIsRemoveAt
    <3>3. 1 \in 1..Len(book[s][p]) /\ Head(book[s][p]) = book[s][p][1]
      BY <2>2, <2>4
    <3>4. index'[Head(book[s][p]).id] = Nowhere
      BY <1>0, <2>1, <2>2, <2>4 DEF Entry
    <3> QED BY <2>1, <2>3, <2>4, <3>1, <3>2, <3>3, <3>4 DEF Leaves
  <2>5. CASE ~(s = t /\ p = q)
    BY <1>0, <1>a, <2>1, <2>2, <2>5
  <2> QED BY <2>4, <2>5
<1>4. CASE Rest
  <2> DEFINE t == Asked
             e == [id |-> taker.id, quantity |-> t.quantity, filled |-> taker.filled]
  <2>1. /\ pc = "match"
        /\ book' = [book EXCEPT ![t.side][t.price] = Append(@, e)]
    BY <1>4 DEF Rest
  <2>2. /\ t.side \in Side /\ t.price \in Price
        /\ e \in Entry /\ e.id = taker.id /\ e.quantity = t.quantity /\ e.filled = taker.filled
    BY <2>1, InHand DEF Entry
  <2>3. CASE s = t.side /\ p = t.price
    <3>1. book'[s][p] = Append(book[s][p], e)
      <4> HIDE DEF e, t
      <4> QED BY <1>0, <2>1, <2>2, <2>3
    <3> QED
      <4> HIDE DEF e
      <4> QED BY <1>4, <2>2, <2>3, <3>1 DEF Joined
  <2>4. CASE ~(s = t.side /\ p = t.price)
    <3>1. book'[s][p] = book[s][p]
      <4> HIDE DEF e, t
      <4> QED BY <1>0, <2>1, <2>2, <2>4
    <3> QED BY <1>a, <3>1
  <2> QED BY <2>3, <2>4
<1>5. ASSUME UNCHANGED book
      PROVE  Stays(s, p)
  BY <1>a, <1>5
<1> QED
  BY <1>1, <1>2, <1>3, <1>4, <1>5
     DEF Next, vars, Receive, Discard, Complete, Return

\* The filled maker is at the front when it is popped, always.
LEMMA AlwaysFilledAtFront == Spec => []FilledAtFront
<1>1. Init => FilledAtFront
  BY DEF Init, FilledAtFront
<1> QED BY <1>1, FilledAtFrontNext, TypeCorrect, PTL DEF Spec

\* Nobody loses time priority: a resting order leaves its queue when it is
\* cancelled or has nothing left, and the others keep their order.
THEOREM PriorityKept == Spec => OnlyTheFilledLeave
<1> DEFINE Fair(s, p) ==
        LET q == book[s][p]
            r == book'[s][p]
        IN  \/ \E e \in Entry : r = Append(q, e)
            \/ /\ Len(r) = Len(q)
               /\ \A i \in 1..Len(q) : r[i].id = q[i].id /\ r[i].filled >= q[i].filled
            \/ \E i \in 1..Len(q) :
                  /\ r = RemoveAt(q, i)
                  /\ IF pc = "idle" THEN index'[q[i].id] = Nowhere
                                    ELSE i = 1 /\ Left(q[i]) = 0
<1>1. ASSUME TypeOK, FilledAtFront, [Next]_vars, NEW s \in Side, NEW p \in Price
      PROVE  Fair(s, p)
  <2>1. Joined(s, p) => Fair(s, p)
    BY DEF Joined
  <2>2. Stays(s, p) => Fair(s, p)
    BY DEF Stays
  <2>3. Leaves(s, p) => Fair(s, p)
    BY DEF Leaves
  <2> QED BY <1>1, <2>1, <2>2, <2>3, LevelStep
<1>2. TypeOK /\ FilledAtFront /\ [Next]_vars =>
        [\A s \in Side, p \in Price : Fair(s, p)]_vars
  BY <1>1
<1>3. Spec => [][\A s \in Side, p \in Price : Fair(s, p)]_vars
  BY <1>2, TypeCorrect, AlwaysFilledAtFront, PTL DEF Spec
<1> QED BY <1>3 DEF OnlyTheFilledLeave

-----------------------------------------------------------------------------
(* The trades of an order get no better. *)

\* A price an order in hand has traded at is no worse than those still on offer.
BeyondTrades ==
    pc \in {"match", "pop"} =>
        \A i \in 1..Len(trades), p \in Levels(Opposite(Asked.side)) :
            IF Asked.side = "buy" THEN trades[i].price <= p ELSE p <= trades[i].price

TradesInOrder ==
    /\ BestPriceFirst
    /\ BeyondTrades
    /\ pc = "idle" => trades = <<>>

\* The next trade is at no better a price than the last: levels only get worse.
LEMMA TradesInOrderNext == TypeOK /\ TradesInOrder /\ [Next]_vars => TradesInOrder'
<1> SUFFICES ASSUME TypeOK, TradesInOrder, [Next]_vars
             PROVE  TradesInOrder'
  OBVIOUS
<1>0. trades \in Seq(Trade) /\ book \in [Side -> [Price -> Seq(Entry)]]
  BY DEF TypeOK
<1>1. ASSUME NEW p \in Price, Execute(p)
      PROVE  TradesInOrder'
  <2> DEFINE s == Opposite(Asked.side)
             n == Len(trades)
  <2>1. PICK qty \in Qty : Executed(p, qty)
    BY <1>1, ExecutedQuantity
  <2>2. Crosses(Asked, p) /\ IsBest(s, p) /\ pc = "match" /\ pc' # "idle"
    BY <1>1 DEF Execute, CanTrade
  <2>3. /\ s \in Side
        /\ \A t \in Side : Levels(t)' = Levels(t)
        /\ Asked' = Asked
    BY <2>1, AfterExecution
  <2>4. PICK tr : tr.price = p /\ trades' = Append(trades, tr)
    BY <2>1 DEF Executed
  <2>5. /\ Len(trades') = n + 1 /\ n \in Nat
        /\ \A i \in 1..n : trades'[i] = trades[i]
        /\ trades'[n + 1].price = p
    BY <1>0, <2>4
  <2>6. \A i \in 1..n : IF Asked.side = "buy" THEN trades[i].price <= p ELSE p <= trades[i].price
    BY <2>2 DEF TradesInOrder, BeyondTrades, IsBest
  <2>7. \A i \in 1..(n + 1) : i \in 1..n \/ i = n + 1
    BY <2>5
  <2>8. BestPriceFirst'
    <3>1. \A i \in 1..(n + 1) : Crosses(Asked, trades'[i].price)
      BY <2>2, <2>5, <2>7 DEF TradesInOrder, BestPriceFirst
    <3>2. \A i \in 1..(n + 1) : \A j \in 1..(i - 1) :
             IF Asked.side = "buy" THEN trades'[j].price <= trades'[i].price
                                   ELSE trades'[i].price <= trades'[j].price
      <4> SUFFICES ASSUME NEW i \in 1..(n + 1), NEW j \in 1..(i - 1)
                   PROVE  IF Asked.side = "buy" THEN trades'[j].price <= trades'[i].price
                                                ELSE trades'[i].price <= trades'[j].price
        OBVIOUS
      <4>1. j \in 1..n
        BY <2>5
      <4>2. CASE i = n + 1
        BY <2>5, <2>6, <4>1, <4>2
      <4>3. CASE i \in 1..n
        BY <2>5, <4>1, <4>3 DEF TradesInOrder, BestPriceFirst
      <4> QED BY <2>7, <4>2, <4>3
    <3>3. \A x : Crosses(Asked, x)' <=> Crosses(Asked, x)
      BY <2>3 DEF Crosses
    <3> QED BY <2>3, <2>5, <3>1, <3>2, <3>3 DEF BestPriceFirst, Crosses
  <2>9. BeyondTrades'
    <3> SUFFICES ASSUME NEW i \in 1..(n + 1), NEW q \in Levels(s)
                 PROVE  IF Asked.side = "buy" THEN trades'[i].price <= q ELSE q <= trades'[i].price
      BY <2>3, <2>5 DEF BeyondTrades, Opposite
    <3>1. CASE i = n + 1
      <4>1. Asked.side \in Side
        BY <2>2, InHand
      <4> QED BY <2>2, <2>5, <3>1, <4>1 DEF IsBest, Opposite, Side
    <3>2. CASE i \in 1..n
      BY <2>2, <2>5, <3>2 DEF TradesInOrder, BeyondTrades
    <3> QED BY <2>7, <3>1, <3>2
  <2> QED BY <2>2, <2>8, <2>9 DEF TradesInOrder
<1>2. ASSUME NEW p \in Price, PopFilled(p)
      PROVE  TradesInOrder'
  <2>1. /\ pc = "pop" /\ pc' = "match" /\ trades' = trades /\ Asked' = Asked
    BY <1>2 DEF PopFilled, Asked
  <2>2. Opposite(Asked.side) \in Side
    BY <2>1, InHand
  <2>3. ~ Rest
    BY <2>1 DEF Rest
  <2>4. Levels(Opposite(Asked.side))' \subseteq Levels(Opposite(Asked.side))
    BY <2>1, <2>2, <2>3, LevelsShrink DEF Levels
  <2>5. BestPriceFirst'
    BY <2>1 DEF TradesInOrder, BestPriceFirst, Crosses
  <2>6. BeyondTrades'
    <3>1. Opposite(Asked.side)' = Opposite(Asked.side)
      BY <2>1 DEF Opposite
    <3> QED BY <2>1, <2>4, <3>1 DEF TradesInOrder, BeyondTrades
  <2> QED BY <2>1, <2>5, <2>6 DEF TradesInOrder
<1>3. CASE Rest \/ Discard \/ Complete
  <2>1. pc = "match" /\ pc' = "done" /\ trades' = trades /\ Asked' = Asked
    BY <1>3, InHand DEF Rest, Discard, Complete, Asked
  <2> QED BY <2>1 DEF TradesInOrder, BestPriceFirst, BeyondTrades, Crosses
<1>4. CASE trades' = <<>>
  BY <1>4 DEF TradesInOrder, BestPriceFirst, BeyondTrades
<1>5. ASSUME NEW o \in OrderId, Receive(o) \/ Cancel(o)
      PROVE  trades' = <<>>
  BY <1>5 DEF Receive, Cancel, TradesInOrder
<1>6. CASE UNCHANGED vars
  BY <1>6 DEF vars, TradesInOrder, BestPriceFirst, BeyondTrades, Crosses, Asked, Levels, Opposite
<1> QED BY <1>1, <1>2, <1>3, <1>4, <1>5, <1>6 DEF Next, Return

\* Every trade of an order is within its limit and no better than the one
\* before: match() takes the levels from the best price on.
THEOREM TradesByPrice == Spec => []BestPriceFirst
<1>1. Init => TradesInOrder
  BY DEF Init, TradesInOrder, BestPriceFirst, BeyondTrades
<1>2. TradesInOrder => BestPriceFirst
  BY DEF TradesInOrder
<1> QED BY <1>1, <1>2, TradesInOrderNext, TypeCorrect, PTL DEF Spec

-----------------------------------------------------------------------------
(* A resting order can be cancelled. *)

\* Where an order that has been delivered once is in the book, it is there
\* once, at the place of the index; while it is matched, it is not.
RegisteredAt(s, p, i) ==
    LET o == book[s][p][i].id
    IN  /\ deliveries[o] >= 1
        /\ pc \in {"match", "pop"} /\ o = taker.id => deliveries[o] >= 2
        /\ deliveries[o] = 1 =>
              /\ index[o] = [side |-> s, price |-> p]
              /\ \A j \in 1..Len(book[s][p]) : book[s][p][j].id = o => j = i

Registered ==
    /\ \A s \in Side, p \in Price : \A i \in 1..Len(book[s][p]) : RegisteredAt(s, p, i)
    /\ pc # "idle" => deliveries[taker.id] >= 1

\* The order at place i of a level leaves the book, and the index - which the
\* engine may fail to clear for an order that a restored book holds exhausted.
Removed(s, p, i) ==
    /\ book' = [book EXCEPT ![s][p] = RemoveAt(book[s][p], i)]
    /\ index' \in {index, [index EXCEPT ![book[s][p][i].id] = Nowhere]}
    /\ UNCHANGED <<deliveries, taker>>
    /\ pc' = IF pc = "pop" THEN "match" ELSE pc

\* cancel() takes one entry out of one queue.
LEMMA CancelRemoves ==
    ASSUME TypeOK, NEW o \in OrderId, Cancel(o)
    PROVE  \E s \in Side, p \in Price : \E i \in 1..Len(book[s][p]) : Removed(s, p, i)
<1> DEFINE s == index[o].side
           p == index[o].price
<1>1. s \in Side /\ p \in Price
  BY DEF TypeOK, Cancel, Place
<1>2. PICK i \in 1..Len(book[s][p]) :
         book[s][p][i].id = o /\ book' = [book EXCEPT ![s][p] = RemoveAt(book[s][p], i)]
  BY DEF Cancel
<1>3. Removed(s, p, i)
  BY <1>2 DEF Cancel, Removed, Forget
<1> QED BY <1>1, <1>2, <1>3

\* The filled maker that is popped is one entry out of one queue.
LEMMA PopRemoves ==
    ASSUME TypeOK, NEW r \in Price, PopFilled(r)
    PROVE  \E s \in Side, p \in Price : \E i \in 1..Len(book[s][p]) : Removed(s, p, i)
<1> DEFINE s == Opposite(Asked.side)
<1>1. pc = "pop" /\ IsBest(s, r)
  BY DEF PopFilled
<1>2. s \in Side /\ book[s][r] \in Seq(Entry) /\ book[s][r] # <<>>
  BY <1>1, InHand, BestMaker
<1> HIDE DEF s
<1>3. Tail(book[s][r]) = RemoveAt(book[s][r], 1)
  BY <1>2, TailIsRemoveAt
<1>6. Head(book[s][r]) = book[s][r][1]
  BY <1>2
<1>4. 1 \in 1..Len(book[s][r])
  BY <1>2
<1>5. Removed(s, r, 1)
  BY <1>1, <1>3, <1>6 DEF PopFilled, Removed, Forget, s
<1> QED BY <1>2, <1>4, <1>5

\* What the queues hold after a removal was there before, except for one order.
LEMMA AfterRemoval ==
    ASSUME TypeOK, NEW s \in Side, NEW p \in Price, NEW i \in 1..Len(book[s][p]),
           Removed(s, p, i),
           NEW t \in Side, NEW r \in Price
    PROVE  /\ book[t][r] \in Seq(Entry)
           /\ ~(t = s /\ r = p) => book'[t][r] = book[t][r]
           /\ t = s /\ r = p =>
                /\ Len(book'[t][r]) = Len(book[t][r]) - 1
                /\ \A j \in 1..Len(book'[t][r]) :
                      /\ IF j < i THEN j \in 1..Len(book[t][r]) /\ book'[t][r][j] = book[t][r][j]
                         ELSE j + 1 \in 1..Len(book[t][r]) /\ book'[t][r][j] = book[t][r][j + 1]
<1>0. book \in [Side -> [Price -> Seq(Entry)]] /\ book[t][r] \in Seq(Entry)
  BY DEF TypeOK
<1>1. book' = [book EXCEPT ![s][p] = RemoveAt(book[s][p], i)]
  BY DEF Removed
<1>2. ~(t = s /\ r = p) => book'[t][r] = book[t][r]
  BY <1>0, <1>1
<1>3. ASSUME t = s /\ r = p
      PROVE  /\ Len(book'[t][r]) = Len(book[t][r]) - 1
             /\ \A j \in 1..Len(book'[t][r]) :
                   /\ IF j < i THEN j \in 1..Len(book[t][r]) /\ book'[t][r][j] = book[t][r][j]
                      ELSE j + 1 \in 1..Len(book[t][r]) /\ book'[t][r][j] = book[t][r][j + 1]
  <2>1. book'[t][r] = RemoveAt(book[t][r], i)
    BY <1>0, <1>1, <1>3
  <2>2. /\ Len(RemoveAt(book[t][r], i)) = Len(book[t][r]) - 1
        /\ \A j \in 1..(Len(book[t][r]) - 1) :
             RemoveAt(book[t][r], i)[j] = IF j < i THEN book[t][r][j] ELSE book[t][r][j + 1]
    BY <1>0, <1>3, RemoveAtProperties
  <2>3. Len(book[t][r]) \in Nat
    BY <1>0
  <2> QED BY <2>1, <2>2, <2>3
<1> QED BY <1>0, <1>2, <1>3

\* Removing an entry leaves the index right for the others.
LEMMA RegisteredRemoval ==
    ASSUME TypeOK, Registered, NEW s \in Side, NEW p \in Price, NEW i \in 1..Len(book[s][p]),
           Removed(s, p, i)
    PROVE  Registered'
<1> DEFINE x == book[s][p][i].id
<1>0. /\ index' \in {index, [index EXCEPT ![x] = Nowhere]}
      /\ deliveries' = deliveries /\ taker' = taker
      /\ pc' \in {"match", "pop"} => pc \in {"match", "pop"}
      /\ pc' # "idle" => pc # "idle"
  BY DEF Removed, TypeOK
<1>1. index \in [OrderId -> Place \union {Nowhere}]
  BY DEF TypeOK
<1>2. ASSUME NEW t \in Side, NEW r \in Price, NEW j \in 1..Len(book'[t][r])
      PROVE  LET o == book'[t][r][j].id
             IN  /\ deliveries[o] >= 1
                 /\ pc' \in {"match", "pop"} /\ o = taker.id => deliveries[o] >= 2
                 /\ deliveries[o] = 1 =>
                       /\ index'[o] = [side |-> t, price |-> r]
                       /\ \A k \in 1..Len(book'[t][r]) : book'[t][r][k].id = o => k = j
  <2> DEFINE o == book'[t][r][j].id
  <2>0. Len(book[t][r]) \in Nat /\ book[t][r] \in Seq(Entry)
    BY AfterRemoval
  <2>1. PICK origin \in [1..Len(book'[t][r]) -> 1..Len(book[t][r])] :
          \A k \in 1..Len(book'[t][r]) :
             /\ book'[t][r][k] = book[t][r][origin[k]]
             /\ \A l \in 1..Len(book'[t][r]) : origin[k] = origin[l] => k = l
             /\ t = s /\ r = p => origin[k] # i
    <3>1. CASE ~(t = s /\ r = p)
      <4>1. book'[t][r] = book[t][r]
        BY <3>1, AfterRemoval
      <4> DEFINE org == [k \in 1..Len(book'[t][r]) |-> k]
      <4>2. org \in [1..Len(book'[t][r]) -> 1..Len(book[t][r])]
            /\ \A k \in 1..Len(book'[t][r]) : org[k] = k
        BY <4>1
      <4> HIDE DEF org
      <4> QED BY <3>1, <4>1, <4>2
    <3>2. CASE t = s /\ r = p
      <4> DEFINE org == [k \in 1..Len(book'[t][r]) |-> IF k < i THEN k ELSE k + 1]
      <4>1. \A k \in 1..Len(book'[t][r]) :
               /\ org[k] \in 1..Len(book[t][r])
               /\ book'[t][r][k] = book[t][r][org[k]]
               /\ org[k] # i
        BY <3>2, AfterRemoval
      <4>2. \A k, l \in 1..Len(book'[t][r]) : org[k] = org[l] => k = l
        <5>1. i \in Int
          OBVIOUS
        <5> QED BY <5>1
      <4>3. org \in [1..Len(book'[t][r]) -> 1..Len(book[t][r])]
        BY <4>1
      <4> HIDE DEF org
      <4> QED BY <4>1, <4>2, <4>3
    <3> QED BY <3>1, <3>2
  <2>2. /\ origin[j] \in 1..Len(book[t][r])
        /\ book[t][r][origin[j]].id = o
    BY <2>1
  <2>3. /\ deliveries[o] >= 1
        /\ pc \in {"match", "pop"} /\ o = taker.id => deliveries[o] >= 2
        /\ deliveries[o] = 1 =>
              /\ index[o] = [side |-> t, price |-> r]
              /\ \A k \in 1..Len(book[t][r]) : book[t][r][k].id = o => k = origin[j]
    <3>1. RegisteredAt(t, r, origin[j])
      BY <2>2 DEF Registered
    <3> HIDE DEF o
    <3> QED BY <2>2, <3>1 DEF RegisteredAt
  <2>4. ASSUME deliveries[o] = 1
        PROVE  index'[o] = [side |-> t, price |-> r]
    <3>1. o # x
      <4> SUFFICES ASSUME o = x PROVE FALSE
        OBVIOUS
      <4>1. index[x] = [side |-> s, price |-> p]
        BY <2>4 DEF Registered, RegisteredAt
      <4>2. t = s /\ r = p
        BY <2>3, <2>4, <4>1
      <4> QED BY <2>1, <2>3, <2>4, <4>2
    <3>2. o \in OrderId
      <4>1. book[t][r][origin[j]] \in Entry
        BY <2>0, <2>2, ElementOfSeq
      <4> QED BY <2>2, <4>1 DEF Entry
    <3> HIDE DEF o, x
    <3> QED BY <1>0, <1>1, <2>3, <2>4, <3>1, <3>2
  <2>5. ASSUME deliveries[o] = 1, NEW k \in 1..Len(book'[t][r]), book'[t][r][k].id = o
        PROVE  k = j
    <3>1. origin[k] \in 1..Len(book[t][r]) /\ book[t][r][origin[k]].id = o
      BY <2>1, <2>5
    <3>2. origin[k] = origin[j]
      BY <2>3, <2>5, <3>1
    <3> QED BY <2>1, <3>2
  <2> QED BY <1>0, <2>3, <2>4, <2>5
<1> QED BY <1>0, <1>2 DEF Registered, RegisteredAt

\* Index and queues agree after every step.
LEMMA RegisteredNext == TypeOK /\ Registered /\ [Next]_vars => Registered'
<1> SUFFICES ASSUME TypeOK, Registered, [Next]_vars
             PROVE  Registered'
  OBVIOUS
<1>0. /\ book \in [Side -> [Price -> Seq(Entry)]]
      /\ index \in [OrderId -> Place \union {Nowhere}]
      /\ deliveries \in [OrderId -> Nat]
  BY DEF TypeOK
<1>a. \A s \in Side, p \in Price : \A i \in 1..Len(book[s][p]) :
         book[s][p][i].id \in OrderId
  <2> SUFFICES ASSUME NEW s \in Side, NEW p \in Price, NEW i \in 1..Len(book[s][p])
               PROVE  book[s][p][i].id \in OrderId
    OBVIOUS
  <2>1. book[s][p] \in Seq(Entry)
    BY <1>0
  <2>2. book[s][p][i] \in Entry
    BY <2>1, ElementOfSeq
  <2> QED BY <2>2 DEF Entry
<1>1. ASSUME NEW o \in OrderId, Receive(o)
      PROVE  Registered'
  <2>1. /\ pc = "idle" /\ deliveries' = [deliveries EXCEPT ![o] = @ + 1]
        /\ taker'.id = o /\ book' = book /\ index' = index
    BY <1>1 DEF Receive
  <2>2. \A q \in OrderId : deliveries'[q] = IF q = o THEN deliveries[o] + 1 ELSE deliveries[q]
    BY <1>0, <2>1
  <2>3. deliveries[o] \in Nat
    BY <1>0
  <2> QED BY <1>a, <2>1, <2>2, <2>3 DEF Registered, RegisteredAt
<1>2. ASSUME NEW o \in OrderId, Cancel(o)
      PROVE  Registered'
  BY <1>2, CancelRemoves, RegisteredRemoval
<1>3. ASSUME NEW p \in Price, PopFilled(p)
      PROVE  Registered'
  BY <1>3, PopRemoves, RegisteredRemoval
<1>4. ASSUME NEW p \in Price, Execute(p)
      PROVE  Registered'
  <2> DEFINE s == Opposite(Asked.side)
  <2>1. PICK qty \in Qty : Executed(p, qty)
    BY <1>4, ExecutedQuantity
  <2>2. /\ pc = "match" /\ index' = index /\ deliveries' = deliveries
        /\ taker'.id = taker.id
    BY <2>1, InHand DEF Executed
  <2>3. \A t \in Side, r \in Price :
           /\ Len(book'[t][r]) = Len(book[t][r])
           /\ \A i \in 1..Len(book[t][r]) : book'[t][r][i].id = book[t][r][i].id
    BY <2>1, AfterExecution
  <2> QED BY <2>2, <2>3 DEF Registered, RegisteredAt
<1>5. CASE Rest
  <2> DEFINE t == Asked
             e == [id |-> taker.id, quantity |-> t.quantity, filled |-> taker.filled]
             q == book[t.side][t.price]
  <2>1. /\ pc = "match" /\ pc' = "done" /\ deliveries' = deliveries /\ taker'.id = taker.id
        /\ book' = [book EXCEPT ![t.side][t.price] = Append(q, e)]
        /\ index' = [index EXCEPT ![taker.id] = [side |-> t.side, price |-> t.price]]
    BY <1>5, InHand DEF Rest, Locate
  <2>2. /\ t.side \in Side /\ t.price \in Price /\ taker.id \in OrderId
        /\ e \in Entry /\ e.id = taker.id
    BY <2>1, InHand DEF Entry
  <2>3. q \in Seq(Entry)
    BY <1>0, <2>2
  <2> HIDE DEF e, q, t
  <2>4. /\ Len(Append(q, e)) = Len(q) + 1 /\ Len(q) \in Nat
        /\ \A i \in 1..Len(q) : Append(q, e)[i] = q[i]
        /\ Append(q, e)[Len(q) + 1] = e
    BY <2>2, <2>3, AppendProperties
  <2>5. /\ book'[t.side][t.price] = Append(q, e)
        /\ \A s \in Side, p \in Price : ~(s = t.side /\ p = t.price) => book'[s][p] = book[s][p]
    BY <1>0, <2>1, <2>2
  <2>6. /\ deliveries[taker.id] >= 1 /\ deliveries[taker.id] \in Nat
        /\ deliveries[taker.id] = 1 =>
             \A s \in Side, p \in Price : \A i \in 1..Len(book[s][p]) : book[s][p][i].id # taker.id
    <3>1. deliveries[taker.id] >= 1 /\ deliveries[taker.id] \in Nat
      BY <1>0, <2>1, <2>2 DEF Registered
    <3>2. ASSUME NEW s \in Side, NEW p \in Price, NEW i \in 1..Len(book[s][p]),
                 book[s][p][i].id = taker.id
          PROVE  deliveries[taker.id] >= 2
      BY <2>1, <3>2 DEF Registered, RegisteredAt
    <3> QED BY <3>1, <3>2
  <2>7. index'[taker.id] = [side |-> t.side, price |-> t.price]
        /\ \A o \in OrderId : o # taker.id => index'[o] = index[o]
    BY <1>0, <2>1, <2>2
  <2>8. ASSUME NEW s \in Side, NEW p \in Price, NEW i \in 1..Len(book'[s][p])
        PROVE  LET o == book'[s][p][i].id
               IN  /\ deliveries[o] >= 1
                   /\ deliveries[o] = 1 =>
                         /\ index'[o] = [side |-> s, price |-> p]
                         /\ \A j \in 1..Len(book'[s][p]) : book'[s][p][j].id = o => j = i
    <3>1. CASE ~(s = t.side /\ p = t.price)
      <4>1. book'[s][p] = book[s][p]
        BY <2>5, <3>1
      <4>2. RegisteredAt(s, p, i)
        BY <4>1 DEF Registered
      <4> DEFINE o == book[s][p][i].id
      <4>3. o \in OrderId
        BY <1>a, <4>1
      <4>4. /\ deliveries[o] >= 1
            /\ deliveries[o] = 1 =>
                  /\ index[o] = [side |-> s, price |-> p]
                  /\ \A j \in 1..Len(book[s][p]) : book[s][p][j].id = o => j = i
        BY <4>2 DEF RegisteredAt
      <4>5. deliveries[o] = 1 => o # taker.id
        BY <2>6, <4>1
      <4>6. deliveries[o] = 1 => index'[o] = index[o]
        BY <2>7, <4>3, <4>5
      <4> HIDE DEF o
      <4>7. /\ deliveries[o] >= 1
            /\ deliveries[o] = 1 =>
                  /\ index'[o] = [side |-> s, price |-> p]
                  /\ \A j \in 1..Len(book'[s][p]) : book'[s][p][j].id = o => j = i
        BY <4>1, <4>4, <4>6
      <4> QED BY <4>1, <4>7 DEF o
    <3>2. CASE s = t.side /\ p = t.price
      <4>1. book'[s][p] = Append(q, e) /\ book[s][p] = q
        BY <2>5, <3>2 DEF q
      <4>2. CASE i \in 1..Len(q)
        <5> DEFINE o == q[i].id
        <5>1. book'[s][p][i].id = o /\ o \in OrderId
          BY <1>a, <2>4, <4>1, <4>2
        <5>2. /\ deliveries[o] >= 1
              /\ deliveries[o] = 1 =>
                    /\ index[o] = [side |-> s, price |-> p]
                    /\ \A j \in 1..Len(q) : q[j].id = o => j = i
          BY <4>1, <4>2 DEF Registered, RegisteredAt
        <5>3. deliveries[o] = 1 => o # taker.id
          BY <2>6, <4>1, <4>2
        <5>4. \A j \in 1..Len(book'[s][p]) : j \in 1..Len(q) \/ j = Len(q) + 1
          BY <2>4, <4>1
        <5> QED BY <2>2, <2>4, <2>7, <4>1, <4>2, <5>1, <5>2, <5>3, <5>4
      <4>3. CASE i = Len(q) + 1
        <5>1. book'[s][p][i].id = taker.id
          BY <2>2, <2>4, <4>1, <4>3
        <5>2. \A j \in 1..Len(book'[s][p]) : j \in 1..Len(q) \/ j = Len(q) + 1
          BY <2>4, <4>1
        <5>3. \A j \in 1..Len(q) : book'[s][p][j] = book[s][p][j]
          BY <2>4, <4>1
        <5>4. deliveries[taker.id] = 1 => \A j \in 1..Len(q) : book'[s][p][j].id # taker.id
          BY <2>6, <4>1, <5>3
        <5> QED BY <2>6, <2>7, <3>2, <4>3, <5>1, <5>2, <5>4
      <4> QED BY <2>4, <4>1, <4>2, <4>3
    <3> QED BY <3>1, <3>2
  <2>9. ~(pc' \in {"match", "pop"})
    BY <2>1
  <2> HIDE DEF e, q, t
  <2>10. /\ deliveries'[taker'.id] = deliveries[taker.id] /\ deliveries[taker.id] >= 1
         /\ deliveries' = deliveries
    BY <2>1, <2>6
  <2>11. ASSUME NEW s \in Side, NEW p \in Price, NEW i \in 1..Len(book'[s][p])
         PROVE  RegisteredAt(s, p, i)'
    BY <2>8, <2>9, <2>10 DEF RegisteredAt
  <2> QED BY <2>9, <2>10, <2>11 DEF Registered
<1>6. CASE Discard \/ Complete \/ Return
  BY <1>6, InHand DEF Registered, RegisteredAt, Discard, Complete, Return
<1>7. CASE UNCHANGED vars
  BY <1>7 DEF vars, Registered, RegisteredAt
<1> QED BY <1>1, <1>2, <1>3, <1>4, <1>5, <1>6, <1>7 DEF Next

\* An order that was delivered once and rests is found by a cancel: the index
\* names its level.
THEOREM RestingIsCancellable == Spec => []Cancellable
<1>1. Init => Registered
  BY DEF Init, Registered
<1>2. Registered => Cancellable
  BY DEF Registered, RegisteredAt, Cancellable
<1> QED BY <1>1, <1>2, RegisteredNext, TypeCorrect, PTL DEF Spec

-----------------------------------------------------------------------------
(* Instructions: post-only, and what becomes of a remainder. *)

\* A post-only order that got past the check faces no level that crosses, and
\* has traded nothing; between orders there are no trades.
FacesNothing ==
    /\ pc = "idle" => trades = <<>>
    /\ pc # "idle" /\ Asked.type = "limit" /\ Asked.postOnly =>
          /\ trades = <<>>
          /\ pc # "pop"
          /\ pc = "match" => ~ PostOnlyWouldCross(Asked)

\* A post-only order that passed its check meets nothing.
LEMMA FacesNothingNext == TypeOK /\ FacesNothing /\ [Next]_vars => FacesNothing'
<1> SUFFICES ASSUME TypeOK, FacesNothing, [Next]_vars
             PROVE  FacesNothing'
  OBVIOUS
<1>1. ASSUME NEW o \in OrderId, Receive(o)
      PROVE  FacesNothing'
  <2>1. /\ pc = "idle" /\ trades' = trades /\ book' = book /\ terms' = terms
        /\ taker'.id = o
        /\ pc' = IF Refused(terms[o]) THEN "done" ELSE "match"
    BY <1>1 DEF Receive
  <2>2. Asked' = terms[o] /\ trades' = <<>>
    BY <2>1 DEF Asked, FacesNothing
  <2>3. ASSUME terms[o].type = "limit", terms[o].postOnly, pc' = "match"
        PROVE  ~ PostOnlyWouldCross(terms[o])'
    <3>1. ~ PostOnlyWouldCross(terms[o])
      BY <2>1, <2>3 DEF Refused
    <3> QED BY <2>1, <3>1 DEF PostOnlyWouldCross, IsBest, Levels, Crosses
  <2>4. PostOnlyWouldCross(Asked)' <=> PostOnlyWouldCross(terms[o])'
    BY <2>1, <2>2 DEF PostOnlyWouldCross, IsBest, Levels, Crosses
  <2> QED BY <2>1, <2>2, <2>3, <2>4 DEF FacesNothing
<1>2. ASSUME NEW p \in Price, Execute(p)
      PROVE  FacesNothing'
  <2>1. /\ pc = "match" /\ pc' \in {"pop", "match"} /\ CanTrade(p) /\ terms' = terms
        /\ taker' = [taker EXCEPT !.filled = taker'.filled]
    BY <1>2, InHand DEF Execute
  <2>2. Asked' = Asked
    BY <2>1, InHand DEF Asked
  <2>3. ~(Asked.type = "limit" /\ Asked.postOnly)
    BY <2>1 DEF FacesNothing, PostOnlyWouldCross, CanTrade
  <2> QED BY <2>1, <2>2, <2>3 DEF FacesNothing
<1>3. ASSUME NEW p \in Price, PopFilled(p)
      PROVE  FacesNothing'
  <2>1. pc = "pop" /\ pc' = "match" /\ Asked' = Asked
    BY <1>3 DEF PopFilled, Asked
  <2>2. ~(Asked.type = "limit" /\ Asked.postOnly)
    BY <2>1 DEF FacesNothing
  <2> QED BY <2>1, <2>2 DEF FacesNothing
<1>4. CASE Rest \/ Discard \/ Complete
  <2>1. pc = "match" /\ pc' = "done" /\ trades' = trades /\ Asked' = Asked
    BY <1>4, InHand DEF Rest, Discard, Complete, Asked
  <2> QED BY <2>1 DEF FacesNothing
<1>5. CASE Return
  BY <1>5 DEF Return, FacesNothing
<1>6. ASSUME NEW o \in OrderId, Cancel(o)
      PROVE  FacesNothing'
  BY <1>6 DEF Cancel, FacesNothing
<1>7. CASE UNCHANGED vars
  BY <1>7 DEF vars, FacesNothing, PostOnlyWouldCross, IsBest, Levels, Crosses, Asked
<1> QED BY <1>1, <1>2, <1>3, <1>4, <1>5, <1>6, <1>7 DEF Next

\* A post-only order never takes liquidity: once past the check it meets no
\* level it could trade with, because nothing else touches the book meanwhile.
THEOREM PostOnlyHonoured == Spec => []PostOnlyTakesNothing
<1>1. Init => FacesNothing
  BY DEF Init, FacesNothing
<1>2. FacesNothing => PostOnlyTakesNothing
  BY DEF FacesNothing, PostOnlyTakesNothing
<1> QED BY <1>1, <1>2, FacesNothingNext, TypeCorrect, PTL DEF Spec

\* An order delivered once whose matching is over rests just when it should;
\* as long as it is in hand it does not rest (Registered).
LEMMA InBookDelivered ==
    ASSUME TypeOK, Registered, NEW o \in OrderId, NEW s \in Side, InBook(o, s)
    PROVE  /\ deliveries[o] >= 1
           /\ pc \in {"match", "pop"} /\ o = taker.id => deliveries[o] >= 2
<1>1. PICK p \in Price : \E i \in 1..Len(book[s][p]) : book[s][p][i].id = o
  BY DEF InBook
<1>2. PICK i \in 1..Len(book[s][p]) : book[s][p][i].id = o
  BY <1>1
<1>3. RegisteredAt(s, p, i)
  BY DEF Registered
<1> QED BY <1>2, <1>3 DEF RegisteredAt

\* What is left of a limit order is in the book when match() ends.
LEMMA RemainderRestsNext ==
    TypeOK /\ Registered /\ RemainderRests /\ [Next]_vars => RemainderRests'
<1> SUFFICES ASSUME TypeOK, Registered, RemainderRests, [Next]_vars
             PROVE  RemainderRests'
  OBVIOUS
<1>0. /\ book \in [Side -> [Price -> Seq(Entry)]]
      /\ deliveries \in [OrderId -> Nat]
  BY DEF TypeOK
<1>1. ASSUME NEW o \in OrderId, Receive(o)
      PROVE  RemainderRests'
  <2>1. /\ pc = "idle" /\ deliveries' = [deliveries EXCEPT ![o] = @ + 1]
        /\ taker'.id = o /\ book' = book
        /\ pc' = "done" => taker'.status = "rejected"
    BY <1>1 DEF Receive
  <2>2. deliveries[o] \in Nat /\ deliveries'[o] = deliveries[o] + 1
    BY <1>0, <2>1
  <2>3. ASSUME NEW s \in Side, deliveries'[o] = 1
        PROVE  ~ InBook(o, s)
    BY <2>2, <2>3, InBookDelivered
  <2>4. ASSUME pc' = "done"
        PROVE  Asked'.side \in Side
    BY <1>1, TermsAssumption DEF Receive, Asked, TypeOK, OrderTerms
  <2>5. \A s : InBook(o, s)' <=> InBook(o, s)
    BY <2>1 DEF InBook
  <2> QED BY <2>1, <2>3, <2>4, <2>5 DEF RemainderRests, InBook
<1>2. CASE Rest
  <2> DEFINE t == Asked
             e == [id |-> taker.id, quantity |-> t.quantity, filled |-> taker.filled]
             q == book[t.side][t.price]
  <2>1. /\ pc = "match" /\ Rests(t) /\ Asked' = Asked /\ taker'.id = taker.id
        /\ taker'.status \in {"open", "partially_filled"}
        /\ book' = [book EXCEPT ![t.side][t.price] = Append(q, e)]
    BY <1>2, InHand DEF Rest, Asked
  <2>2. t.side \in Side /\ t.price \in Price /\ e \in Entry /\ e.id = taker.id
    BY <2>1, InHand DEF Entry
  <2>3. q \in Seq(Entry)
    BY <1>0, <2>2
  <2>4. book'[t.side][t.price] = Append(q, e)
    BY <1>0, <2>1, <2>2
  <2> HIDE DEF e, q, t
  <2>5. /\ Len(q) + 1 \in 1..Len(Append(q, e))
        /\ Append(q, e)[Len(q) + 1] = e
    BY <2>2, <2>3, AppendProperties
  <2>6. InBook(taker.id, t.side)'
    <3>1. taker'.id = taker.id /\ t.price \in Price
      BY <2>1, <2>2
    <3>2. Len(q) + 1 \in 1..Len(book'[t.side][t.price])
          /\ book'[t.side][t.price][Len(q) + 1].id = taker.id
      BY <2>2, <2>4, <2>5
    <3>3. \E p \in Price : \E i \in 1..Len(book'[t.side][p]) : book'[t.side][p][i].id = taker.id
      BY <3>1, <3>2
    <3>4. t' = t
      BY <2>1 DEF t
    <3> QED BY <3>1, <3>3, <3>4 DEF InBook
  <2> QED BY <2>1, <2>6 DEF RemainderRests, t, Rests, InBook
<1>3. CASE Discard \/ Complete
  <2>1. /\ pc = "match" /\ pc' = "done" /\ Asked' = Asked /\ taker'.id = taker.id
        /\ book' = book /\ deliveries' = deliveries
        /\ Rests(Asked) => taker'.status = "filled"
    BY <1>3, InHand DEF Discard, Complete, Asked
  <2>2. ASSUME deliveries[taker.id] = 1
        PROVE  ~ InBook(taker.id, Asked.side)
    BY <2>1, <2>2, InHand, InBookDelivered
  <2> QED BY <2>1, <2>2 DEF RemainderRests, InBook, Rests
<1>4. ASSUME NEW p \in Price, Execute(p) \/ PopFilled(p)
      PROVE  RemainderRests'
  BY <1>4 DEF Execute, PopFilled, RemainderRests
<1>5. CASE Return
  BY <1>5 DEF Return, RemainderRests
<1>6. ASSUME NEW o \in OrderId, Cancel(o)
      PROVE  RemainderRests'
  BY <1>6 DEF Cancel, RemainderRests
<1>7. CASE UNCHANGED vars
  BY <1>7 DEF vars, RemainderRests, InBook, Asked, Rests
<1> QED BY <1>1, <1>2, <1>3, <1>4, <1>5, <1>6, <1>7 DEF Next

\* A good-till-cancelled order that is not filled is in the book when match()
\* is done with it, and no other order is.
THEOREM RemaindersRest == Spec => []RemainderRests
<1>1. Init => Registered /\ RemainderRests
  BY DEF Init, Registered, RemainderRests
<1> QED BY <1>1, RegisteredNext, RemainderRestsNext, TypeCorrect, PTL DEF Spec
-----------------------------------------------------------------------------
(* Instructions: fill-or-kill. *)

\* What a queue has left, and what the levels of a book have that an order
\* may trade with: LevelQuantity and CrossingQuantity as functions of the book.
Queued(q)      == SumFunctionOnSet([i \in 1..Len(q) |-> Left(q[i])], 1..Len(q))
Offered(b, t)  == [p \in Price |-> Queued(b[Opposite(t.side)][p])]
Within(t)      == {p \in Price : Crosses(t, p)}
Available(b, t) == SumFunctionOnSet(Offered(b, t), Within(t))

\* The terms a queue's quantity is the sum of are numbers, and so is the sum.
LEMMA QueuedTerms ==
    ASSUME NEW q \in Seq(Entry)
    PROVE  /\ Len(q) \in Nat
           /\ Numbers([i \in 1..Len(q) |-> Left(q[i])], 1..Len(q))
           /\ Queued(q) \in Int
<1> DEFINE f == [i \in 1..Len(q) |-> Left(q[i])]
<1>1. Len(q) \in Nat /\ \A i \in 1..Len(q) : q[i] \in Entry
  BY LenProperties, ElementOfSeq
<1>2. \A i \in 1..Len(q) : f[i] \in Int
  BY <1>1, BoundsAssumption DEF Left, Entry, Qty
<1>3. IsFiniteSet(1..Len(q))
  BY <1>1, FS_Interval
<1> HIDE DEF f
<1>4. Numbers(f, 1..Len(q))
  BY <1>2, <1>3 DEF Numbers
<1>5. SumFunctionOnSet(f, 1..Len(q)) \in Int
  BY <1>4, SumType
<1> QED BY <1>1, <1>4, <1>5 DEF f, Queued

\* Filling the front of a queue takes as much from the level.
LEMMA QueuedFilled ==
    ASSUME NEW q \in Seq(Entry), NEW r \in Seq(Entry), q # <<>>, Len(r) = Len(q),
           \A i \in 1..Len(q) : i # 1 => r[i] = q[i],
           NEW n \in Int, Left(r[1]) = Left(q[1]) - n
    PROVE  Queued(r) = Queued(q) - n
<1> DEFINE f == [i \in 1..Len(q) |-> Left(q[i])]
           g == [i \in 1..Len(r) |-> Left(r[i])]
<1>1. 1 \in 1..Len(q)
  OBVIOUS
<1>2. Numbers(f, 1..Len(q)) /\ Numbers(g, 1..Len(q))
  BY QueuedTerms
<1>3. /\ f[1] = Left(q[1]) /\ g[1] = f[1] - n
      /\ \A i \in (1..Len(q)) \ {1} : f[i] = g[i]
  BY <1>1
<1>4. Queued(q) = SumFunctionOnSet(f, 1..Len(q)) /\ Queued(r) = SumFunctionOnSet(g, 1..Len(q))
  BY DEF Queued
<1> HIDE DEF f, g
<1>5. g[1] \in Int /\ f[1] \in Int
  BY <1>1, <1>2 DEF Numbers
<1>6. SumFunctionOnSet(g, 1..Len(q)) = SumFunctionOnSet(f, 1..Len(q)) - f[1] + g[1]
  BY <1>1, <1>2, <1>3, <1>5, SumChange
<1>7. SumFunctionOnSet(f, 1..Len(q)) \in Int
  BY <1>2, SumType
<1> QED BY <1>3, <1>4, <1>5, <1>6, <1>7

\* An exhausted order in front adds nothing to its level.
LEMMA QueuedTail ==
    ASSUME NEW q \in Seq(Entry), q # <<>>, Left(q[1]) = 0
    PROVE  Queued(Tail(q)) = Queued(q)
<1> DEFINE n == Len(q) - 1
           f == [i \in 1..Len(q) |-> Left(q[i])]
           g == [i \in 1..Len(Tail(q)) |-> Left(Tail(q)[i])]
<1>1. n \in Nat /\ Len(q) = n + 1 /\ 1 \in 1..Len(q)
  OBVIOUS
<1>2. /\ Tail(q) \in Seq(Entry) /\ Len(Tail(q)) = n
      /\ \A i \in 1..n : Tail(q)[i] = q[i + 1]
  BY HeadTailProperties
<1>3. Numbers(f, 1..Len(q))
  BY QueuedTerms
<1>4. f[1] = 0 /\ \A i \in 1..n : g[i] = f[i + 1]
  BY <1>1, <1>2
<1>5. Queued(q) = SumFunctionOnSet(f, 1..Len(q)) /\ Queued(Tail(q)) = SumFunctionOnSet(g, 1..n)
  BY <1>2 DEF Queued
<1> HIDE DEF f, g, n
<1>6. Numbers(g, 1..n) /\ SumFunctionOnSet(f, 1..(n + 1)) = f[1] + SumFunctionOnSet(g, 1..n)
  BY <1>1, <1>3, <1>4, SumRest
<1>7. SumFunctionOnSet(g, 1..n) \in Int
  BY <1>6, SumType
<1> QED BY <1>1, <1>4, <1>5, <1>6, <1>7

\* The levels of a book in type add up, and an empty level adds nothing: the
\* fill-or-kill check counts what is available.
LEMMA AvailableIs ==
    ASSUME NEW b \in [Side -> [Price -> Seq(Entry)]], NEW t \in OrderTerms
    PROVE  /\ Numbers(Offered(b, t), Within(t))
           /\ SumFunctionOnSet(Offered(b, t),
                  {p \in Price : b[Opposite(t.side)][p] # <<>> /\ Crosses(t, p)})
                = Available(b, t)
<1> DEFINE s == Opposite(t.side)
           f == Offered(b, t)
           S == {p \in Price : b[s][p] # <<>> /\ Crosses(t, p)}
<1>1. s \in Side /\ \A p \in Price : b[s][p] \in Seq(Entry)
  BY DEF Opposite, Side, OrderTerms
<1>2. \A p \in Price : f[p] = Queued(b[s][p])
  BY DEF Offered
<1>3. \A p \in Price : f[p] \in Int
  BY <1>1, <1>2, QueuedTerms
<1>4. IsFiniteSet(Price)
  BY BoundsAssumption, FS_Interval DEF Price
<1>5. Numbers(f, Within(t))
  BY <1>3, <1>4, FS_Subset DEF Numbers, Within
<1>6. \A p \in Within(t) \ S : f[p] = 0
  <2>1. \A p \in Within(t) \ S : b[s][p] = <<>> /\ p \in Price
    BY DEF Within
  <2>2. Queued(<<>>) = 0
    <3>1. 1..Len(<<>>) = {}
      OBVIOUS
    <3> QED BY <3>1, SumEmpty DEF Queued
  <2> QED BY <1>2, <2>1, <2>2
<1>7. S \in SUBSET Within(t)
  BY DEF Within
<1> HIDE DEF f, S
<1>8. SumFunctionOnSet(f, Within(t)) = SumFunctionOnSet(f, S)
  BY <1>5, <1>6, <1>7, SumSupport
<1> QED BY <1>5, <1>8 DEF f, S, Available

\* A level that loses n lots leaves n fewer available.
LEMMA AvailableChange ==
    ASSUME NEW b \in [Side -> [Price -> Seq(Entry)]], NEW c \in [Side -> [Price -> Seq(Entry)]],
           NEW t \in OrderTerms, NEW p \in Within(t), NEW n \in Int,
           Queued(c[Opposite(t.side)][p]) = Queued(b[Opposite(t.side)][p]) - n,
           \A r \in Price : r # p => c[Opposite(t.side)][r] = b[Opposite(t.side)][r]
    PROVE  Available(b, t) \in Int /\ Available(c, t) = Available(b, t) - n
<1> DEFINE f == Offered(b, t)
           g == Offered(c, t)
<1>1. Numbers(f, Within(t)) /\ Numbers(g, Within(t))
  BY AvailableIs
<1>2. p \in Price /\ \A r \in Within(t) : r \in Price
  BY DEF Within
<1>3. g[p] = f[p] - n /\ \A r \in Within(t) \ {p} : f[r] = g[r]
  BY <1>2 DEF Offered
<1> HIDE DEF f, g
<1>4. f[p] \in Int /\ g[p] \in Int
  BY <1>1 DEF Numbers
<1>5. SumFunctionOnSet(g, Within(t)) = SumFunctionOnSet(f, Within(t)) - f[p] + g[p]
  BY <1>1, <1>3, <1>4, SumChange
<1>6. SumFunctionOnSet(f, Within(t)) \in Int
  BY <1>1, SumType
<1> QED BY <1>3, <1>4, <1>5, <1>6 DEF f, g, Available

\* What the check of match() reads is what is available in the book.
LEMMA CrossingIsAvailable ==
    ASSUME NEW t \in OrderTerms, TypeOK
    PROVE  CrossingQuantity(t) = Available(book, t)
<1> DEFINE s == Opposite(t.side)
           L(p) == SumFunction([i \in 1..Len(book[s][p]) |-> Left(book[s][p][i])])
<1>1. {p \in Levels(s) : Crosses(t, p)} = {p \in Price : book[s][p] # <<>> /\ Crosses(t, p)}
  BY DEF Levels
<1>2. \A p \in Price : L(p) = Queued(book[s][p])
  BY DEF SumFunction, Queued
<1>3. [p \in Price |-> L(p)] = Offered(book, t)
  BY <1>2 DEF Offered
<1>4. CrossingQuantity(t)
        = SumFunctionOnSet([p \in Price |-> L(p)], {p \in Levels(s) : Crosses(t, p)})
  BY DEF CrossingQuantity, SideQuantity, LevelQuantity
<1> HIDE DEF L
<1> QED BY <1>1, <1>3, <1>4, AvailableIs DEF TypeOK
\* As long as a fill-or-kill order is matched, the levels within its limit have
\* what it still wants: the check is made once, and nothing else takes from the
\* book meanwhile.
StillFillable ==
    /\ AllOrNothing
    /\ pc \in {"match", "pop"} /\ Asked.type = "limit" /\ Asked.tif = "FOK" =>
          Available(book, Asked) >= Asked.quantity - taker.filled

\* What an execution gives the taker it takes from what is available, and the
\* maker that is popped had nothing left.
LEMMA StillFillableNext ==
    TypeOK /\ FilledAtFront /\ StillFillable /\ [Next]_vars => StillFillable'
<1> SUFFICES ASSUME TypeOK, FilledAtFront, StillFillable, [Next]_vars
             PROVE  StillFillable'
  OBVIOUS
<1>0. book \in [Side -> [Price -> Seq(Entry)]] /\ book' \in [Side -> [Price -> Seq(Entry)]]
  BY TypeNext DEF TypeOK
<1>1. ASSUME NEW o \in OrderId, Receive(o)
      PROVE  StillFillable'
  <2>1. /\ taker'.id = o /\ taker'.filled = 0 /\ book' = book /\ terms' = terms
        /\ pc' = IF Refused(terms[o]) THEN "done" ELSE "match"
    BY <1>1 DEF Receive
  <2>2. Asked' = terms[o] /\ terms[o] \in OrderTerms /\ terms[o].quantity \in Qty
    BY <2>1, TermsAssumption DEF Asked, TypeOK, OrderTerms
  <2>3. ASSUME pc' = "match", terms[o].type = "limit", terms[o].tif = "FOK"
        PROVE  Available(book, terms[o]) >= terms[o].quantity - 0
    <3>1. ~ (CrossingQuantity(terms[o]) < terms[o].quantity)
      BY <2>1, <2>3 DEF Refused, Unfillable
    <3>2. CrossingQuantity(terms[o]) = Available(book, terms[o])
      BY <2>2, CrossingIsAvailable
    <3>3. Available(book, terms[o]) \in Int
      BY <1>0, <2>2, AvailableIs, SumType DEF Available
    <3> QED BY <2>2, <3>1, <3>2, <3>3, BoundsAssumption DEF Qty
  <2> QED BY <2>1, <2>2, <2>3 DEF StillFillable, AllOrNothing
<1>2. ASSUME NEW p \in Price, Execute(p)
      PROVE  StillFillable'
  <2>1. PICK qty \in Qty : Executed(p, qty)
    BY <1>2, ExecutedQuantity
  <2>2. PICK t \in OrderTerms : t = Asked
    BY <2>1, InHand DEF Executed
  <2> DEFINE s == Opposite(t.side)
  <2>3. /\ s \in Side /\ book[s][p] \in Seq(Entry) /\ book[s][p] # <<>>
        /\ Len(book'[s][p]) = Len(book[s][p])
        /\ \A i \in 1..Len(book[s][p]) : i # 1 => book'[s][p][i] = book[s][p][i]
        /\ Left(book'[s][p][1]) = Left(book[s][p][1]) - qty
        /\ \A r \in Price : r # p => book'[s][r] = book[s][r]
        /\ Asked' = t
    <3>1. IsBest(s, p) /\ s \in Side
      BY <2>1, <2>2, AfterExecution DEF Executed
    <3>2. book[s][p] # <<>>
      BY <3>1, BestMaker
    <3> QED BY <2>1, <2>2, <3>2, AfterExecution
  <2>4. /\ taker'.filled = taker.filled + qty /\ taker.filled \in Int /\ t.quantity \in Int
        /\ pc = "match" /\ pc' \in {"match", "pop"} /\ p \in Within(t) /\ qty \in Int
    <3>1. p \in Within(t)
      BY <1>2, <2>2 DEF Execute, CanTrade, Within
    <3> QED BY <2>1, <2>2, <3>1, InHand, BoundsAssumption DEF Executed, Qty
  <2>5. book'[s][p] \in Seq(Entry)
    BY <1>0, <2>3
  <2>6. Queued(book'[s][p]) = Queued(book[s][p]) - qty
    BY <2>3, <2>4, <2>5, QueuedFilled
  <2>7. Available(book, t) \in Int /\ Available(book', t) = Available(book, t) - qty
    BY <1>0, <2>3, <2>4, <2>6, AvailableChange
  <2>8. t.type = "limit" /\ t.tif = "FOK" => Available(book, t) >= t.quantity - taker.filled
    BY <2>2, <2>4 DEF StillFillable
  <2>9. t.type = "limit" /\ t.tif = "FOK" => Available(book', t) >= t.quantity - taker'.filled
    BY <2>4, <2>7, <2>8
  <2>10. Available(book, Asked)' = Available(book', t)
    BY <2>3
  <2> QED BY <2>3, <2>4, <2>9, <2>10 DEF StillFillable, AllOrNothing
<1>3. ASSUME NEW p \in Price, PopFilled(p)
      PROVE  StillFillable'
  <2>1. PICK t \in OrderTerms : t = Asked
    BY <1>3, InHand DEF PopFilled
  <2> DEFINE s == Opposite(t.side)
  <2>2. /\ pc = "pop" /\ pc' = "match" /\ IsBest(s, p) /\ Asked' = t /\ taker' = taker
        /\ book' = [book EXCEPT ![s][p] = Tail(book[s][p])]
    BY <1>3, <2>1 DEF PopFilled, Asked
  <2>3. s \in Side /\ book[s][p] \in Seq(Entry) /\ book[s][p] # <<>>
    BY <2>1, <2>2, InHand, BestMaker
  <2>4. Left(book[s][p][1]) = 0
    <3>1. Head(book[s][p]) = book[s][p][1]
      BY <2>3
    <3>2. Left(Head(book[s][p])) = 0
      BY <2>1, <2>2 DEF FilledAtFront
    <3> QED BY <3>1, <3>2
  <2>5. /\ book'[s][p] = Tail(book[s][p])
        /\ \A r \in Price : r # p => book'[s][r] = book[s][r]
    BY <1>0, <2>2, <2>3
  <2>6. Queued(book'[s][p]) = Queued(book[s][p])
    BY <2>3, <2>4, <2>5, QueuedTail
  <2>7. Available(book', t) = Available(book, t)
    <3>1. CASE p \in Within(t)
      <4>1. Queued(book[s][p]) \in Int
        BY <2>3, QueuedTerms
      <4>2. PICK none \in Int : none = 0
        OBVIOUS
      <4>3. Queued(book'[s][p]) = Queued(book[s][p]) - none
        BY <2>6, <4>1, <4>2
      <4>4. Available(book, t) \in Int /\ Available(book', t) = Available(book, t) - none
        BY <1>0, <2>5, <3>1, <4>3, AvailableChange
      <4> QED BY <4>2, <4>4
    <3>2. CASE p \notin Within(t)
      <4>1. \A r \in Within(t) : Offered(book, t)[r] = Offered(book', t)[r]
        BY <2>5, <3>2 DEF Offered, Within
      <4>2. Numbers(Offered(book, t), Within(t))
        BY <1>0, AvailableIs
      <4> QED BY <4>1, <4>2, SumSame DEF Available
    <3> QED BY <3>1, <3>2
  <2>8. t.type = "limit" /\ t.tif = "FOK" => Available(book', t) >= t.quantity - taker'.filled
    BY <2>1, <2>2, <2>7 DEF StillFillable
  <2>9. Available(book, Asked)' = Available(book', t)
    BY <2>2
  <2> QED BY <2>2, <2>8, <2>9 DEF StillFillable, AllOrNothing
<1>4. CASE Rest
  <2>1. ~ (Asked'.type = "limit" /\ Asked'.tif = "FOK") /\ pc' = "done"
    BY <1>4, InHand DEF Rest, Rests, Asked
  <2> QED BY <2>1 DEF StillFillable, AllOrNothing
<1>5. CASE Discard
  <2>1. /\ pc = "match" /\ pc' = "done" /\ taker.filled < Asked.quantity
        /\ ~ \E p \in Price : CanTrade(p)
    BY <1>5 DEF Discard, Unfilled
  <2>2. PICK t \in OrderTerms : t = Asked
    BY <2>1, InHand
  <2>3. \A p \in Price : book[Opposite(t.side)][p] # <<>> => ~ Crosses(t, p)
    BY <2>1, <2>2, NothingCrosses
  <2>4. {p \in Price : book[Opposite(t.side)][p] # <<>> /\ Crosses(t, p)} = {}
    BY <2>3
  <2>5. Available(book, t) = 0
    BY <1>0, <2>4, AvailableIs, SumEmpty
  <2>6. t.quantity \in Int /\ taker.filled \in Int
    BY <2>1, <2>2, InHand, BoundsAssumption DEF Qty
  <2>7. ~ (t.type = "limit" /\ t.tif = "FOK")
    BY <2>1, <2>2, <2>5, <2>6 DEF StillFillable
  <2>8. Asked' = t
    BY <1>5, <2>1, <2>2, InHand DEF Discard, Asked
  <2> QED BY <2>1, <2>7, <2>8 DEF StillFillable, AllOrNothing
<1>6. CASE Complete
  <2>1. pc' = "done" /\ taker'.filled = Asked.quantity /\ Asked' = Asked
    BY <1>6, InHand DEF Complete, Asked
  <2> QED BY <2>1 DEF StillFillable, AllOrNothing
<1>7. CASE Return
  BY <1>7 DEF Return, StillFillable, AllOrNothing
<1>8. ASSUME NEW o \in OrderId, Cancel(o)
      PROVE  StillFillable'
  BY <1>8 DEF Cancel, StillFillable, AllOrNothing
<1>9. CASE UNCHANGED vars
  BY <1>9 DEF vars, StillFillable, AllOrNothing, Asked
<1> QED BY <1>1, <1>2, <1>3, <1>4, <1>5, <1>6, <1>7, <1>8, <1>9 DEF Next

\* Every finished order got what its instructions say: fill-or-kill is all or
\* nothing, post-only takes nothing, and what is good till cancelled rests.
THEOREM InstructionsKept == Spec => []InstructionsHonoured
<1>1. Init => StillFillable
  BY DEF Init, StillFillable, AllOrNothing
<1>2. Spec => []StillFillable
  BY <1>1, StillFillableNext, TypeCorrect, AlwaysFilledAtFront, PTL DEF Spec
<1>3. StillFillable /\ PostOnlyTakesNothing /\ RemainderRests => InstructionsHonoured
  BY DEF StillFillable, InstructionsHonoured
<1> QED BY <1>2, <1>3, PostOnlyHonoured, RemaindersRest, PTL
=============================================================================
