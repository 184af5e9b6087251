--------------------------- MODULE EngineProofs ---------------------------
(***************************************************************************)
(* Theorems about Engine, for every set of orders and commands, any terms, *)
(* batch size, number of snapshots, crashes and lost replies.              *)
(***************************************************************************)
EXTENDS Engine, OrderBookProofs

-----------------------------------------------------------------------------
(* Types. *)

\* What the place of the command thread implies for match() and the batch.
Staged ==
    /\ stage = "match" => pc \in {"match", "pop", "done"}
    /\ stage \in {"accept", "trades"} => pc = "done"
    /\ stage \in {"loop", "cancel", "canceled", "ack"} => pc = "idle"
    /\ stage # "loop" => batch # <<>>
    /\ stage # "trades" => sent = 0
    /\ pc = "idle" => trades = <<>>

Books  == [Side -> [Price -> Seq(Entry)]]
Copies == [phase: {"asleep", "bids", "copied", "truncated"}, book: Books]
Files  == [state: {"none", "empty", "whole"}, book: Books]
Events == [accepted: BOOLEAN, traded: Nat, outside: BOOLEAN, outcomes: Seq(Outcome)]

EngineTypes ==
    EngineTypeOK /\ Staged /\ snap \in Copies /\ disk \in Files

\* The command in hand is the head of the batch.
LEMMA CommandInHand ==
    ASSUME EngineTypes, batch # <<>>
    PROVE  /\ InHandCommand \in Command
           /\ InHandCommand.op \in {"place", "cancel"}
           /\ InHandCommand.order \in OrderId
           /\ Tail(batch) \in Seq(Command)
<1>1. batch \in Seq(Command)
  BY DEF EngineTypes, EngineTypeOK
<1>2. InHandCommand \in Command /\ Tail(batch) \in Seq(Command)
  BY <1>1, HeadTailProperties DEF InHandCommand
<1> QED BY <1>2, EngineAssumption

\* What the command thread does to the book it does by match() and cancel().
LEMMA BookSteps ==
    ASSUME EngineTypes,
           BeginPlace \/ Match \/ PublishOutcome \/ RemoveResting
    PROVE  [Next]_vars
<1>1. CASE BeginPlace
  BY <1>1, CommandInHand DEF BeginPlace, Next
<1>2. CASE Match
  BY <1>2 DEF Match, Next
<1>3. CASE PublishOutcome
  BY <1>3 DEF PublishOutcome, Next
<1>4. CASE RemoveResting
  <2>1. batch # <<>>
    BY <1>4 DEF RemoveResting, EngineTypes, Staged
  <2> QED BY <1>4, <2>1, CommandInHand DEF RemoveResting, Next
<1> QED BY <1>1, <1>2, <1>3, <1>4

\* The other steps leave it alone, but for a restart and the branch that
\* "should not happen".
Restart(bk) == StartWith(bk) /\ (bk = book \/ bk = disk.book) /\ bk \in Books

\* What the engine process can do to its book: a step of match() or cancel(), the
\* removal of a maker with nothing left, a restart from a book, or nothing.
LEMMA OtherSteps ==
    ASSUME EngineTypes, [EngineNext]_allVars
    PROVE  \/ BeginPlace \/ Match \/ PublishOutcome \/ RemoveResting
           \/ DropExhausted
           \/ (\E bk \in Books : Restart(bk)) /\ (CrashRestart \/ Shutdown)
           \/ UNCHANGED vars
<1>1. book \in Books /\ disk.book \in Books
  BY DEF EngineTypes, EngineTypeOK, TypeOK, Books, Files
<1>2. CASE CrashRestart
  BY <1>1, <1>2 DEF CrashRestart, Restart
<1>3. CASE Shutdown
  BY <1>1, <1>3 DEF Shutdown, Restart
<1>4. CASE CopyBids \/ CopyAsks \/ Truncate \/ Write
  BY <1>4 DEF CopyBids, CopyAsks, Truncate, Write
<1>5. CASE ReadGroup \/ AskMarkPrice \/ PublishAccepted \/ PublishTrade \/ BeginCancel
  BY <1>5 DEF ReadGroup, AskMarkPrice, PublishAccepted, PublishTrade, BeginCancel
<1>6. CASE NothingToCancel \/ PublishCanceled \/ Acknowledge \/ LoseReply
  BY <1>6 DEF NothingToCancel, PublishCanceled, Acknowledge, LoseReply
<1>7. CASE UNCHANGED allVars
  BY <1>7 DEF allVars
<1> QED
  BY <1>2, <1>3, <1>4, <1>5, <1>6, <1>7 DEF EngineNext, CommandThread, SnapshotThread

\* restoreState() puts each order at a place or nowhere.
LEMMA IndexOfType ==
    ASSUME NEW bk
    PROVE  IndexOf(bk) \in [OrderId -> Place \union {Nowhere}]
  BY DEF IndexOf

\* The maker with nothing left is the front of the best opposite level.
LEMMA ExhaustedMaker ==
    ASSUME EngineTypes, DropExhausted
    PROVE  \E s \in Side, p \in Price :
              /\ s = Opposite(Asked.side) /\ IsBest(s, p)
              /\ book[s][p] \in Seq(Entry) /\ book[s][p] # <<>>
              /\ Head(book[s][p]) \in Entry /\ Left(Head(book[s][p])) <= 0
              /\ book' = [book EXCEPT ![s][p] = Tail(book[s][p])]
              /\ index' \in {index, [index EXCEPT ![Head(book[s][p]).id] = Nowhere]}
<1> DEFINE s == Opposite(Asked.side)
<1>1. /\ TypeOK /\ pc = "match"
      /\ \E p \in Price : /\ IsBest(s, p) /\ Left(Head(book[s][p])) <= 0
                          /\ book' = [book EXCEPT ![s][p] = Tail(book[s][p])]
                          /\ index' \in {index, Forget(Head(book[s][p]).id)}
  BY DEF DropExhausted, CanTrade, EngineTypes, EngineTypeOK
<1>2. s \in Side
  BY <1>1, InHand
<1> HIDE DEF s
<1>3. PICK p \in Price : /\ IsBest(s, p) /\ Left(Head(book[s][p])) <= 0
                         /\ book' = [book EXCEPT ![s][p] = Tail(book[s][p])]
                         /\ index' \in {index, Forget(Head(book[s][p]).id)}
  BY <1>1
<1>4. book[s][p] \in Seq(Entry) /\ book[s][p] # <<>> /\ Head(book[s][p]) \in Entry
  BY <1>1, <1>2, <1>3, BestMaker
<1> QED BY <1>2, <1>3, <1>4 DEF Forget, s

\* Every step keeps the types of the book, a restart from any file included.
LEMMA BookTypesNext == EngineTypes /\ [EngineNext]_allVars => TypeOK'
<1> SUFFICES ASSUME EngineTypes, [EngineNext]_allVars
             PROVE  TypeOK'
  OBVIOUS
<1>0. TypeOK
  BY DEF EngineTypes, EngineTypeOK
<1>1. CASE BeginPlace \/ Match \/ PublishOutcome \/ RemoveResting
  BY <1>0, <1>1, BookSteps, TypeNext
<1>2. CASE DropExhausted
  <2>1. PICK s \in Side, p \in Price :
           /\ book[s][p] \in Seq(Entry) /\ book[s][p] # <<>>
           /\ Head(book[s][p]) \in Entry
           /\ book' = [book EXCEPT ![s][p] = Tail(book[s][p])]
           /\ index' \in {index, [index EXCEPT ![Head(book[s][p]).id] = Nowhere]}
    BY <1>2, ExhaustedMaker
  <2>2. Tail(book[s][p]) \in Seq(Entry)
    BY <2>1, HeadTailProperties
  <2>3. book' \in [Side -> [Price -> Seq(Entry)]]
    BY <1>0, <2>1, <2>2 DEF TypeOK
  <2>4. index' \in [OrderId -> Place \union {Nowhere}]
    BY <1>0, <2>1 DEF TypeOK
  <2>5. UNCHANGED <<terms, deliveries, taker, trades, pc>>
    BY <1>2 DEF DropExhausted
  <2> QED BY <1>0, <2>3, <2>4, <2>5 DEF TypeOK
<1>3. ASSUME NEW bk \in Books, Restart(bk)
      PROVE  TypeOK'
  BY <1>0, <1>3, IndexOfType DEF Restart, StartWith, TypeOK, Books
<1>4. CASE UNCHANGED vars
  BY <1>0, <1>4, TypeNext
<1> QED BY <1>1, <1>2, <1>3, <1>4, OtherSteps

\* What each event says of each order.
LEMMA PublishedTypes ==
    ASSUME EngineTypes
    PROVE  /\ published \in [OrderId -> Events]
           /\ \A o \in OrderId : /\ published[o] \in Events
                                 /\ published[o].traded \in Nat
                                 /\ published[o].outcomes \in Seq(Outcome)
                                 /\ published[o].accepted \in BOOLEAN
                                 /\ published[o].outside \in BOOLEAN
  BY DEF EngineTypes, EngineTypeOK, Events

\* A trade of the order in hand names two orders and a quantity.
LEMMA TradeOf ==
    ASSUME EngineTypes, NEW i \in 1..Len(trades)
    PROVE  /\ trades[i] \in Trade
           /\ trades[i].maker \in OrderId /\ trades[i].taker \in OrderId
           /\ trades[i].quantity \in Nat /\ trades[i].quantity > 0
<1>1. trades \in Seq(Trade)
  BY DEF EngineTypes, EngineTypeOK, TypeOK
<1>2. trades[i] \in Trade
  BY <1>1, ElementOfSeq
<1> QED BY <1>2, BoundsAssumption DEF Trade, Qty

\* ORDER_ACCEPTED changes what is said of the order in hand only.
LEMMA AcceptedSaid ==
    ASSUME EngineTypes, PublishAccepted
    PROVE  /\ published' \in [OrderId -> Events]
           /\ taker.id \in OrderId
           /\ published'[taker.id] = [published[taker.id] EXCEPT !.accepted = TRUE]
           /\ \A o \in OrderId \ {taker.id} : published'[o] = published[o]
<1>1. published \in [OrderId -> Events]
  BY PublishedTypes
<1>2. taker.id \in OrderId
  BY InHand DEF PublishAccepted, EngineTypes, EngineTypeOK, Staged
<1>3. published' = [published EXCEPT ![taker.id] = [published[taker.id] EXCEPT !.accepted = TRUE]]
  BY DEF PublishAccepted
<1>4. [published[taker.id] EXCEPT !.accepted = TRUE] \in Events
  BY <1>1, <1>2 DEF Events
<1> QED BY <1>1, <1>2, <1>3, <1>4

\* n lots of an order are said to have traded.
LEMMA TradedSaid ==
    ASSUME NEW pub \in [OrderId -> Events], NEW o \in OrderId, NEW n \in Nat
    PROVE  /\ Traded(o, n, pub) \in [OrderId -> Events]
           /\ Traded(o, n, pub)[o] = [pub[o] EXCEPT !.traded = pub[o].traded + n]
           /\ \A x \in OrderId \ {o} : Traded(o, n, pub)[x] = pub[x]
<1>1. Traded(o, n, pub) = [pub EXCEPT ![o] = [pub[o] EXCEPT !.traded = pub[o].traded + n]]
  BY DEF Traded
<1>2. [pub[o] EXCEPT !.traded = pub[o].traded + n] \in Events
  <2>1. pub[o] \in Events /\ pub[o].traded + n \in Nat
    BY DEF Events
  <2> QED BY <2>1 DEF Events
<1> QED BY <1>1, <1>2

\* The final events of an order are outcomes, whichever branch sends them.
LEMMA OutcomeType ==
    ASSUME EngineTypes
    PROVE  OutcomeOf \in Seq(Outcome)
<1>1. OutcomeOf \in {<<>>, <<"filled">>, <<"rejected">>, <<"canceled">>}
  BY DEF OutcomeOf
<1>2. "filled" \in Outcome /\ "rejected" \in Outcome /\ "canceled" \in Outcome
  BY DEF Outcome
<1>3. /\ <<>> \in Seq(Outcome) /\ <<"filled">> \in Seq(Outcome)
      /\ <<"rejected">> \in Seq(Outcome) /\ <<"canceled">> \in Seq(Outcome)
  BY <1>2
<1> QED BY <1>1, <1>3

\* The last event of an order: its outcome and what was filled outside.
LEMMA OutcomeSaid ==
    ASSUME EngineTypes, PublishOutcome
    PROVE  /\ published' \in [OrderId -> Events]
           /\ taker.id \in OrderId
           /\ published'[taker.id].accepted = published[taker.id].accepted
           /\ published'[taker.id].traded = published[taker.id].traded + external
           /\ published'[taker.id].outside = (external > 0)
           /\ published'[taker.id].outcomes = published[taker.id].outcomes \o OutcomeOf
           /\ \A o \in OrderId \ {taker.id} : published'[o] = published[o]
<1> DEFINE old == published[taker.id]
           new == [old EXCEPT !.outcomes = old.outcomes \o OutcomeOf, !.outside = external > 0]
           pub == [published EXCEPT ![taker.id] = new]
<1>1. published \in [OrderId -> Events]
  BY PublishedTypes
<1>2. taker.id \in OrderId
  BY InHand DEF PublishOutcome, EngineTypes, EngineTypeOK, Staged
<1>3. old \in Events /\ external \in Nat
  BY <1>1, <1>2, BoundsAssumption DEF EngineTypes, EngineTypeOK
<1>4. old.outcomes \o OutcomeOf \in Seq(Outcome)
  <2>1. old.outcomes \in Seq(Outcome) /\ OutcomeOf \in Seq(Outcome)
    BY <1>3, OutcomeType DEF Events
  <2> QED BY <2>1, ConcatProperties
<1>5. /\ new \in Events
      /\ new.accepted = old.accepted /\ new.traded = old.traded
      /\ new.outside = (external > 0) /\ new.outcomes = old.outcomes \o OutcomeOf
  <2> HIDE DEF old
  <2> DEFINE oc  == old.outcomes \o OutcomeOf
             mid == [old EXCEPT !.outcomes = oc]
             out == (external > 0)
  <2>1. out \in BOOLEAN
    OBVIOUS
  <2>2. new = [mid EXCEPT !.outside = out]
    BY <1>3
  <2> HIDE DEF oc, out
  <2>3. /\ mid \in Events /\ mid.accepted = old.accepted /\ mid.traded = old.traded
        /\ mid.outcomes = oc
    BY <1>3, <1>4 DEF Events, oc
  <2> HIDE DEF mid
  <2>4. /\ [mid EXCEPT !.outside = out] \in Events
        /\ [mid EXCEPT !.outside = out].accepted = mid.accepted
        /\ [mid EXCEPT !.outside = out].traded = mid.traded
        /\ [mid EXCEPT !.outside = out].outside = out
        /\ [mid EXCEPT !.outside = out].outcomes = mid.outcomes
    BY <2>1, <2>3 DEF Events
  <2> HIDE DEF new
  <2> QED BY <2>2, <2>3, <2>4 DEF oc, out
<1>6. published' = Traded(taker.id, external, pub)
  BY DEF PublishOutcome
<1> HIDE DEF new, old
<1>7. pub \in [OrderId -> Events] /\ pub[taker.id] = new
      /\ \A o \in OrderId \ {taker.id} : pub[o] = published[o]
  BY <1>1, <1>2, <1>5
<1> HIDE DEF pub
<1>8. published' \in [OrderId -> Events]
      /\ published'[taker.id] = [new EXCEPT !.traded = new.traded + external]
      /\ \A o \in OrderId \ {taker.id} : published'[o] = published[o]
  BY <1>2, <1>3, <1>6, <1>7, TradedSaid
<1>9. /\ published'[taker.id].accepted = new.accepted
      /\ published'[taker.id].traded = new.traded + external
      /\ published'[taker.id].outside = new.outside
      /\ published'[taker.id].outcomes = new.outcomes
  BY <1>5, <1>8 DEF Events
<1> QED BY <1>2, <1>5, <1>8, <1>9 DEF old

\* A trade is said of both its orders.
LEMMA TradeSaid ==
    ASSUME EngineTypes, PublishTrade
    PROVE  LET tr == trades[sent + 1]
           IN  /\ sent + 1 \in 1..Len(trades) /\ sent' = sent + 1
               /\ published' \in [OrderId -> Events]
               /\ \A o \in OrderId :
                     /\ published'[o].accepted = published[o].accepted
                     /\ published'[o].outside = published[o].outside
                     /\ published'[o].outcomes = published[o].outcomes
                     /\ o \notin {tr.maker, tr.taker} => published'[o] = published[o]
               /\ tr.maker # tr.taker =>
                     /\ published'[tr.maker].traded = published[tr.maker].traded + tr.quantity
                     /\ published'[tr.taker].traded = published[tr.taker].traded + tr.quantity
<1> DEFINE tr  == trades[sent + 1]
           pub == Traded(tr.taker, tr.quantity, published)
<1>1. published \in [OrderId -> Events]
  BY PublishedTypes
<1>2. sent + 1 \in 1..Len(trades) /\ sent' = sent + 1
  BY DEF PublishTrade, EngineTypes, EngineTypeOK
<1>3. tr.maker \in OrderId /\ tr.taker \in OrderId /\ tr.quantity \in Nat
  BY <1>2, TradeOf
<1>4. published' = Traded(tr.maker, tr.quantity, pub)
  BY DEF PublishTrade
<1> HIDE DEF tr
<1>5. /\ pub \in [OrderId -> Events]
      /\ pub[tr.taker] = [published[tr.taker] EXCEPT !.traded = published[tr.taker].traded + tr.quantity]
      /\ \A x \in OrderId \ {tr.taker} : pub[x] = published[x]
  BY <1>1, <1>3, TradedSaid
<1> HIDE DEF pub
<1>6. /\ published' \in [OrderId -> Events]
      /\ published'[tr.maker] = [pub[tr.maker] EXCEPT !.traded = pub[tr.maker].traded + tr.quantity]
      /\ \A x \in OrderId \ {tr.maker} : published'[x] = pub[x]
  BY <1>3, <1>4, <1>5, TradedSaid
<1>0. \A e \in Events, n \in Nat : /\ [e EXCEPT !.traded = n].accepted = e.accepted
                                  /\ [e EXCEPT !.traded = n].outside = e.outside
                                  /\ [e EXCEPT !.traded = n].outcomes = e.outcomes
                                  /\ [e EXCEPT !.traded = n].traded = n
                                  /\ e.traded \in Nat
  BY DEF Events
<1>7. ASSUME NEW o \in OrderId
      PROVE  /\ pub[o].accepted = published[o].accepted
             /\ pub[o].outside = published[o].outside
             /\ pub[o].outcomes = published[o].outcomes
  <2>1. published[o] \in Events
    BY <1>1
  <2>2. o = tr.taker => published[o].traded + tr.quantity \in Nat
    BY <1>0, <1>3, <2>1
  <2>3. pub[o] = published[o] \/ \E n \in Nat : pub[o] = [published[o] EXCEPT !.traded = n]
    BY <1>5, <2>2
  <2> QED
    <3>1. CASE pub[o] = published[o]
      BY <3>1
    <3>2. CASE \E n \in Nat : pub[o] = [published[o] EXCEPT !.traded = n]
      <4>1. PICK n \in Nat : pub[o] = [published[o] EXCEPT !.traded = n]
        BY <3>2
      <4> DEFINE e == published[o]
      <4>2. e \in Events /\ pub[o] = [e EXCEPT !.traded = n]
        BY <2>1, <4>1
      <4> HIDE DEF e
      <4>3. /\ [e EXCEPT !.traded = n].accepted = e.accepted
            /\ [e EXCEPT !.traded = n].outside = e.outside
            /\ [e EXCEPT !.traded = n].outcomes = e.outcomes
        BY <1>0, <4>2
      <4>4. pub[o].accepted = e.accepted /\ pub[o].outside = e.outside /\ pub[o].outcomes = e.outcomes
        BY <4>2, <4>3
      <4> QED BY <4>4 DEF e
    <3> QED BY <2>3, <3>1, <3>2
<1>8. ASSUME NEW o \in OrderId
      PROVE  /\ published'[o].accepted = pub[o].accepted
             /\ published'[o].outside = pub[o].outside
             /\ published'[o].outcomes = pub[o].outcomes
  <2>1. pub[o] \in Events
    BY <1>5
  <2>2. o = tr.maker => pub[o].traded + tr.quantity \in Nat
    BY <1>0, <1>3, <2>1
  <2>3. published'[o] = pub[o] \/ \E n \in Nat : published'[o] = [pub[o] EXCEPT !.traded = n]
    BY <1>6, <2>2
  <2> QED
    <3>1. CASE published'[o] = pub[o]
      BY <3>1
    <3>2. CASE \E n \in Nat : published'[o] = [pub[o] EXCEPT !.traded = n]
      <4>1. PICK n \in Nat : published'[o] = [pub[o] EXCEPT !.traded = n]
        BY <3>2
      <4> DEFINE e == pub[o]
      <4>2. e \in Events /\ published'[o] = [e EXCEPT !.traded = n]
        BY <2>1, <4>1
      <4> HIDE DEF e
      <4>3. /\ [e EXCEPT !.traded = n].accepted = e.accepted
            /\ [e EXCEPT !.traded = n].outside = e.outside
            /\ [e EXCEPT !.traded = n].outcomes = e.outcomes
        BY <1>0, <4>2
      <4>4. published'[o].accepted = e.accepted /\ published'[o].outside = e.outside /\ published'[o].outcomes = e.outcomes
        BY <4>2, <4>3
      <4> QED BY <4>4 DEF e
    <3> QED BY <2>3, <3>1, <3>2
<1>9. \A o \in OrderId : o \notin {tr.maker, tr.taker} => published'[o] = published[o]
  BY <1>5, <1>6
<1>10. ASSUME tr.maker # tr.taker
       PROVE  /\ published'[tr.maker].traded = published[tr.maker].traded + tr.quantity
              /\ published'[tr.taker].traded = published[tr.taker].traded + tr.quantity
  <2>1. pub[tr.maker] = published[tr.maker] /\ published'[tr.taker] = pub[tr.taker]
    BY <1>3, <1>5, <1>6, <1>10
  <2>2. published[tr.maker] \in Events /\ published[tr.taker] \in Events
    BY <1>1, <1>3
  <2> QED BY <1>5, <1>6, <2>1, <2>2 DEF Events
<1> QED BY <1>2, <1>6, <1>7, <1>8, <1>9, <1>10 DEF tr

\* ORDER_CANCELED after cancel() adds an outcome to that order only.
LEMMA CanceledSaid ==
    ASSUME EngineTypes, PublishCanceled
    PROVE  LET o == InHandCommand.order
           IN  /\ published' \in [OrderId -> Events]
               /\ o \in OrderId
               /\ published'[o].traded = published[o].traded
               /\ published'[o].outside = published[o].outside
               /\ published'[o].outcomes # <<>>
               /\ \A x \in OrderId \ {o} : published'[x] = published[x]
<1> DEFINE o   == InHandCommand.order
           old == published[o]
           new == [old EXCEPT !.outcomes = Append(old.outcomes, "canceled")]
<1>1. published \in [OrderId -> Events]
  BY PublishedTypes
<1>2. o \in OrderId
  BY CommandInHand DEF PublishCanceled, EngineTypes, Staged
<1>3. published' = [published EXCEPT ![o] = new]
  BY DEF PublishCanceled
<1> HIDE DEF o
<1>4. old \in Events
  BY <1>1, <1>2
<1>5. Append(old.outcomes, "canceled") \in Seq(Outcome) /\ Append(old.outcomes, "canceled") # <<>>
  <2>1. old.outcomes \in Seq(Outcome) /\ "canceled" \in Outcome
    BY <1>4 DEF Events, Outcome
  <2> HIDE DEF old
  <2> QED BY <2>1, AppendProperties
<1>6. new \in Events /\ new.traded = old.traded /\ new.outside = old.outside
      /\ new.outcomes = Append(old.outcomes, "canceled")
  <2> HIDE DEF old
  <2> QED BY <1>4, <1>5 DEF Events
<1> HIDE DEF new
<1>7. published'[o] = new
  BY <1>1, <1>2, <1>3
<1> QED BY <1>1, <1>2, <1>3, <1>5, <1>6, <1>7 DEF o

\* A batch that is read holds new commands, each once.
LEMMA WaitingCommands ==
    ASSUME NEW cmds \in Waiting
    PROVE  /\ cmds \in Seq(Command) /\ cmds # <<>>
           /\ \A i \in 1..Len(cmds) :
                 /\ cmds[i] \in Command /\ fate[cmds[i]] = "new"
                 /\ \A j \in 1..Len(cmds) : cmds[j] = cmds[i] => j = i
           /\ \A c \in Range(cmds) : c \in Command /\ fate[c] = "new"
<1> DEFINE new == {c \in Command : fate[c] = "new"}
<1>1. cmds \in BoundedSeq(new, BatchSize) /\ cmds # <<>> /\ IsInjective(cmds)
  BY DEF Waiting
<1>2. PICK n \in 0..BatchSize : cmds \in [1..n -> new]
  BY <1>1 DEF BoundedSeq, SeqOf
<1>3. cmds \in Seq(new) /\ Len(cmds) = n
  BY <1>2, EngineAssumption
<1>4. \A i \in 1..Len(cmds) : cmds[i] \in new
  BY <1>2, <1>3
<1>5. \A i, j \in 1..Len(cmds) : cmds[j] = cmds[i] => j = i
  <2>1. DOMAIN cmds = 1..Len(cmds)
    BY <1>2, <1>3
  <2> QED BY <1>1, <2>1, Zenon DEF IsInjective
<1>6. cmds \in Seq(Command)
  BY <1>3
<1>7. \A c \in Range(cmds) : c \in new
  BY <1>2 DEF Range
<1> QED BY <1>1, <1>4, <1>5, <1>6, <1>7

\* A step of match() goes on or ends, with the trades it had and at most one more.
LEMMA MatchKeeps ==
    ASSUME EngineTypes, Match
    PROVE  /\ pc' \in {"match", "pop", "done"}
           /\ Len(trades) \in Nat /\ Len(trades') \in Nat /\ Len(trades) <= Len(trades')
           /\ sent = 0 /\ UNCHANGED engineVars
<1>1. trades \in Seq(Trade) /\ TypeOK
  BY DEF EngineTypes, EngineTypeOK, TypeOK
<1>2. ASSUME NEW p \in Price, Execute(p)
      PROVE  /\ pc' \in {"match", "pop", "done"} /\ Len(trades') = Len(trades) + 1
  <2>1. PICK qty \in Qty : Executed(p, qty)
    BY <1>1, <1>2, ExecutedQuantity
  <2> QED BY <1>1, <2>1, AppendProperties DEF Executed
<1>3. ASSUME NEW p \in Price, PopFilled(p)
      PROVE  pc' = "match" /\ trades' = trades
  BY <1>3 DEF PopFilled
<1>4. CASE Rest \/ Discard \/ Complete
  BY <1>1, <1>4 DEF Match, Rest, Discard, Complete, EngineTypes, Staged
<1> QED BY <1>1, <1>2, <1>3, <1>4 DEF Match, EngineTypes, Staged

\* Every step keeps the other types as well.
LEMMA EngineTypesNext == EngineTypes /\ [EngineNext]_allVars => EngineTypes'
<1> SUFFICES ASSUME EngineTypes, [EngineNext]_allVars
             PROVE  EngineTypes'
  OBVIOUS
<1>a. TypeOK /\ TypeOK'
  BY BookTypesNext DEF EngineTypes, EngineTypeOK
<1>b. /\ fate \in [Command -> {"new", "delivered", "acked", "lost"}]
      /\ handled \in [Command -> Nat] /\ batch \in Seq(Command) /\ stage \in Stage
      /\ external \in 0..MaxQty /\ sent \in 0..Len(trades)
      /\ published \in [OrderId -> Events]
      /\ saves \in 0..MaxSaves /\ faults \in 0..MaxFaults
      /\ snap \in Copies /\ disk \in Files /\ Staged
      /\ MaxSaves \in Nat /\ MaxFaults \in Nat /\ MaxQty \in Nat
  BY BoundsAssumption, EngineAssumption DEF EngineTypes, EngineTypeOK, Events
<1>c. book \in Books /\ NoBook \in Books /\ book' \in Books
  BY <1>a DEF TypeOK, Books, NoBook
<1>d. /\ snap.phase \in {"asleep", "bids", "copied", "truncated"} /\ snap.book \in Books
      /\ disk.state \in {"none", "empty", "whole"} /\ disk.book \in Books
      /\ Asleep \in Copies /\ NoFile \in Files
  BY <1>b, <1>c DEF Copies, Files, Asleep, NoFile
<1> DEFINE Rest_ == /\ (fate \in [Command -> {"new", "delivered", "acked", "lost"}])'
                    /\ (handled \in [Command -> Nat])' /\ (batch \in Seq(Command))' /\ (stage \in Stage)'
                    /\ (external \in 0..MaxQty)' /\ (sent \in 0..Len(trades))'
                    /\ (published \in [OrderId -> Events])'
                    /\ (saves \in 0..MaxSaves)' /\ (faults \in 0..MaxFaults)'
                    /\ (snap \in Copies)' /\ (disk \in Files)' /\ Staged'
<1>e. Rest_ => EngineTypes'
  <2>1. Copies = [phase: {"asleep", "bids", "copied", "truncated"}, book: Books]
        /\ Files = [state: {"none", "empty", "whole"}, book: Books]
    BY DEF Copies, Files
  <2> QED BY <1>a, <2>1 DEF EngineTypes, EngineTypeOK, Events
<1>1. CASE ReadGroup
  <2>1. PICK cmds \in Waiting : batch' = cmds /\ fate' = Mark(cmds, "delivered")
    BY <1>1 DEF ReadGroup
  <2>2. cmds \in Seq(Command)
    BY WaitingCommands
  <2> QED BY <1>1, <1>b, <1>e, <2>1, <2>2 DEF ReadGroup, Mark, Staged, vars
<1>2. CASE BeginPlace
  <2>1. InHandCommand \in Command /\ batch # <<>>
    BY <1>2, CommandInHand DEF BeginPlace
  <2>2. handled' \in [Command -> Nat]
    BY <1>2, <1>b, <2>1 DEF BeginPlace, TakeUp
  <2> QED BY <1>2, <1>b, <1>e, <2>1, <2>2 DEF BeginPlace, Receive, Staged, Stage
<1>3. CASE Match
  <2>1. /\ pc' \in {"match", "pop", "done"} /\ Len(trades') \in Nat /\ Len(trades) <= Len(trades')
    BY <1>3, MatchKeeps
  <2> QED BY <1>3, <1>b, <1>e, <2>1 DEF Match, engineVars, Staged
<1>4. CASE DropExhausted
  BY <1>4, <1>b, <1>e DEF DropExhausted, engineVars, Staged
<1>5. CASE AskMarkPrice
  <2>1. external' \in 0..MaxQty
    <3>1. pc # "idle"
      BY <1>5 DEF AskMarkPrice
    <3>2. taker.filled \in 0..MaxQty /\ Asked.quantity \in Qty
      BY <1>a, <3>1, InHand
    <3>3. external' = 0 \/ (taker.filled < Asked.quantity /\ external' = Asked.quantity - taker.filled)
      BY <1>5 DEF AskMarkPrice, FilledOutside
    <3> QED BY <1>b, <3>2, <3>3 DEF Qty
  <2> QED BY <1>5, <1>b, <1>e, <2>1 DEF AskMarkPrice, vars, Staged, Stage
<1>6. CASE PublishAccepted
  BY <1>6, <1>b, <1>e, AcceptedSaid DEF PublishAccepted, vars, Staged, Stage
<1>7. CASE PublishTrade
  <2>1. published' \in [OrderId -> Events] /\ sent' \in 0..Len(trades)
    BY <1>7, <1>b, TradeSaid
  <2> QED BY <1>7, <1>b, <1>e, <2>1 DEF PublishTrade, vars, Staged, Stage
<1>8. CASE PublishOutcome
  <2>1. published' \in [OrderId -> Events] /\ trades' = <<>> /\ pc' = "idle"
    BY <1>8, OutcomeSaid DEF PublishOutcome, Return
  <2>2. Len(trades') = 0 /\ stage' = "ack" /\ batch' = batch /\ sent' = 0 /\ external' = 0
    BY <1>8, <2>1 DEF PublishOutcome
  <2>3. stage = "trades"
    BY <1>8 DEF PublishOutcome
  <2>4. Staged'
    BY <1>b, <2>1, <2>2, <2>3 DEF Staged
  <2>5. UNCHANGED <<fate, handled, snap, disk, saves, faults>>
    BY <1>8 DEF PublishOutcome
  <2> QED BY <1>b, <1>e, <2>1, <2>2, <2>4, <2>5 DEF Stage
<1>9. CASE BeginCancel
  <2>1. InHandCommand \in Command /\ batch # <<>>
    BY <1>9, CommandInHand DEF BeginCancel
  <2>2. handled' \in [Command -> Nat]
    BY <1>9, <1>b, <2>1 DEF BeginCancel, TakeUp
  <2> QED BY <1>9, <1>b, <1>e, <2>1, <2>2 DEF BeginCancel, vars, Staged, Stage
<1>10. CASE RemoveResting \/ NothingToCancel
  BY <1>10, <1>b, <1>e DEF RemoveResting, NothingToCancel, Cancel, vars, Staged, Stage
<1>11. CASE PublishCanceled
  BY <1>11, <1>b, <1>e, CanceledSaid DEF PublishCanceled, vars, Staged, Stage
<1>12. CASE Acknowledge
  <2>1. InHandCommand \in Command /\ Tail(batch) \in Seq(Command)
    BY <1>12, <1>b, CommandInHand DEF Acknowledge, Staged
  <2>2. fate' \in [Command -> {"new", "delivered", "acked", "lost"}]
    BY <1>12, <1>b, <2>1 DEF Acknowledge
  <2> QED BY <1>12, <1>b, <1>e, <2>1, <2>2 DEF Acknowledge, vars, Staged, Stage
<1>13. CASE CopyBids \/ CopyAsks \/ Truncate \/ Write
  <2>1. snap' \in Copies /\ disk' \in Files
    <3>1. /\ [NoBook EXCEPT !["buy"] = book["buy"]] \in Books
          /\ [snap.book EXCEPT !["sell"] = book["sell"]] \in Books
      BY <1>c, <1>d DEF Books, Side
    <3>2. CASE CopyBids
      BY <1>b, <3>1, <3>2 DEF CopyBids, Copies
    <3>3. CASE CopyAsks
      BY <1>b, <3>1, <3>3 DEF CopyAsks, Copies
    <3>4. CASE Truncate
      BY <1>b, <1>c, <3>4 DEF Truncate, Copies, Files
    <3>5. CASE Write
      BY <1>d, <3>5 DEF Write, Files
    <3> QED BY <1>13, <3>2, <3>3, <3>4, <3>5
  <2>2. saves' \in 0..MaxSaves
    BY <1>13, <1>b DEF CopyBids, CopyAsks, Truncate, Write
  <2>3. UNCHANGED <<vars, fate, handled, batch, stage, external, sent, published, faults>>
    BY <1>13 DEF CopyBids, CopyAsks, Truncate, Write
  <2> QED BY <1>b, <1>e, <2>1, <2>2, <2>3 DEF vars, Staged
<1>14. ASSUME NEW bk \in Books, Restart(bk), CrashRestart \/ Shutdown
       PROVE  EngineTypes'
  <2>1. disk' \in Files
    BY <1>14, <1>b, <1>c DEF CrashRestart, Shutdown, Files
  <2>2. saves' \in 0..MaxSaves /\ faults' \in 0..MaxFaults
    BY <1>14, <1>b DEF CrashRestart, Shutdown
  <2>3. fate' \in [Command -> {"new", "delivered", "acked", "lost"}]
    BY <1>14, <1>b DEF CrashRestart, Shutdown, AfterRestart
  <2> QED BY <1>14, <1>b, <1>d, <1>e, <2>1, <2>2, <2>3 DEF Restart, StartWith, Staged, Stage
<1>15. CASE LoseReply
  <2>1. faults' \in 0..MaxFaults
    BY <1>15, <1>b DEF LoseReply
  <2>2. fate' \in [Command -> {"new", "delivered", "acked", "lost"}]
    BY <1>15, <1>b DEF LoseReply, Mark
  <2> QED BY <1>15, <1>b, <1>e, <2>1, <2>2 DEF LoseReply, vars, Staged
<1>16. CASE UNCHANGED allVars
  BY <1>16, <1>b, <1>e DEF allVars, vars, engineVars, Staged
<1>17. CASE CrashRestart \/ Shutdown
  <2>1. PICK bk \in Books : Restart(bk)
    BY <1>17, <1>c, <1>d DEF CrashRestart, Shutdown, Restart
  <2> QED BY <1>14, <1>17, <2>1
<1> QED
  BY <1>1, <1>2, <1>3, <1>4, <1>5, <1>6, <1>7, <1>8, <1>9, <1>10, <1>11, <1>12, <1>13,
     <1>15, <1>16, <1>17 DEF EngineNext, CommandThread, SnapshotThread

\* The types hold of an engine that has read nothing.
LEMMA EngineInitTypes == EngineInit => EngineTypes
<1> SUFFICES ASSUME EngineInit
             PROVE  EngineTypes
  OBVIOUS
<1>1. TypeOK
  BY TypeInit DEF EngineInit
<1>2. NoBook \in Books
  BY DEF NoBook, Books
<1> QED
  BY <1>1, <1>2, BoundsAssumption, EngineAssumption
  DEF EngineInit, Init, EngineTypes, EngineTypeOK, Staged, Stage, Silence, Asleep, NoFile,
      Copies, Files

\* Every variable of the engine keeps its type: what is restored is a book, what
\* is published are events of orders, and no more trades are sent than there are.
THEOREM EngineTypesKept == EngineSpec => []EngineTypeOK
<1>1. EngineTypes => EngineTypeOK
  BY DEF EngineTypes
<1> QED BY <1>1, EngineInitTypes, EngineTypesNext, PTL DEF EngineSpec

-----------------------------------------------------------------------------
(* At most once. *)

\* A command the group has not handed out has not been taken up.
Unread == \A c \in Command : fate[c] = "new" => handled[c] = 0

\* The batch has each of its commands once; only the one in hand may have been
\* taken up.
BatchOnce ==
    \A i \in 1..Len(batch) :
        /\ fate[batch[i]] # "new"
        /\ i > 1 \/ stage = "loop" => handled[batch[i]] = 0
        /\ \A j \in 1..Len(batch) : batch[j] = batch[i] => j = i

HandledOnce == NeverTwice /\ Unread /\ BatchOnce

\* A command is taken up: the one in hand, which has not been before.
LEMMA TakenUp ==
    ASSUME EngineTypes, HandledOnce, BeginPlace \/ BeginCancel
    PROVE  /\ InHandCommand \in Command
           /\ handled[InHandCommand] = 0
           /\ handled'[InHandCommand] = 1
           /\ \A c \in Command \ {InHandCommand} : handled'[c] = handled[c]
           /\ \A i \in 1..Len(batch) : i > 1 => batch[i] # InHandCommand
           /\ fate[InHandCommand] # "new"
           /\ UNCHANGED <<fate, batch>> /\ stage' # "loop"
<1>1. /\ batch # <<>> /\ stage = "loop" /\ TakeUp(InHandCommand)
      /\ UNCHANGED <<fate, batch>> /\ stage' # "loop"
  BY DEF BeginPlace, BeginCancel
<1>2. batch \in Seq(Command) /\ handled \in [Command -> Nat]
  BY DEF EngineTypes, EngineTypeOK
<1>3. 1 \in 1..Len(batch) /\ InHandCommand = batch[1] /\ InHandCommand \in Command
  BY <1>1, <1>2 DEF InHandCommand
<1>4. /\ handled[batch[1]] = 0 /\ fate[batch[1]] # "new"
      /\ \A i \in 1..Len(batch) : batch[i] = batch[1] => i = 1
  BY <1>1, <1>3 DEF HandledOnce, BatchOnce
<1>5. handled' = [handled EXCEPT ![batch[1]] = handled[batch[1]] + 1]
  BY <1>1, <1>3 DEF TakeUp
<1> HIDE DEF InHandCommand
<1> QED BY <1>1, <1>2, <1>3, <1>4, <1>5

\* At most once is kept: only the command at the head of a batch is taken up,
\* and it leaves the batch before the next one is.
LEMMA HandledOnceNext == EngineTypes /\ HandledOnce /\ [EngineNext]_allVars => HandledOnce'
<1> SUFFICES ASSUME EngineTypes, HandledOnce, [EngineNext]_allVars
             PROVE  HandledOnce'
  OBVIOUS
<1>a. /\ batch \in Seq(Command) /\ Len(batch) \in Nat /\ handled \in [Command -> Nat]
      /\ fate \in [Command -> {"new", "delivered", "acked", "lost"}]
      /\ \A i \in 1..Len(batch) : batch[i] \in Command
  BY ElementOfSeq DEF EngineTypes, EngineTypeOK, TypeOK
<1>1. ASSUME BeginPlace \/ BeginCancel
      PROVE  HandledOnce'
  <2>1. NeverTwice' /\ Unread'
    BY <1>1, <1>a, TakenUp DEF HandledOnce, NeverTwice, Unread
  <2>2. BatchOnce'
    <3>1. /\ batch' = batch /\ fate' = fate /\ stage' # "loop"
          /\ \A i \in 1..Len(batch) : i > 1 => handled'[batch[i]] = handled[batch[i]]
      BY <1>1, <1>a, TakenUp
    <3> QED BY <3>1 DEF HandledOnce, BatchOnce
  <2> QED BY <2>1, <2>2 DEF HandledOnce
<1>2. CASE ReadGroup
  <2>1. PICK cmds \in Waiting : batch' = cmds /\ fate' = Mark(cmds, "delivered")
    BY <1>2 DEF ReadGroup
  <2>2. handled' = handled
    BY <1>2 DEF ReadGroup
  <2>3. Unread'
    BY <2>1, <2>2 DEF HandledOnce, Unread, Mark
  <2>4. BatchOnce'
    <3>1. \A i \in 1..Len(cmds) :
             /\ cmds[i] \in Command /\ fate[cmds[i]] = "new"
             /\ \A j \in 1..Len(cmds) : cmds[j] = cmds[i] => j = i
      BY WaitingCommands
    <3>2. \A i \in 1..Len(cmds) : cmds[i] \in Range(cmds)
      BY WaitingCommands DEF Range
    <3>3. \A i \in 1..Len(cmds) : fate'[cmds[i]] = "delivered"
      BY <2>1, <3>1, <3>2 DEF Mark
    <3>4. \A i \in 1..Len(cmds) : handled[cmds[i]] = 0
      BY <3>1 DEF HandledOnce, Unread
    <3> QED BY <2>1, <2>2, <3>1, <3>3, <3>4 DEF BatchOnce
  <2> QED BY <2>2, <2>3, <2>4 DEF HandledOnce, NeverTwice
<1>3. CASE Acknowledge
  <2>1. /\ batch # <<>> /\ batch' = Tail(batch) /\ handled' = handled
        /\ stage' = "loop" /\ fate' = [fate EXCEPT ![InHandCommand] = "acked"]
    BY <1>3 DEF Acknowledge, EngineTypes, Staged
  <2>2. /\ Len(Tail(batch)) = Len(batch) - 1
        /\ \A i \in 1..Len(Tail(batch)) : Tail(batch)[i] = batch[i + 1]
    BY <1>a, <2>1, HeadTailProperties
  <2>3. \A c \in Command : fate'[c] = "new" => fate[c] = "new"
    BY <1>a, <2>1
  <2>4. Unread'
    BY <2>1, <2>3 DEF HandledOnce, Unread
  <2>5. BatchOnce'
    <3> SUFFICES ASSUME NEW i \in 1..Len(batch')
                 PROVE  /\ fate'[batch'[i]] # "new" /\ handled'[batch'[i]] = 0
                        /\ \A j \in 1..Len(batch') : batch'[j] = batch'[i] => j = i
      BY DEF BatchOnce
    <3>1. i + 1 \in 1..Len(batch) /\ i + 1 > 1 /\ batch'[i] = batch[i + 1]
      BY <1>a, <2>1, <2>2
    <3>2. \A j \in 1..Len(batch') : j + 1 \in 1..Len(batch) /\ batch'[j] = batch[j + 1]
      BY <1>a, <2>1, <2>2
    <3>3. /\ fate[batch[i + 1]] # "new" /\ handled[batch[i + 1]] = 0
          /\ \A j \in 1..Len(batch) : batch[j] = batch[i + 1] => j = i + 1
      BY <3>1 DEF HandledOnce, BatchOnce
    <3>4. batch[i + 1] \in Command
      BY <1>a, <3>1
    <3>5. \A j \in 1..Len(batch') : batch'[j] = batch'[i] => j = i
      BY <3>1, <3>2, <3>3
    <3> QED BY <2>1, <2>3, <3>1, <3>3, <3>4, <3>5
  <2> QED BY <2>1, <2>4, <2>5 DEF HandledOnce, NeverTwice
<1>4. CASE CrashRestart \/ Shutdown
  <2>1. batch' = <<>> /\ handled' = handled
    BY <1>4 DEF CrashRestart, Shutdown, StartWith
  <2>2. \A c \in Command : fate'[c] = "new" => fate[c] = "new"
    BY <1>a, <1>4 DEF CrashRestart, Shutdown, AfterRestart
  <2>3. Unread' /\ BatchOnce'
    BY <2>1, <2>2 DEF HandledOnce, Unread, BatchOnce
  <2> QED BY <2>1, <2>3 DEF HandledOnce, NeverTwice
<1>5. CASE LoseReply
  <2>1. batch = <<>> /\ batch' = batch /\ handled' = handled
    BY <1>5 DEF LoseReply
  <2>2. \A c \in Command : fate'[c] = "new" => fate[c] = "new"
    BY <1>a, <1>5 DEF LoseReply, Mark
  <2>3. Unread' /\ BatchOnce'
    BY <2>1, <2>2 DEF HandledOnce, Unread, BatchOnce
  <2> QED BY <2>1, <2>3 DEF HandledOnce, NeverTwice
<1>6. ASSUME UNCHANGED <<fate, handled, batch>>, stage' = "loop" => stage = "loop"
      PROVE  HandledOnce'
  <2>1. Unread' /\ BatchOnce'
    BY <1>6 DEF HandledOnce, Unread, BatchOnce
  <2> QED BY <1>6, <2>1 DEF HandledOnce, NeverTwice
<1>7. CASE Match
  BY <1>6, <1>7 DEF Match, engineVars
<1>8. CASE DropExhausted \/ AskMarkPrice \/ PublishAccepted \/ PublishTrade
  BY <1>6, <1>8 DEF DropExhausted, AskMarkPrice, PublishAccepted, PublishTrade, engineVars
<1>9. CASE PublishOutcome \/ RemoveResting \/ NothingToCancel \/ PublishCanceled
  BY <1>6, <1>9 DEF PublishOutcome, RemoveResting, NothingToCancel, PublishCanceled
<1>10. CASE CopyBids \/ CopyAsks \/ Truncate \/ Write
  BY <1>6, <1>10 DEF CopyBids, CopyAsks, Truncate, Write
<1>11. CASE UNCHANGED allVars
  BY <1>6, <1>11 DEF allVars, engineVars
<1> QED
  BY <1>1, <1>2, <1>3, <1>4, <1>5, <1>7, <1>8, <1>9, <1>10, <1>11
  DEF EngineNext, CommandThread, SnapshotThread

\* Types and at most once together are inductive.
LEMMA AlwaysOnce ==
    /\ EngineInit => EngineTypes /\ HandledOnce
    /\ EngineTypes /\ HandledOnce /\ [EngineNext]_allVars => (EngineTypes /\ HandledOnce)'
<1>1. EngineInit => HandledOnce
  BY DEF EngineInit, HandledOnce, NeverTwice, Unread, BatchOnce
<1> QED BY <1>1, EngineInitTypes, EngineTypesNext, HandledOnceNext

\* No entry of the stream is carried out twice, whatever crashes, is lost or is
\* read again: what the group has handed out once it never hands out again.
THEOREM AtMostOnce == EngineSpec => []NeverTwice
<1>1. EngineTypes /\ HandledOnce => NeverTwice
  BY DEF HandledOnce
<1> QED BY <1>1, AlwaysOnce, PTL DEF EngineSpec

-----------------------------------------------------------------------------
(* Every order of every book, live, copied or saved, is on file. *)

\* The orders of a queue of level p of side s: each has the terms t it was sent
\* with, and one that has been delivered once is there once; d says how often
\* each order has been delivered.
OnFile(t, d, q, s, p) ==
    \A i \in 1..Len(q) :
        /\ t[q[i].id].side = s /\ t[q[i].id].price = p /\ t[q[i].id].quantity = q[i].quantity
        /\ Rests(t[q[i].id])
        /\ d[q[i].id] >= 1
        /\ d[q[i].id] = 1 => \A j \in 1..Len(q) : q[j].id = q[i].id => j = i

FiledIn(t, d, bk) == \A s \in Side, p \in Price : OnFile(t, d, bk[s][p], s, p)

Filed(bk) == FiledIn(terms, deliveries, bk)

AllFiled ==
    /\ Filed(book) /\ Filed(snap.book) /\ Filed(disk.book)
    /\ Registered /\ FilledAtFront

\* What is on file stays so when further orders are delivered ...
LEMMA LaterOnFile ==
    ASSUME NEW t, NEW d \in [OrderId -> Nat], NEW e \in [OrderId -> Nat],
           \A o \in OrderId : d[o] <= e[o],
           NEW bk \in Books, FiledIn(t, d, bk)
    PROVE  FiledIn(t, e, bk)
<1> SUFFICES ASSUME NEW s \in Side, NEW p \in Price
             PROVE  OnFile(t, e, bk[s][p], s, p)
  BY DEF FiledIn
<1> DEFINE q == bk[s][p]
<1>1. OnFile(t, d, q, s, p) /\ q \in Seq(Entry)
  BY DEF FiledIn, Books
<1> HIDE DEF q
<1>2. \A i \in 1..Len(q) : q[i].id \in OrderId
  <2> SUFFICES ASSUME NEW i \in 1..Len(q) PROVE q[i].id \in OrderId
    OBVIOUS
  <2>1. q[i] \in Entry
    BY <1>1, ElementOfSeq
  <2> QED BY <2>1 DEF Entry
<1>3. \A o \in OrderId : d[o] >= 1 => e[o] >= 1 /\ (e[o] = 1 => d[o] = 1)
  OBVIOUS
<1>4. OnFile(t, e, q, s, p)
  BY <1>1, <1>2, <1>3 DEF OnFile
<1> QED BY <1>4 DEF q

\* ... and when some of the queue leave or are filled.
LEMMA OriginsOnFile ==
    ASSUME NEW t, NEW d, NEW s, NEW p, NEW q, NEW r, OnFile(t, d, q, s, p),
           NEW f \in [1..Len(r) -> 1..Len(q)],
           \A i \in 1..Len(r) : r[i].id = q[f[i]].id /\ r[i].quantity = q[f[i]].quantity,
           \A i, j \in 1..Len(r) : f[i] = f[j] => i = j
    PROVE  OnFile(t, d, r, s, p)
<1> SUFFICES ASSUME NEW i \in 1..Len(r)
             PROVE  /\ t[r[i].id].side = s /\ t[r[i].id].price = p
                    /\ t[r[i].id].quantity = r[i].quantity
                    /\ Rests(t[r[i].id])
                    /\ d[r[i].id] >= 1
                    /\ d[r[i].id] = 1 => \A j \in 1..Len(r) : r[j].id = r[i].id => j = i
  BY DEF OnFile
<1>1. f[i] \in 1..Len(q) /\ r[i].id = q[f[i]].id /\ r[i].quantity = q[f[i]].quantity
  OBVIOUS
<1>2. d[r[i].id] = 1 => \A j \in 1..Len(r) : r[j].id = r[i].id => f[j] = f[i]
  BY <1>1 DEF OnFile
<1> QED BY <1>1, <1>2 DEF OnFile

\* A removal from the middle of a queue leaves the others on file.
LEMMA RemovalOnFile ==
    ASSUME NEW t, NEW d, NEW s, NEW p, NEW q \in Seq(Entry), OnFile(t, d, q, s, p),
           NEW k \in 1..Len(q)
    PROVE  OnFile(t, d, RemoveAt(q, k), s, p)
<1> DEFINE r == RemoveAt(q, k)
           f == [i \in 1..Len(r) |-> IF i < k THEN i ELSE i + 1]
<1>0. Len(q) \in Nat
  BY LenProperties
<1>1. /\ Len(r) = Len(q) - 1 /\ Len(q) \in Nat
      /\ \A i \in 1..(Len(q) - 1) : r[i] = IF i < k THEN q[i] ELSE q[i + 1]
  BY <1>0, RemoveAtProperties
<1> HIDE DEF r
<1>2. \A i \in 1..Len(r) : f[i] = IF i < k THEN i ELSE i + 1
  OBVIOUS
<1>3. \A i \in 1..Len(r) : f[i] \in 1..Len(q) /\ r[i] = q[f[i]]
  BY <1>1, <1>2
<1>4. \A i, j \in 1..Len(r) : f[i] = f[j] => i = j
  BY <1>1, <1>2
<1>5. f \in [1..Len(r) -> 1..Len(q)]
  BY <1>3
<1> HIDE DEF f
<1>6. OnFile(t, d, r, s, p)
  BY <1>3, <1>4, <1>5, OriginsOnFile
<1> QED BY <1>6 DEF r

\* Deliveries only grow; the terms of an order never change.
LEMMA DeliveriesGrow ==
    ASSUME EngineTypes, [EngineNext]_allVars
    PROVE  /\ terms' = terms
           /\ deliveries \in [OrderId -> Nat] /\ deliveries' \in [OrderId -> Nat]
           /\ \A o \in OrderId : deliveries[o] <= deliveries'[o]
<1>0. deliveries \in [OrderId -> Nat] /\ deliveries' \in [OrderId -> Nat]
  BY BookTypesNext DEF EngineTypes, EngineTypeOK, TypeOK
<1>1. CASE BeginPlace
  <2>1. /\ terms' = terms
        /\ deliveries' = [deliveries EXCEPT ![InHandCommand.order] = deliveries[InHandCommand.order] + 1]
    BY <1>1 DEF BeginPlace, Receive
  <2> HIDE DEF InHandCommand
  <2> QED BY <1>0, <2>1
<1>2. CASE UNCHANGED <<terms, deliveries>>
  BY <1>0, <1>2
<1>3. CASE Match \/ PublishOutcome \/ RemoveResting
  BY <1>2, <1>3
  DEF Match, Execute, PopFilled, Rest, Discard, Complete, PublishOutcome, Return, RemoveResting, Cancel
<1>4. CASE DropExhausted
  BY <1>2, <1>4 DEF DropExhausted
<1>5. ASSUME NEW bk, Restart(bk)
      PROVE  UNCHANGED <<terms, deliveries>>
  BY <1>5 DEF Restart, StartWith
<1>6. CASE UNCHANGED vars
  BY <1>2, <1>6 DEF vars
<1> QED BY <1>1, <1>2, <1>3, <1>4, <1>5, <1>6, OtherSteps

\* match() and cancel() keep the live book on file: the order that comes to
\* rest has been delivered just now, so it is in the book already only if it
\* has been delivered before.
LEMMA BookStaysOnFile ==
    ASSUME EngineTypes, AllFiled, [Next]_vars
    PROVE  FiledIn(terms, deliveries, book')
<1> SUFFICES ASSUME NEW s \in Side, NEW p \in Price
             PROVE  OnFile(terms, deliveries, book'[s][p], s, p)
  BY DEF FiledIn
<1> DEFINE q == book[s][p]
           r == book'[s][p]
<1>1. TypeOK /\ q \in Seq(Entry) /\ OnFile(terms, deliveries, q, s, p) /\ FilledAtFront /\ Registered
  BY DEF EngineTypes, EngineTypeOK, TypeOK, AllFiled, Filed, FiledIn
<1>2. CASE Joined(s, p)
  <2>1. PICK e \in Entry : e.id = taker.id /\ e.quantity = Asked.quantity /\ r = Append(q, e)
    BY <1>2 DEF Joined
  <2>2. /\ pc = "match" /\ Rests(Asked) /\ s = Asked.side /\ p = Asked.price
    BY <1>2 DEF Joined, Rest
  <2>3. taker.id \in OrderId /\ deliveries[taker.id] >= 1
    BY <1>1, <2>2, InHand DEF Registered
  <2>4. deliveries[taker.id] = 1 => \A i \in 1..Len(q) : q[i].id # taker.id
    <3> SUFFICES ASSUME deliveries[taker.id] = 1, NEW i \in 1..Len(q), q[i].id = taker.id
                 PROVE  FALSE
      OBVIOUS
    <3>1. RegisteredAt(s, p, i)
      BY <1>1 DEF Registered
    <3>2. deliveries[taker.id] >= 2
      BY <2>2, <3>1 DEF RegisteredAt
    <3> QED BY <3>2
  <2> HIDE DEF q, r
  <2>5. /\ Len(r) = Len(q) + 1 /\ Len(q) \in Nat
        /\ \A i \in 1..Len(q) : r[i] = q[i]
        /\ r[Len(q) + 1] = e
    BY <1>1, <2>1, AppendProperties
  <2>6. ASSUME NEW i \in 1..Len(r)
        PROVE  /\ terms[r[i].id].side = s /\ terms[r[i].id].price = p
               /\ terms[r[i].id].quantity = r[i].quantity
               /\ Rests(terms[r[i].id])
               /\ deliveries[r[i].id] >= 1
               /\ deliveries[r[i].id] = 1 => \A j \in 1..Len(r) : r[j].id = r[i].id => j = i
    <3>1. CASE i \in 1..Len(q)
      <4>1. /\ terms[q[i].id].side = s /\ terms[q[i].id].price = p
            /\ terms[q[i].id].quantity = q[i].quantity
            /\ Rests(terms[q[i].id])
            /\ deliveries[q[i].id] >= 1
            /\ deliveries[q[i].id] = 1 => \A j \in 1..Len(q) : q[j].id = q[i].id => j = i
        BY <1>1, <3>1 DEF OnFile
      <4>2. deliveries[q[i].id] = 1 => q[i].id # taker.id
        BY <2>4, <3>1
      <4>3. deliveries[q[i].id] = 1 => \A j \in 1..Len(r) : r[j].id = q[i].id => j = i
        <5> SUFFICES ASSUME deliveries[q[i].id] = 1, NEW j \in 1..Len(r), r[j].id = q[i].id
                     PROVE  j = i
          OBVIOUS
        <5>1. j # Len(q) + 1
          BY <2>1, <2>5, <4>2
        <5>2. j \in 1..Len(q)
          BY <2>5, <5>1
        <5> QED BY <2>5, <4>1, <5>2
      <4> QED BY <2>5, <3>1, <4>1, <4>3
    <3>2. CASE i = Len(q) + 1
      <4>1. r[i] = e /\ r[i].id = taker.id
        BY <2>1, <2>5, <3>2
      <4>2. deliveries[taker.id] = 1 => \A j \in 1..Len(r) : r[j].id = taker.id => j = i
        <5> SUFFICES ASSUME deliveries[taker.id] = 1, NEW j \in 1..Len(r), r[j].id = taker.id
                     PROVE  j = i
          OBVIOUS
        <5>1. j \in 1..Len(q) => FALSE
          BY <2>4, <2>5
        <5> QED BY <2>5, <3>2, <5>1
      <4> QED BY <2>1, <2>2, <2>3, <4>1, <4>2 DEF Asked
    <3> QED BY <2>5, <3>1, <3>2
  <2>7. OnFile(terms, deliveries, r, s, p)
    BY <2>6 DEF OnFile
  <2> QED BY <2>7 DEF r
<1>3. CASE Stays(s, p)
  <2> DEFINE f == [i \in 1..Len(r) |-> i]
  <2>1. /\ Len(r) = Len(q)
        /\ \A i \in 1..Len(r) : r[i].id = q[i].id /\ r[i].quantity = q[i].quantity
    BY <1>3 DEF Stays
  <2> HIDE DEF q, r
  <2>2. f \in [1..Len(r) -> 1..Len(q)] /\ \A i \in 1..Len(r) : f[i] = i
    BY <2>1
  <2> HIDE DEF f
  <2>3. OnFile(terms, deliveries, r, s, p)
    BY <1>1, <2>1, <2>2, OriginsOnFile
  <2> QED BY <2>3 DEF r
<1>4. CASE Leaves(s, p)
  <2>1. PICK i \in 1..Len(q) : r = RemoveAt(q, i)
    BY <1>4 DEF Leaves
  <2> HIDE DEF q, r
  <2>2. OnFile(terms, deliveries, r, s, p)
    BY <1>1, <2>1, RemovalOnFile
  <2> QED BY <2>2 DEF r
<1> HIDE DEF q, r
<1>5. Joined(s, p) \/ Stays(s, p) \/ Leaves(s, p)
  BY <1>1, LevelStep
<1> QED BY <1>2, <1>3, <1>4, <1>5

\* The maker that "should not" be there leaves like any other order.
LEMMA ExhaustedRemoved ==
    ASSUME EngineTypes, DropExhausted
    PROVE  \E s \in Side, p \in Price : \E i \in 1..Len(book[s][p]) : Removed(s, p, i)
<1>1. PICK s \in Side, p \in Price :
         /\ book[s][p] \in Seq(Entry) /\ book[s][p] # <<>>
         /\ book' = [book EXCEPT ![s][p] = Tail(book[s][p])]
         /\ index' \in {index, [index EXCEPT ![Head(book[s][p]).id] = Nowhere]}
  BY ExhaustedMaker
<1>2. Tail(book[s][p]) = RemoveAt(book[s][p], 1)
  BY <1>1, TailIsRemoveAt
<1>3. 1 \in 1..Len(book[s][p]) /\ Head(book[s][p]) = book[s][p][1]
  BY <1>1
<1>4. pc = "match" /\ UNCHANGED <<deliveries, taker, pc>>
  BY DEF DropExhausted
<1>5. Removed(s, p, 1)
  BY <1>1, <1>2, <1>3, <1>4 DEF Removed
<1> QED BY <1>3, <1>5

\* A restart rebuilds the index from the side and the price of each order.
LEMMA RestartRegisters ==
    ASSUME EngineTypes, NEW bk \in Books, Filed(bk), Restart(bk)
    PROVE  Registered'
<1>1. /\ book' = bk /\ index' = IndexOf(bk) /\ deliveries' = deliveries /\ pc' = "idle"
  BY DEF Restart, StartWith
<1>2. ASSUME NEW s \in Side, NEW p \in Price, NEW i \in 1..Len(bk[s][p])
      PROVE  /\ deliveries[bk[s][p][i].id] >= 1
             /\ index'[bk[s][p][i].id] = [side |-> s, price |-> p]
             /\ deliveries[bk[s][p][i].id] = 1 =>
                   \A j \in 1..Len(bk[s][p]) : bk[s][p][j].id = bk[s][p][i].id => j = i
  <2> DEFINE o      == bk[s][p][i].id
             places == {x \in Place : \E k \in 1..Len(bk[x.side][x.price]) :
                                         bk[x.side][x.price][k].id = o}
             here   == [side |-> s, price |-> p]
  <2>1. OnFile(terms, deliveries, bk[s][p], s, p)
    BY DEF Filed, FiledIn
  <2>2. /\ terms[o].side = s /\ terms[o].price = p /\ deliveries[o] >= 1
        /\ deliveries[o] = 1 => \A j \in 1..Len(bk[s][p]) : bk[s][p][j].id = o => j = i
    BY <2>1 DEF OnFile
  <2>3. o \in OrderId
    <3>1. bk[s][p] \in Seq(Entry)
      BY DEF Books
    <3>2. bk[s][p][i] \in Entry
      BY <3>1, ElementOfSeq
    <3> QED BY <3>2 DEF Entry
  <2>4. here \in places
    <3>1. here \in Place /\ here.side = s /\ here.price = p
      BY DEF Place
    <3> HIDE DEF here
    <3> QED BY <3>1
  <2>5. ASSUME NEW x \in places
        PROVE  x = here
    <3>1. x \in Place /\ x.side \in Side /\ x.price \in Price
      BY DEF Place
    <3>2. PICK k \in 1..Len(bk[x.side][x.price]) : bk[x.side][x.price][k].id = o
      OBVIOUS
    <3>3. OnFile(terms, deliveries, bk[x.side][x.price], x.side, x.price)
      BY <3>1 DEF Filed, FiledIn
    <3> HIDE DEF o
    <3>4. terms[o].side = x.side /\ terms[o].price = x.price
      BY <3>2, <3>3 DEF OnFile
    <3> QED BY <2>2, <3>1, <3>4 DEF Place
  <2>6. index'[o] = IF places = {} THEN Nowhere ELSE CHOOSE x \in places : TRUE
    <3> HIDE DEF o
    <3> QED BY <1>1, <2>3 DEF IndexOf
  <2> HIDE DEF places, here
  <2>7. index'[o] = here
    BY <2>4, <2>5, <2>6
  <2> QED BY <2>2, <2>7 DEF here
<1>3. ASSUME NEW s \in Side, NEW p \in Price, NEW i \in 1..Len(bk[s][p])
      PROVE  RegisteredAt(s, p, i)'
  BY <1>1, <1>2 DEF RegisteredAt
<1> QED BY <1>1, <1>3 DEF Registered

\* The index is kept by the book, by the removal of a maker with nothing left,
\* and rebuilt by a restart.
LEMMA RegisteredOn ==
    ASSUME EngineTypes, AllFiled, [EngineNext]_allVars
    PROVE  Registered' /\ FilledAtFront'
<1>0. TypeOK /\ Registered /\ FilledAtFront
  BY DEF EngineTypes, EngineTypeOK, AllFiled
<1>1. CASE [Next]_vars
  BY <1>0, <1>1, RegisteredNext, FilledAtFrontNext
<1>2. CASE DropExhausted
  <2>1. Registered'
    BY <1>0, <1>2, ExhaustedRemoved, RegisteredRemoval
  <2>2. pc' = "match"
    BY <1>2 DEF DropExhausted
  <2> QED BY <2>1, <2>2 DEF FilledAtFront
<1>3. ASSUME NEW bk \in Books, Restart(bk)
      PROVE  Registered' /\ FilledAtFront'
  <2>1. bk = book \/ bk = disk.book
    BY <1>3 DEF Restart
  <2>2. Filed(bk)
    BY <2>1 DEF AllFiled
  <2>3. pc' = "idle"
    BY <1>3 DEF Restart, StartWith
  <2> QED BY <1>3, <2>2, <2>3, RestartRegisters DEF FilledAtFront
<1>4. CASE UNCHANGED vars
  BY <1>1, <1>4
<1>5. CASE BeginPlace \/ Match \/ PublishOutcome \/ RemoveResting
  BY <1>1, <1>5, BookSteps
<1> QED BY <1>2, <1>3, <1>4, <1>5, OtherSteps

\* Every step of the engine keeps the live book on file.
LEMMA BookOnFile ==
    ASSUME EngineTypes, AllFiled, [EngineNext]_allVars
    PROVE  FiledIn(terms, deliveries, book')
<1>0. Filed(book) /\ Filed(disk.book) /\ TypeOK
  BY DEF AllFiled, EngineTypes, EngineTypeOK
<1>1. CASE [Next]_vars
  BY <1>1, BookStaysOnFile
<1>2. CASE DropExhausted
  <2>1. PICK s \in Side, p \in Price :
           /\ book[s][p] \in Seq(Entry) /\ book[s][p] # <<>>
           /\ book' = [book EXCEPT ![s][p] = Tail(book[s][p])]
    BY <1>2, ExhaustedMaker
  <2>2. Tail(book[s][p]) = RemoveAt(book[s][p], 1) /\ 1 \in 1..Len(book[s][p])
    <3>1. Tail(book[s][p]) = RemoveAt(book[s][p], 1)
      BY <2>1, TailIsRemoveAt
    <3>2. 1 \in 1..Len(book[s][p])
      BY <2>1
    <3> QED BY <3>1, <3>2
  <2>3. ASSUME NEW t \in Side, NEW r \in Price
        PROVE  OnFile(terms, deliveries, book'[t][r], t, r)
    <3>0. OnFile(terms, deliveries, book[t][r], t, r)
      BY <1>0 DEF Filed, FiledIn
    <3>1. book'[t][r] = IF t = s /\ r = p THEN RemoveAt(book[s][p], 1) ELSE book[t][r]
      BY <1>0, <2>1, <2>2 DEF TypeOK
    <3>2. CASE t = s /\ r = p
      <4>1. OnFile(terms, deliveries, RemoveAt(book[s][p], 1), s, p)
        BY <2>1, <2>2, <3>0, <3>2, RemovalOnFile
      <4> QED BY <3>1, <3>2, <4>1
    <3>3. CASE ~(t = s /\ r = p)
      <4>1. book'[t][r] = book[t][r]
        BY <3>1, <3>3
      <4> QED BY <3>0, <4>1
    <3> QED BY <3>2, <3>3
  <2> QED BY <2>3 DEF FiledIn
<1>3. ASSUME NEW bk \in Books, Restart(bk)
      PROVE  FiledIn(terms, deliveries, book')
  <2>1. book' = bk /\ (bk = book \/ bk = disk.book)
    BY <1>3 DEF Restart, StartWith
  <2> QED BY <1>0, <2>1 DEF Filed
<1>4. CASE UNCHANGED vars
  BY <1>1, <1>4
<1>5. CASE BeginPlace \/ Match \/ PublishOutcome \/ RemoveResting
  BY <1>1, <1>5, BookSteps
<1> QED BY <1>2, <1>3, <1>4, <1>5, OtherSteps

\* The snapshot thread copies one side after the other, from the books of two
\* moments; each side is on file when it is copied.
LEMMA CopiesOnFile ==
    ASSUME EngineTypes, AllFiled, [EngineNext]_allVars
    PROVE  FiledIn(terms, deliveries, snap'.book) /\ FiledIn(terms, deliveries, disk'.book)
<1>0. /\ Filed(book) /\ Filed(snap.book) /\ Filed(disk.book)
      /\ book \in Books /\ snap.book \in Books /\ NoBook \in Books
  BY DEF AllFiled, EngineTypes, EngineTypeOK, TypeOK, Books, NoBook, Copies
<1>1. Filed(NoBook)
  <2>1. \A s \in Side, p \in Price : NoBook[s][p] = <<>>
    BY DEF NoBook
  <2> HIDE DEF NoBook
  <2> QED BY <2>1 DEF Filed, FiledIn, OnFile
<1>2. "buy" \in Side /\ "sell" \in Side /\ Side = {"buy", "sell"}
  BY DEF Side
<1>3. ASSUME NEW a \in Books, NEW b \in Books, Filed(a), Filed(b), NEW u \in Side
      PROVE  Filed([a EXCEPT ![u] = b[u]])
  <2> DEFINE c == [a EXCEPT ![u] = b[u]]
  <2>1. \A s \in Side : c[s] = a[s] \/ c[s] = b[s]
    BY DEF Books
  <2> HIDE DEF c
  <2>2. ASSUME NEW s \in Side, NEW p \in Price
        PROVE  OnFile(terms, deliveries, c[s][p], s, p)
    <3>1. OnFile(terms, deliveries, a[s][p], s, p) /\ OnFile(terms, deliveries, b[s][p], s, p)
      BY <1>3 DEF Filed, FiledIn
    <3>2. c[s][p] = a[s][p] \/ c[s][p] = b[s][p]
      BY <2>1
    <3> QED BY <3>1, <3>2
  <2>3. Filed(c)
    BY <2>2 DEF Filed, FiledIn
  <2> QED BY <2>3 DEF c
<1>4. CASE UNCHANGED <<snap, disk>>
  BY <1>0, <1>4 DEF Filed
<1>5. CASE CopyBids
  <2>1. disk' = disk /\ snap'.book = [NoBook EXCEPT !["buy"] = book["buy"]]
    BY <1>5 DEF CopyBids
  <2> QED BY <1>0, <1>1, <1>2, <1>3, <2>1 DEF Filed
<1>6. CASE CopyAsks
  <2>1. disk' = disk /\ snap'.book = [snap.book EXCEPT !["sell"] = book["sell"]]
    BY <1>6 DEF CopyAsks
  <2> QED BY <1>0, <1>2, <1>3, <2>1 DEF Filed
<1>7. CASE Truncate
  <2>1. disk'.book = NoBook /\ snap'.book = snap.book
    BY <1>7 DEF Truncate, EngineTypes, Copies
  <2> QED BY <1>0, <1>1, <2>1 DEF Filed
<1>8. CASE Write
  <2>1. disk'.book = snap.book /\ snap'.book = NoBook
    BY <1>8 DEF Write, Asleep
  <2> QED BY <1>0, <1>1, <2>1 DEF Filed
<1>9. CASE CrashRestart
  <2>1. disk' = disk /\ snap'.book = NoBook
    BY <1>9 DEF CrashRestart, StartWith, Asleep
  <2> QED BY <1>0, <1>1, <2>1 DEF Filed
<1>10. CASE Shutdown
  <2>1. disk'.book = book /\ snap'.book = NoBook
    BY <1>10 DEF Shutdown, StartWith, Asleep
  <2> QED BY <1>0, <1>1, <2>1 DEF Filed
<1>11. CASE ReadGroup \/ BeginPlace \/ Match \/ DropExhausted \/ AskMarkPrice \/ PublishAccepted
  BY <1>4, <1>11
  DEF ReadGroup, BeginPlace, Match, DropExhausted, AskMarkPrice, PublishAccepted, engineVars
<1>12. CASE PublishTrade \/ PublishOutcome \/ BeginCancel \/ RemoveResting \/ NothingToCancel
  BY <1>4, <1>12
  DEF PublishTrade, PublishOutcome, BeginCancel, RemoveResting, NothingToCancel
<1>13. CASE PublishCanceled \/ Acknowledge \/ LoseReply \/ UNCHANGED allVars
  BY <1>4, <1>13 DEF PublishCanceled, Acknowledge, LoseReply, allVars, engineVars
<1> QED
  BY <1>5, <1>6, <1>7, <1>8, <1>9, <1>10, <1>11, <1>12, <1>13
  DEF EngineNext, CommandThread, SnapshotThread

\* The books on file are kept: the live one, the copy and the saved one.
LEMMA AllFiledNext == EngineTypes /\ AllFiled /\ [EngineNext]_allVars => AllFiled'
<1> SUFFICES ASSUME EngineTypes, AllFiled, [EngineNext]_allVars
             PROVE  AllFiled'
  OBVIOUS
<1>1. /\ book' \in Books /\ snap'.book \in Books /\ disk'.book \in Books
  BY EngineTypesNext DEF EngineTypes, EngineTypeOK, TypeOK, Books, Copies, Files
<1>2. /\ terms' = terms
      /\ deliveries \in [OrderId -> Nat] /\ deliveries' \in [OrderId -> Nat]
      /\ \A o \in OrderId : deliveries[o] <= deliveries'[o]
  BY DeliveriesGrow
<1>3. \A bk \in Books : FiledIn(terms, deliveries, bk) => FiledIn(terms, deliveries', bk)
  BY <1>2, LaterOnFile
<1>4. /\ FiledIn(terms, deliveries', book')
      /\ FiledIn(terms, deliveries', snap'.book)
      /\ FiledIn(terms, deliveries', disk'.book)
  BY <1>1, <1>3, BookOnFile, CopiesOnFile
<1> QED BY <1>2, <1>4, RegisteredOn DEF AllFiled, Filed

\* All three books are empty at first.
LEMMA AllFiledInit == EngineInit => AllFiled
<1> SUFFICES ASSUME EngineInit
             PROVE  AllFiled
  OBVIOUS
<1>1. book = NoBook /\ snap.book = NoBook /\ disk.book = NoBook /\ pc = "idle"
  BY DEF EngineInit, Init, Asleep, NoFile, NoBook
<1>2. \A s \in Side, p \in Price : NoBook[s][p] = <<>>
  BY DEF NoBook
<1> HIDE DEF NoBook
<1> QED
  BY <1>1, <1>2 DEF AllFiled, Filed, FiledIn, OnFile, Registered, FilledAtFront

\* An order that rests can be cancelled, also after crashes and restarts from a
\* file that was written while orders were matched: the index leads to it. (Of
\* an order delivered twice the index may have forgotten the copy that rests.)
THEOREM CancellableAlways == EngineSpec => []Cancellable
<1>1. EngineTypes /\ AllFiled /\ [EngineNext]_allVars => (EngineTypes /\ AllFiled)'
  BY EngineTypesNext, AllFiledNext
<1>2. AllFiled => Cancellable
  BY DEF AllFiled, Registered, RegisteredAt, Cancellable
<1> QED BY <1>1, <1>2, EngineInitTypes, AllFiledInit, PTL DEF EngineSpec

-----------------------------------------------------------------------------
(* What the book holds, order by order. *)

\* Order o rests in the book, n lots of it filled.
Stands(o, n) ==
    \E s \in Side, p \in Price : \E i \in 1..Len(book[s][p]) :
        book[s][p][i].id = o /\ book[s][p][i].filled = n

Waits(o) == \E n \in 0..MaxQty : Stands(o, n)

\* An order that has been delivered once has one place in the book.
LEMMA OnePlace ==
    ASSUME Filed(book),
           NEW s \in Side, NEW p \in Price, NEW i \in 1..Len(book[s][p]),
           NEW t \in Side, NEW r \in Price, NEW j \in 1..Len(book[t][r]),
           book[s][p][i].id = book[t][r][j].id, deliveries[book[s][p][i].id] = 1
    PROVE  s = t /\ p = r /\ i = j
<1>1. OnFile(terms, deliveries, book[s][p], s, p) /\ OnFile(terms, deliveries, book[t][r], t, r)
  BY DEF Filed, FiledIn
<1>2. terms[book[s][p][i].id].side = s /\ terms[book[s][p][i].id].price = p
  BY <1>1 DEF OnFile
<1>3. terms[book[t][r][j].id].side = t /\ terms[book[t][r][j].id].price = r
  BY <1>1 DEF OnFile
<1>4. s = t /\ p = r
  BY <1>2, <1>3
<1>5. \A k \in 1..Len(book[s][p]) : book[s][p][k].id = book[s][p][i].id => k = i
  BY <1>1 DEF OnFile
<1> QED BY <1>4, <1>5

\* What is known of an order that rests.
LEMMA OfStanding ==
    ASSUME EngineTypes, Filed(book), NEW o, NEW n, Stands(o, n)
    PROVE  /\ o \in OrderId /\ n \in 0..MaxQty /\ n \in Nat
           /\ deliveries[o] >= 1 /\ Rests(terms[o])
           /\ AllLive /\ pc # "pop" => n < terms[o].quantity
           /\ deliveries[o] = 1 => \A k : Stands(o, k) => k = n
           /\ Waits(o)
<1>1. PICK s \in Side, p \in Price : \E i \in 1..Len(book[s][p]) :
         book[s][p][i].id = o /\ book[s][p][i].filled = n
  BY DEF Stands
<1>2. PICK i \in 1..Len(book[s][p]) : book[s][p][i].id = o /\ book[s][p][i].filled = n
  BY <1>1
<1>3. book[s][p] \in Seq(Entry)
  BY DEF EngineTypes, EngineTypeOK, TypeOK
<1>4. book[s][p][i] \in Entry
  BY <1>3, ElementOfSeq
<1>5. o \in OrderId /\ n \in 0..MaxQty /\ n \in Nat /\ book[s][p][i].quantity \in Nat
  BY <1>2, <1>4, BoundsAssumption DEF Entry, Qty
<1>6. /\ deliveries[o] >= 1 /\ Rests(terms[o]) /\ terms[o].quantity = book[s][p][i].quantity
  BY <1>2 DEF Filed, FiledIn, OnFile
<1>7. ASSUME AllLive, pc # "pop"
      PROVE  n < terms[o].quantity
  <2>1. Left(book[s][p][i]) > 0
    BY <1>7 DEF AllLive
  <2> QED BY <1>2, <1>5, <1>6, <2>1 DEF Left
<1>8. ASSUME deliveries[o] = 1, NEW k, Stands(o, k)
      PROVE  k = n
  <2>1. PICK t \in Side, r \in Price : \E j \in 1..Len(book[t][r]) :
           book[t][r][j].id = o /\ book[t][r][j].filled = k
    BY <1>8 DEF Stands
  <2>2. PICK j \in 1..Len(book[t][r]) : book[t][r][j].id = o /\ book[t][r][j].filled = k
    BY <2>1
  <2>3. s = t /\ p = r /\ i = j
    BY <1>2, <1>8, <2>2, OnePlace
  <2> QED BY <1>2, <2>2, <2>3
<1> QED BY <1>5, <1>6, <1>7, <1>8 DEF Waits

\* An execution fills the front maker of the best level, and no one else - but
\* for the copies of a maker that has been delivered more than once.
LEMMA StandsAfterExecution ==
    ASSUME EngineTypes, Filed(book), NEW p \in Price, NEW qty \in Qty, Executed(p, qty)
    PROVE  \E x \in OrderId, k \in Nat :
              /\ x = Head(book[Opposite(Asked.side)][p]).id
              /\ Stands(x, k) /\ k + qty \in 0..MaxQty
              /\ deliveries[x] = 1 => \A n : Stands(x, n)' <=> n = k + qty
              /\ \A o, n : o # x => (Stands(o, n)' <=> Stands(o, n))
<1> DEFINE s == Opposite(Asked.side)
           q == book[s][p]
           m == Head(q)
<1>1. TypeOK
  BY DEF EngineTypes, EngineTypeOK
<1>2. /\ s \in Side
      /\ q \in Seq(Entry)
      /\ Len(book'[s][p]) = Len(q)
      /\ \A i \in 1..Len(q) : book'[s][p][i].id = q[i].id
      /\ \A i \in 1..Len(q) : i # 1 => book'[s][p][i] = q[i]
      /\ \A t \in Side, r \in Price : t # s \/ r # p => book'[t][r] = book[t][r]
  BY <1>1, AfterExecution
<1>3. /\ IsBest(s, p) /\ qty \in 1..Left(m)
      /\ book' = [book EXCEPT ![s][p] = FillFront(q, qty)]
  BY DEF Executed
<1>4. q # <<>> /\ m \in Entry /\ m = q[1] /\ 1 \in 1..Len(q)
  BY <1>2, <1>3 DEF IsBest, Levels
<1>5. m.filled \in Nat /\ Left(m) \in Int
  BY <1>4, BoundsAssumption DEF Entry, Left, Qty
<1>6. book'[s][p] = FillFront(q, qty)
  BY <1>1, <1>2, <1>3 DEF TypeOK
<1>7. book'[s][p][1].id = m.id /\ book'[s][p][1].filled = m.filled + qty
  <2>1. qty \in 0..Left(m)
    BY <1>3, <1>5
  <2>2. FillFront(q, qty)[1] = Fill(q[1], qty)
    BY <1>2, <1>4, <2>1, FillFrontProperties
  <2>3. Fill(m, qty).filled = m.filled + qty /\ Fill(m, qty).id = m.id
    BY <1>4, <2>1, FillProperties
  <2> QED BY <1>4, <1>6, <2>2, <2>3
<1>8. s \in Side /\ book[s][p] = q
  BY <1>2
<1>b. m.filled + qty \in 0..MaxQty
  <2>1. m.filled \in Nat /\ m.quantity \in 1..MaxQty /\ Left(m) = m.quantity - m.filled
    BY <1>4, <1>5 DEF Entry, Left, Qty
  <2> HIDE DEF m
  <2> QED BY <1>3, <2>1, BoundsAssumption
<1>a. PICK x \in OrderId, k \in Nat : x = m.id /\ k = m.filled
  BY <1>4, <1>5 DEF Entry
<1> HIDE DEF s, q, m
<1>9. Stands(x, k)
  BY <1>a, <1>4, <1>8 DEF Stands
<1>10. ASSUME NEW t \in Side, NEW r \in Price, NEW i \in 1..Len(book'[t][r]),
              ~(t = s /\ r = p /\ i = 1)
       PROVE  /\ i \in 1..Len(book[t][r]) /\ book'[t][r][i] = book[t][r][i]
              /\ deliveries[x] = 1 => book[t][r][i].id # x
  <2>1. i \in 1..Len(book[t][r]) /\ book'[t][r][i] = book[t][r][i]
    BY <1>2, <1>8, <1>10
  <2>2. deliveries[x] = 1 => book[t][r][i].id # x
    BY <1>a, <1>4, <1>8, <1>10, <2>1, OnePlace
  <2> QED BY <2>1, <2>2
<1>11. ASSUME deliveries[x] = 1, NEW n
       PROVE  Stands(x, n)' <=> n = k + qty
  <2>1. ASSUME Stands(x, n)'
        PROVE  n = k + qty
    <3>1. PICK t \in Side, r \in Price : \E i \in 1..Len(book'[t][r]) :
             book'[t][r][i].id = x /\ book'[t][r][i].filled = n
      BY <2>1 DEF Stands
    <3>2. PICK i \in 1..Len(book'[t][r]) :
             book'[t][r][i].id = x /\ book'[t][r][i].filled = n
      BY <3>1
    <3>3. t = s /\ r = p /\ i = 1
      BY <1>10, <1>11, <3>2
    <3> QED BY <1>a, <1>7, <3>2, <3>3
  <2> QED BY <1>a, <1>2, <1>4, <1>7, <1>8, <2>1 DEF Stands
<1>12. ASSUME NEW o, NEW n, o # x
       PROVE  Stands(o, n)' <=> Stands(o, n)
  <2>1. ASSUME Stands(o, n)'
        PROVE  Stands(o, n)
    <3>1. PICK t \in Side, r \in Price : \E i \in 1..Len(book'[t][r]) :
             book'[t][r][i].id = o /\ book'[t][r][i].filled = n
      BY <2>1 DEF Stands
    <3>2. PICK i \in 1..Len(book'[t][r]) : book'[t][r][i].id = o /\ book'[t][r][i].filled = n
      BY <3>1
    <3>3. ~(t = s /\ r = p /\ i = 1)
      BY <1>a, <1>7, <1>12, <3>2
    <3> QED BY <1>10, <3>2, <3>3 DEF Stands
  <2>2. ASSUME Stands(o, n)
        PROVE  Stands(o, n)'
    <3>1. PICK t \in Side, r \in Price : \E i \in 1..Len(book[t][r]) :
             book[t][r][i].id = o /\ book[t][r][i].filled = n
      BY <2>2 DEF Stands
    <3>2. PICK i \in 1..Len(book[t][r]) : book[t][r][i].id = o /\ book[t][r][i].filled = n
      BY <3>1
    <3>3. ~(t = s /\ r = p /\ i = 1)
      BY <1>a, <1>4, <1>8, <1>12, <3>2
    <3>4. i \in 1..Len(book'[t][r]) /\ book'[t][r][i] = book[t][r][i]
      BY <1>2, <1>8, <3>2, <3>3
    <3> QED BY <3>2, <3>4 DEF Stands
  <2> QED BY <2>1, <2>2
<1> QED BY <1>a, <1>b, <1>9, <1>11, <1>12 DEF m, q, s

\* A removal takes one order out of the book, or one of its copies.
LEMMA StandsAfterRemoval ==
    ASSUME EngineTypes, Filed(book), NEW s \in Side, NEW p \in Price,
           NEW k \in 1..Len(book[s][p]), Removed(s, p, k),
           NEW x, x = book[s][p][k].id
    PROVE  /\ \A o, n : o # x => (Stands(o, n)' <=> Stands(o, n))
           /\ deliveries[x] = 1 => \A n : ~ Stands(x, n)'
<1>1. TypeOK
  BY DEF EngineTypes, EngineTypeOK
<1>2. ASSUME NEW t \in Side, NEW r \in Price
      PROVE  /\ ~(t = s /\ r = p) => book'[t][r] = book[t][r]
             /\ t = s /\ r = p =>
                  /\ Len(book'[t][r]) = Len(book[t][r]) - 1
                  /\ Len(book[t][r]) \in Nat
                  /\ \A j \in 1..Len(book'[t][r]) :
                        IF j < k THEN j \in 1..Len(book[t][r]) /\ book'[t][r][j] = book[t][r][j]
                        ELSE j + 1 \in 1..Len(book[t][r]) /\ book'[t][r][j] = book[t][r][j + 1]
  <2>1. book[t][r] \in Seq(Entry)
    BY <1>1 DEF TypeOK
  <2>2. Len(book[t][r]) \in Nat
    BY <2>1, LenProperties
  <2>3. /\ book[t][r] \in Seq(Entry)
        /\ ~(t = s /\ r = p) => book'[t][r] = book[t][r]
        /\ t = s /\ r = p =>
             /\ Len(book'[t][r]) = Len(book[t][r]) - 1
             /\ \A j \in 1..Len(book'[t][r]) :
                   /\ IF j < k THEN j \in 1..Len(book[t][r]) /\ book'[t][r][j] = book[t][r][j]
                      ELSE j + 1 \in 1..Len(book[t][r]) /\ book'[t][r][j] = book[t][r][j + 1]
    BY <1>1, AfterRemoval
  <2> QED BY <2>2, <2>3
<1>3. ASSUME NEW o, NEW n, Stands(o, n)'
      PROVE  Stands(o, n) /\ (deliveries[x] = 1 => o # x)
  <2>1. PICK t \in Side, r \in Price : \E i \in 1..Len(book'[t][r]) :
           book'[t][r][i].id = o /\ book'[t][r][i].filled = n
    BY <1>3 DEF Stands
  <2>2. PICK i \in 1..Len(book'[t][r]) : book'[t][r][i].id = o /\ book'[t][r][i].filled = n
    BY <2>1
  <2>3. \E j \in 1..Len(book[t][r]) : book'[t][r][i] = book[t][r][j] /\ ~(t = s /\ r = p /\ j = k)
    <3>1. CASE t = s /\ r = p /\ i < k
      BY <1>2, <3>1
    <3>2. CASE t = s /\ r = p /\ ~(i < k)
      BY <1>2, <3>2
    <3>3. CASE ~(t = s /\ r = p)
      BY <1>2, <3>3
    <3> QED BY <3>1, <3>2, <3>3
  <2>4. PICK j \in 1..Len(book[t][r]) : book'[t][r][i] = book[t][r][j] /\ ~(t = s /\ r = p /\ j = k)
    BY <2>3
  <2>5. deliveries[x] = 1 => book[t][r][j].id # x
    BY <2>4, OnePlace
  <2> QED BY <2>2, <2>4, <2>5 DEF Stands
<1>4. ASSUME NEW o, NEW n, Stands(o, n), o # x
      PROVE  Stands(o, n)'
  <2>1. PICK t \in Side, r \in Price : \E i \in 1..Len(book[t][r]) :
           book[t][r][i].id = o /\ book[t][r][i].filled = n
    BY <1>4 DEF Stands
  <2>2. PICK i \in 1..Len(book[t][r]) : book[t][r][i].id = o /\ book[t][r][i].filled = n
    BY <2>1
  <2>3. \E j \in 1..Len(book'[t][r]) : book'[t][r][j] = book[t][r][i]
    <3>1. CASE t = s /\ r = p
      <4>1. i # k
        BY <1>4, <2>2, <3>1
      <4>2. CASE i < k
        <5>1. i \in 1..Len(book'[t][r])
          BY <1>2, <3>1, <4>2
        <5> QED BY <1>2, <3>1, <4>2, <5>1
      <4>3. CASE i > k
        <5> DEFINE j == i - 1
        <5>1. j \in 1..Len(book'[t][r]) /\ ~(j < k) /\ j + 1 = i
          BY <1>2, <3>1, <4>3
        <5> HIDE DEF j
        <5>2. book'[t][r][j] = book[t][r][j + 1]
          BY <1>2, <3>1, <5>1
        <5> QED BY <5>1, <5>2
      <4> QED BY <4>1, <4>2, <4>3
    <3>2. CASE ~(t = s /\ r = p)
      BY <1>2, <3>2
    <3> QED BY <3>1, <3>2
  <2>4. PICK j \in 1..Len(book'[t][r]) : book'[t][r][j] = book[t][r][i]
    BY <2>3
  <2> QED BY <2>2, <2>4 DEF Stands
<1> QED BY <1>3, <1>4

\* The remainder of the order in hand joins the book.
LEMMA StandsAfterRest ==
    ASSUME EngineTypes, Rest
    PROVE  \A o, n : Stands(o, n)' <=> Stands(o, n) \/ (o = taker.id /\ n = taker.filled)
<1> DEFINE t == Asked
           e == [id |-> taker.id, quantity |-> t.quantity, filled |-> taker.filled]
           q == book[t.side][t.price]
<1>0. TypeOK /\ book \in [Side -> [Price -> Seq(Entry)]]
  BY DEF EngineTypes, EngineTypeOK, TypeOK
<1>1. pc = "match" /\ book' = [book EXCEPT ![t.side][t.price] = Append(q, e)]
  BY DEF Rest
<1>2. /\ t.side \in Side /\ t.price \in Price
      /\ e \in Entry /\ e.id = taker.id /\ e.filled = taker.filled
  BY <1>0, <1>1, InHand DEF Entry
<1> DEFINE u == t.side
           v == t.price
<1>3. q \in Seq(Entry) /\ q = book[u][v] /\ u \in Side /\ v \in Price
  BY <1>0, <1>2
<1> HIDE DEF e, q, t, u, v
<1>4. /\ Len(Append(q, e)) = Len(q) + 1 /\ Len(q) \in Nat
      /\ \A i \in 1..Len(q) : Append(q, e)[i] = q[i]
      /\ Append(q, e)[Len(q) + 1] = e
  BY <1>2, <1>3, AppendProperties
<1>5. /\ book'[u][v] = Append(q, e)
      /\ \A s \in Side, p \in Price : ~(s = u /\ p = v) => book'[s][p] = book[s][p]
  BY <1>0, <1>1, <1>3 DEF u, v
<1>6. ASSUME NEW o, NEW n, Stands(o, n)'
      PROVE  Stands(o, n) \/ (o = taker.id /\ n = taker.filled)
  <2>1. PICK s \in Side, p \in Price : \E i \in 1..Len(book'[s][p]) :
           book'[s][p][i].id = o /\ book'[s][p][i].filled = n
    BY <1>6 DEF Stands
  <2>2. PICK i \in 1..Len(book'[s][p]) : book'[s][p][i].id = o /\ book'[s][p][i].filled = n
    BY <2>1
  <2>3. CASE s = u /\ p = v /\ i = Len(q) + 1
    BY <1>2, <1>4, <1>5, <2>2, <2>3
  <2>4. CASE ~(s = u /\ p = v /\ i = Len(q) + 1)
    <3>1. i \in 1..Len(book[s][p]) /\ book'[s][p][i] = book[s][p][i]
      <4>1. CASE s = u /\ p = v
        <5>1. book'[s][p] = Append(q, e) /\ book[s][p] = q
          BY <1>3, <1>5, <4>1
        <5>2. i \in 1..Len(q)
          BY <1>4, <2>4, <4>1, <5>1
        <5> QED BY <1>4, <5>1, <5>2
      <4>2. CASE ~(s = u /\ p = v)
        BY <1>5, <4>2
      <4> QED BY <4>1, <4>2
    <3> QED BY <2>2, <3>1 DEF Stands
  <2> QED BY <2>3, <2>4
<1>7. ASSUME NEW o, NEW n, Stands(o, n)
      PROVE  Stands(o, n)'
  <2>1. PICK s \in Side, p \in Price : \E i \in 1..Len(book[s][p]) :
           book[s][p][i].id = o /\ book[s][p][i].filled = n
    BY <1>7 DEF Stands
  <2>2. PICK i \in 1..Len(book[s][p]) : book[s][p][i].id = o /\ book[s][p][i].filled = n
    BY <2>1
  <2>3. i \in 1..Len(book'[s][p]) /\ book'[s][p][i] = book[s][p][i]
    BY <1>3, <1>4, <1>5
  <2> QED BY <2>2, <2>3 DEF Stands
<1>8. ASSUME NEW o, NEW n, o = taker.id, n = taker.filled
      PROVE  Stands(o, n)'
  <2>1. /\ Len(q) + 1 \in 1..Len(book'[u][v])
        /\ book'[u][v][Len(q) + 1].id = o /\ book'[u][v][Len(q) + 1].filled = n
    BY <1>2, <1>4, <1>5, <1>8
  <2> QED BY <1>3, <2>1 DEF Stands
<1> QED BY <1>6, <1>7, <1>8

-----------------------------------------------------------------------------
(* What the events say, while nothing has failed, of the orders that have    *)
(* been delivered once.                                                      *)

\* When the trades in hand are published, n lots of order o are said to have
\* traded.
Tells(o, n) ==
    /\ \A i \in 1..Len(trades) :
          i > sent /\ trades[i].maker = o => n = published[o].traded + trades[i].quantity
    /\ (\A i \in 1..Len(trades) : i > sent => trades[i].maker # o) => n = published[o].traded

\* An order that nothing is being done with: if it rests, its events say so, or
\* will; if it could rest and does not, they say why.
Kept(o) ==
    /\ \A n \in 0..MaxQty : Stands(o, n) =>
          published[o].accepted /\ published[o].outcomes = <<>> /\ Tells(o, n)
    /\ \/ Waits(o) \/ published[o].outcomes # <<>> \/ ~ Rests(terms[o])
       \/ \E n \in Nat : n = terms[o].quantity /\ Tells(o, n)

InMatch(o)  == pc # "idle" /\ o = taker.id
InCancel(o) == stage = "canceled" /\ o = InHandCommand.order

Unheard == \A o \in OrderId : deliveries[o] = 0 => published[o] = Silence

EachTold ==
    \A o \in OrderId : deliveries[o] = 1 =>
        published[o].outside \/ InMatch(o) \/ InCancel(o) \/ Kept(o)

\* The trades of the order in hand add up to what is filled of it, and those
\* that are sent to what its events say.
SumsUp(o) ==
    \E f \in [0..Len(trades) -> Nat] :
        /\ f[0] = 0
        /\ \A i \in 1..Len(trades) : f[i] = f[i - 1] + trades[i].quantity
        /\ f[Len(trades)] = taker.filled
        /\ f[sent] = published[o].traded

\* No outcome of the order in hand is announced before all its trades are.
TakerTold ==
    \A o \in OrderId : InMatch(o) /\ deliveries[o] = 1 =>
        /\ stage \in {"match", "accept"} => published[o] = Silence
        /\ stage = "trades" => published[o].accepted
        /\ published[o].outcomes = <<>> /\ ~ published[o].outside
        /\ SumsUp(o)
        /\ \A n \in 0..MaxQty : Stands(o, n) =>
              /\ pc = "done" /\ Rests(terms[o]) /\ taker.status # "rejected"
              /\ n = taker.filled /\ n < terms[o].quantity
        /\ pc = "done" /\ Rests(terms[o]) =>
              Waits(o) \/ taker.status = "rejected" \/ taker.filled = terms[o].quantity

\* Each maker trades once with the order in hand.  It has left the book, but
\* for the last, which ends the matching or is about to leave.
MakersTold ==
    \A i \in 1..Len(trades), m \in OrderId : m = trades[i].maker =>
        /\ trades[i].taker = taker.id
        /\ deliveries[m] >= 1
        /\ deliveries[m] = 1 =>
              /\ m # taker.id
              /\ published[m].outside \/ published[m].outcomes = <<>>
              /\ \A j \in 1..Len(trades) : trades[j].maker = m => j = i
              /\ Waits(m) => i = Len(trades) /\ (pc = "pop" \/ taker.filled = Asked.quantity)

\* The maker to be popped is the one of the last trade.
PopsLast ==
    pc = "pop" =>
        /\ trades # <<>>
        /\ \A p \in Price : IsBest(Opposite(Asked.side), p) =>
              Head(book[Opposite(Asked.side)][p]).id = trades[Len(trades)].maker

\* An order that has just been taken out has no outcome yet.
Removes ==
    \A o \in OrderId : InCancel(o) =>
        /\ deliveries[o] >= 1
        /\ deliveries[o] = 1 =>
              ~ Waits(o) /\ (published[o].outside \/ published[o].outcomes = <<>>)

Told == Unheard /\ EachTold /\ TakerTold /\ MakersTold /\ PopsLast /\ Removes

EngineInv ==
    /\ EngineTypes /\ AllFiled
    /\ faults = 0 => AllLive /\ Told

\* While no trade is made or sent, what is told of an order stays.
LEMMA SameTells ==
    ASSUME NEW o, NEW n, UNCHANGED <<trades, sent>>, published'[o] = published[o]
    PROVE  Tells(o, n)' <=> Tells(o, n)
  BY DEF Tells

\* With no trades in hand the events say what they say.
LEMMA TellsPlainly ==
    ASSUME NEW o, NEW n, trades = <<>>
    PROVE  Tells(o, n) <=> n = published[o].traded
<1>1. Len(trades) = 0
  OBVIOUS
<1> QED BY <1>1 DEF Tells

\* An order nothing happens to stays as its events say.
LEMMA Bystander ==
    ASSUME NEW o, terms' = terms, published'[o] = published[o],
           \A n : Stands(o, n)' <=> Stands(o, n),
           \A n : Tells(o, n)' <=> Tells(o, n),
           Kept(o)
    PROVE  Kept(o)'
  BY DEF Kept, Waits

\* The order in hand, and the makers of its trades.
LEMMA InHandTold ==
    ASSUME EngineTypes, AllFiled, Told, pc # "idle"
    PROVE  /\ taker.id \in OrderId /\ InMatch(taker.id)
           /\ deliveries[taker.id] >= 1 /\ deliveries[taker.id] \in Nat
           /\ taker.filled \in Nat /\ Asked.quantity \in Nat
           /\ stage \notin {"loop", "cancel", "canceled", "ack"}
           /\ \A o : ~ InCancel(o)
           /\ \A o \in OrderId : InMatch(o) <=> o = taker.id
<1>1. TypeOK /\ stage \notin {"loop", "cancel", "canceled", "ack"}
  BY DEF EngineTypes, EngineTypeOK, Staged
<1>2. /\ taker.id \in OrderId /\ taker.filled \in 0..MaxQty /\ Asked.quantity \in Qty
      /\ deliveries \in [OrderId -> Nat]
  BY <1>1, InHand DEF TypeOK
<1>3. deliveries[taker.id] >= 1
  BY DEF AllFiled, Registered
<1> QED BY <1>1, <1>2, <1>3, BoundsAssumption DEF InMatch, InCancel, Qty

\* A step that neither the book nor the events know of.
LEMMA QuietStep ==
    ASSUME EngineTypes, Told,
           UNCHANGED <<terms, deliveries, book, trades, sent, published>>,
           \/ UNCHANGED <<taker, pc, stage, batch>>
           \/ UNCHANGED <<taker, pc>> /\ stage = "match" /\ stage' = "accept"
           \/ pc = "idle" /\ pc' = "idle" /\ stage # "canceled" /\ stage' # "canceled"
    PROVE  Told'
<1>1. \A o, n : Stands(o, n)' <=> Stands(o, n)
  BY DEF Stands
<1>2. \A o \in OrderId : \A n : Tells(o, n)' <=> Tells(o, n)
  BY SameTells
<1>3. \A o \in OrderId : Waits(o)' <=> Waits(o)
  BY <1>1 DEF Waits
<1>4. \A o \in OrderId : Kept(o) => Kept(o)'
  BY <1>1, <1>2, Bystander
<1>5. Unheard'
  BY DEF Told, Unheard
<1>6. \A o \in OrderId : InCancel(o)' <=> InCancel(o)
  BY DEF InCancel, InHandCommand
<1>7. CASE UNCHANGED <<taker, pc>> /\ (stage' = stage \/ (stage = "match" /\ stage' = "accept"))
  <2>1. \A o \in OrderId : InMatch(o)' <=> InMatch(o)
    BY <1>7 DEF InMatch
  <2>2. EachTold'
    BY <1>4, <1>6, <2>1 DEF Told, EachTold
  <2>3. TakerTold'
    <3> SUFFICES ASSUME NEW o \in OrderId, InMatch(o), deliveries[o] = 1
                 PROVE  /\ stage' \in {"match", "accept"} => published[o] = Silence
                        /\ stage' = "trades" => published[o].accepted
                        /\ published[o].outcomes = <<>> /\ ~ published[o].outside
                        /\ SumsUp(o)'
                        /\ \A n \in 0..MaxQty : Stands(o, n)' =>
                              /\ pc = "done" /\ Rests(terms[o]) /\ taker.status # "rejected"
                              /\ n = taker.filled /\ n < terms[o].quantity
                        /\ pc = "done" /\ Rests(terms[o]) =>
                              Waits(o)' \/ taker.status = "rejected" \/ taker.filled = terms[o].quantity
      BY <1>7, <2>1 DEF TakerTold
    <3>1. SumsUp(o) => SumsUp(o)'
      BY <1>7 DEF SumsUp
    <3> QED BY <1>1, <1>3, <1>7, <3>1 DEF Told, TakerTold
  <2>4. MakersTold'
    BY <1>3, <1>7 DEF Told, MakersTold, Asked
  <2>5. PopsLast'
    BY <1>7 DEF Told, PopsLast, IsBest, Levels, Asked
  <2>6. Removes'
    BY <1>3, <1>6 DEF Told, Removes
  <2> QED BY <1>5, <2>2, <2>3, <2>4, <2>5, <2>6 DEF Told
<1>8. CASE pc = "idle" /\ pc' = "idle" /\ stage # "canceled" /\ stage' # "canceled"
  <2>1. trades' = <<>> /\ Len(trades') = 0
    BY <1>8 DEF EngineTypes, Staged
  <2>2. EachTold'
    BY <1>4, <1>8 DEF Told, EachTold, InMatch, InCancel
  <2> QED BY <1>5, <1>8, <2>1, <2>2 DEF Told, TakerTold, MakersTold, PopsLast, Removes, InMatch, InCancel
<1> QED BY <1>7, <1>8

\* An order is taken up for the first time: nothing has been said of it, and it
\* is not in the book.
LEMMA ToldAtBegin ==
    ASSUME EngineTypes, AllFiled, Told, BeginPlace
    PROVE  Told'
<1>1. /\ batch # <<>> /\ pc = "idle" /\ stage = "loop" /\ stage' = "match"
      /\ UNCHANGED <<terms, book, trades, sent, published>>
  BY DEF BeginPlace, Receive
<1>2. trades = <<>> /\ sent = 0
  BY <1>1 DEF EngineTypes, Staged
<1>3. PICK x \in OrderId : x = InHandCommand.order
  BY <1>1, CommandInHand
<1>4. /\ deliveries' = [deliveries EXCEPT ![x] = deliveries[x] + 1]
      /\ taker'.id = x /\ taker'.filled = 0
      /\ pc' = "match" \/ (pc' = "done" /\ taker'.status = "rejected")
  BY <1>3 DEF BeginPlace, Receive
<1>5. deliveries[x] \in Nat
  BY DEF EngineTypes, EngineTypeOK, TypeOK
<1>6. /\ deliveries'[x] = deliveries[x] + 1
      /\ \A o \in OrderId \ {x} : deliveries'[o] = deliveries[o]
  BY <1>4 DEF EngineTypes, EngineTypeOK, TypeOK
<1>7. deliveries'[x] # 0 /\ (deliveries'[x] = 1 => deliveries[x] = 0 /\ published[x] = Silence)
  <2>1. deliveries[x] = 0 => published[x] = Silence
    BY DEF Told, Unheard
  <2> QED BY <1>5, <1>6, <2>1
<1>8. \A o, n : Stands(o, n)' <=> Stands(o, n)
  BY <1>1 DEF Stands
<1>9. deliveries'[x] = 1 => \A n : ~ Stands(x, n)
  BY <1>7, OfStanding DEF AllFiled
<1>10. Unheard'
  BY <1>1, <1>6, <1>7 DEF Told, Unheard
<1>11. EachTold'
  <2> SUFFICES ASSUME NEW o \in OrderId, deliveries'[o] = 1, o # x
               PROVE  published[o].outside \/ Kept(o)'
    BY <1>1, <1>4 DEF EachTold, InMatch
  <2>1. published[o].outside \/ Kept(o)
    BY <1>1, <1>6 DEF Told, EachTold, InMatch, InCancel
  <2>2. \A n : Tells(o, n)' <=> Tells(o, n)
    BY <1>1, SameTells
  <2> QED BY <1>1, <1>8, <2>1, <2>2, Bystander
<1>12. TakerTold'
  <2>1. deliveries'[x] = 1 => SumsUp(x)'
    <3> SUFFICES ASSUME deliveries'[x] = 1 PROVE SumsUp(x)'
      OBVIOUS
    <3> DEFINE f == [i \in 0..Len(trades') |-> 0]
    <3>1. Len(trades') = 0 /\ f \in [0..Len(trades') -> Nat] /\ f[0] = 0
      BY <1>1, <1>2
    <3>2. taker'.filled = 0 /\ sent' = 0 /\ published'[x].traded = 0
      BY <1>1, <1>2, <1>4, <1>7 DEF Silence
    <3> HIDE DEF f
    <3> QED BY <3>1, <3>2 DEF SumsUp
  <2> QED BY <1>1, <1>4, <1>7, <1>8, <1>9, <2>1 DEF TakerTold, InMatch, Silence
<1>13. Len(trades') = 0
  BY <1>1, <1>2
<1> QED BY <1>1, <1>4, <1>10, <1>11, <1>12, <1>13 DEF Told, MakersTold, PopsLast, Removes, InCancel

\* An execution leaves the maker or the order in hand with nothing to trade.
LEMMA ExecutionEnds ==
    ASSUME TypeOK, NEW p \in Price, Execute(p)
    PROVE  pc' = "pop" \/ taker'.filled = Asked.quantity
<1> DEFINE maker == Head(book[Opposite(Asked.side)][p])
           want  == Asked.quantity - taker.filled
           qty   == IF want < Left(maker) THEN want ELSE Left(maker)
<1>1. /\ pc = "match"
      /\ taker' = [taker EXCEPT !.filled = taker.filled + qty]
      /\ pc' = IF qty = Left(maker) THEN "pop" ELSE "match"
  BY DEF Execute
<1>2. taker \in [id: OrderId, filled: 0..MaxQty, status: Status] /\ Asked.quantity \in Qty
  BY <1>1, InHand
<1>3. taker'.filled = taker.filled + qty
  BY <1>1, <1>2
<1>4. qty = Left(maker) \/ qty = want
  OBVIOUS
<1> HIDE DEF qty, maker
<1>5. qty = want => taker.filled + qty = Asked.quantity
  BY <1>2, BoundsAssumption DEF Qty
<1> QED BY <1>1, <1>3, <1>4, <1>5

\* The maker of a new trade has told nothing final, and has no other trade.
LEMMA ToldAtExecution ==
    ASSUME EngineTypes, AllFiled, Told, Match, NEW p \in Price, Execute(p)
    PROVE  Told'
<1>0. TypeOK /\ Filed(book)
  BY DEF EngineTypes, EngineTypeOK, AllFiled
<1>1. PICK qty \in Qty : Executed(p, qty)
  BY <1>0, ExecutedQuantity
<1>2. PICK x \in OrderId, k \in Nat :
         /\ x = Head(book[Opposite(Asked.side)][p]).id
         /\ Stands(x, k) /\ k + qty \in 0..MaxQty
         /\ deliveries[x] = 1 => \A n : Stands(x, n)' <=> n = k + qty
         /\ \A o, n : o # x => (Stands(o, n)' <=> Stands(o, n))
  BY <1>0, <1>1, StandsAfterExecution
<1>3. /\ pc = "match" /\ pc' \in {"match", "pop"} /\ IsBest(Opposite(Asked.side), p)
      /\ UNCHANGED <<terms, deliveries, batch, stage, sent, published>>
      /\ taker' = [taker EXCEPT !.filled = taker.filled + qty]
  BY <1>1 DEF Executed, Match, engineVars
<1>4. stage = "match" /\ sent = 0 /\ trades \in Seq(Trade) /\ Len(trades) \in Nat
  BY <1>0 DEF Match, EngineTypes, Staged, TypeOK
<1>5. taker \in [id: OrderId, filled: 0..MaxQty, status: Status] /\ taker.id \in OrderId
  BY <1>0, <1>3, InHand
<1>6. taker'.id = taker.id /\ taker'.filled = taker.filled + qty /\ qty \in Nat /\ taker.filled \in Nat
  BY <1>3, <1>5, BoundsAssumption DEF Qty
<1> DEFINE new == [maker |-> x, taker |-> taker.id, price |-> p, quantity |-> qty]
           L   == Len(trades)
<1>7. trades' = Append(trades, new)
  BY <1>1, <1>2 DEF Executed
<1>8. new \in Trade /\ new.maker = x /\ new.taker = taker.id /\ new.quantity = qty
  BY <1>5 DEF Trade
<1> HIDE DEF new
<1>9. /\ Len(trades') = L + 1 /\ trades'[L + 1] = new
      /\ \A i \in 1..L : trades'[i] = trades[i]
  BY <1>4, <1>7, <1>8, AppendProperties
<1> HIDE DEF L
<1>a. L \in Nat /\ L = Len(trades)
  BY <1>4 DEF L
<1>10. /\ x \in OrderId /\ deliveries[x] >= 1 /\ Waits(x) /\ k \in 0..MaxQty
       /\ deliveries[x] = 1 => \A n : Stands(x, n) => n = k
  BY <1>0, <1>2, OfStanding
<1>11. deliveries[x] = 1 => x # taker.id
  BY <1>2, <1>3, <1>5, <1>10 DEF Told, TakerTold, InMatch
<1>12. \A i \in 1..L, m \in OrderId : m = trades[i].maker /\ deliveries[m] = 1 => ~ Waits(m)
  <2>1. taker.filled # Asked.quantity
    <3>1. taker.filled < Asked.quantity
      BY DEF Execute, CanTrade, Unfilled
    <3> QED BY <1>0, <1>3, <1>6, <3>1, InHand, BoundsAssumption DEF Qty
  <2> QED BY <1>3, <1>a, <2>1 DEF Told, MakersTold
<1>13. deliveries[x] = 1 => \A i \in 1..L : trades[i].maker # x
  BY <1>10, <1>12
<1>14. deliveries[x] = 1 => published[x].outside \/ Kept(x)
  BY <1>3, <1>4, <1>10, <1>11 DEF Told, EachTold, InMatch, InCancel
<1>15. deliveries[x] = 1 /\ ~ published[x].outside =>
          published[x].accepted /\ published[x].outcomes = <<>> /\ Tells(x, k)
  BY <1>2, <1>10, <1>14 DEF Kept
<1>16. \A o, n : o # x => (Tells(o, n)' <=> Tells(o, n))
  <2> SUFFICES ASSUME NEW o, NEW n, o # x
               PROVE  Tells(o, n)' <=> Tells(o, n)
    OBVIOUS
  <2>1. \A i \in 1..(L + 1) : i \in 1..L \/ i = L + 1
    BY <1>a
  <2>2. trades'[L + 1].maker # o
    BY <1>8, <1>9
  <2>3. L + 1 \in 1..(L + 1) /\ \A i \in 1..L : i \in 1..(L + 1)
    BY <1>a
  <2> QED BY <1>3, <1>9, <1>a, <2>1, <2>2, <2>3 DEF Tells
<1>17. Unheard'
  BY <1>3 DEF Told, Unheard
<1>18. EachTold'
  <2> SUFFICES ASSUME NEW o \in OrderId, deliveries[o] = 1, o # taker.id
               PROVE  published[o].outside \/ Kept(o)'
    BY <1>3, <1>6 DEF EachTold, InMatch
  <2>1. published[o].outside \/ Kept(o)
    BY <1>4 DEF Told, EachTold, InMatch, InCancel
  <2>2. CASE o # x
    BY <1>2, <1>3, <1>16, <2>1, <2>2, Bystander
  <2>3. CASE o = x /\ ~ published[x].outside
    <3>1. k = published[x].traded
      BY <1>13, <1>15, <1>a, <2>3 DEF Tells
    <3>2. \A n : n = k + qty => Tells(x, n)'
      <4> SUFFICES ASSUME NEW n, n = k + qty
                   PROVE  Tells(x, n)'
        OBVIOUS
      <4>1. L + 1 \in 1..(L + 1) /\ L + 1 > sent
        BY <1>4, <1>a
      <4>2. \A i \in 1..(L + 1) : trades'[i].maker = x => i = L + 1
        BY <1>9, <1>13, <1>a, <2>3
      <4> QED BY <1>3, <1>8, <1>9, <3>1, <4>1, <4>2 DEF Tells
    <3>3. \A n : Stands(x, n)' => n = k + qty
      BY <1>2, <2>3
    <3>4. Waits(x)'
      BY <1>2, <2>3 DEF Waits
    <3> QED BY <1>3, <1>15, <2>3, <3>2, <3>3, <3>4 DEF Kept
  <2> QED BY <2>1, <2>2, <2>3
<1>19. TakerTold'
  <2> SUFFICES ASSUME NEW o \in OrderId, o = taker.id, deliveries[o] = 1
               PROVE  /\ published[o] = Silence
                      /\ SumsUp(o)'
                      /\ \A n : ~ Stands(o, n)'
    BY <1>3, <1>4, <1>6 DEF TakerTold, InMatch, Silence
  <2>1. InMatch(o) /\ published[o] = Silence /\ SumsUp(o) /\ \A n \in 0..MaxQty : ~ Stands(o, n)
    BY <1>3, <1>4 DEF Told, TakerTold, InMatch
  <2>2. \A n : ~ Stands(o, n)
    BY <1>0, <2>1, OfStanding
  <2>3. SumsUp(o)'
    <3>1. PICK f \in [0..L -> Nat] :
             /\ f[0] = 0
             /\ \A i \in 1..L : f[i] = f[i - 1] + trades[i].quantity
             /\ f[L] = taker.filled
             /\ f[sent] = published[o].traded
      BY <1>a, <2>1 DEF SumsUp
    <3> DEFINE g == [i \in 0..(L + 1) |-> IF i = L + 1 THEN taker.filled + qty ELSE f[i]]
    <3>2. /\ g \in [0..(L + 1) -> Nat]
          /\ g[L + 1] = taker.filled + qty
          /\ \A i \in 0..L : g[i] = f[i]
      BY <1>6, <1>a
    <3> HIDE DEF g
    <3>3. ASSUME NEW i \in 1..(L + 1)
          PROVE  g[i] = g[i - 1] + trades'[i].quantity
      <4>1. CASE i = L + 1
        <5>1. L \in 0..L /\ i - 1 = L
          BY <1>a, <4>1
        <5> QED BY <1>8, <1>9, <3>1, <3>2, <4>1, <5>1
      <4>2. CASE i # L + 1
        <5>1. i \in 1..L /\ i \in 0..L /\ i - 1 \in 0..L
          BY <1>a, <4>2
        <5> QED BY <1>9, <3>1, <3>2, <5>1
      <4> QED BY <4>1, <4>2
    <3>4. g[0] = 0 /\ g[sent] = published[o].traded
      BY <1>4, <1>a, <3>1, <3>2
    <3> QED BY <1>3, <1>6, <1>9, <3>2, <3>3, <3>4 DEF SumsUp
  <2> QED BY <1>2, <1>11, <2>1, <2>2, <2>3
<1>20. MakersTold'
  <2> SUFFICES ASSUME NEW i \in 1..(L + 1), NEW m \in OrderId, m = trades'[i].maker
               PROVE  /\ trades'[i].taker = taker.id
                      /\ deliveries[m] >= 1
                      /\ deliveries[m] = 1 =>
                            /\ m # taker.id
                            /\ published[m].outside \/ published[m].outcomes = <<>>
                            /\ \A j \in 1..(L + 1) : trades'[j].maker = m => j = i
                            /\ Waits(m)' => i = L + 1 /\ (pc' = "pop" \/ taker'.filled = Asked.quantity)
    BY <1>3, <1>6, <1>9 DEF MakersTold, Asked
  <2>0. \A j \in 1..(L + 1) : j \in 1..L \/ j = L + 1
    BY <1>a
  <2>1. CASE i = L + 1
    <3>1. m = x /\ trades'[i].taker = taker.id
      BY <1>8, <1>9, <2>1
    <3>2. deliveries[m] = 1 => \A j \in 1..(L + 1) : trades'[j].maker = m => j = i
      BY <1>9, <1>13, <2>0, <2>1, <3>1
    <3>3. pc' = "pop" \/ taker'.filled = Asked.quantity
      BY <1>0, ExecutionEnds
    <3> QED BY <1>10, <1>11, <1>15, <2>1, <3>1, <3>2, <3>3
  <2>2. CASE i \in 1..L
    <3>1. m = trades[i].maker /\ trades'[i] = trades[i] /\ (deliveries[m] = 1 => m # x)
      BY <1>9, <1>13, <2>2
    <3>2. /\ trades[i].taker = taker.id
          /\ deliveries[m] >= 1
          /\ deliveries[m] = 1 =>
                /\ m # taker.id
                /\ published[m].outside \/ published[m].outcomes = <<>>
                /\ \A j \in 1..L : trades[j].maker = m => j = i
      BY <1>a, <2>2, <3>1 DEF Told, MakersTold
    <3>3. deliveries[m] = 1 => \A j \in 1..(L + 1) : trades'[j].maker = m => j = i
      BY <1>8, <1>9, <2>0, <3>1, <3>2
    <3>4. deliveries[m] = 1 => ~ Waits(m)'
      BY <1>2, <1>12, <2>2, <3>1 DEF Waits
    <3> QED BY <3>1, <3>2, <3>3, <3>4
  <2> QED BY <2>0, <2>1, <2>2
<1>21. PopsLast'
  <2>1. PICK s \in Side : s = Opposite(Asked.side)
    BY <1>0, <1>3, InHand
  <2>2. /\ Len(book'[s][p]) = Len(book[s][p])
        /\ \A i \in 1..Len(book[s][p]) : book'[s][p][i].id = book[s][p][i].id
        /\ Levels(s)' = Levels(s)
        /\ Asked' = Asked
    BY <1>0, <1>1, <2>1, AfterExecution
  <2>3. book[s][p] \in Seq(Entry) /\ book'[s][p] \in Seq(Entry) /\ book[s][p] # <<>>
    <3>1. TypeOK'
      BY <1>0, TypeNext DEF Next
    <3> QED BY <1>0, <1>3, <2>1, <3>1 DEF TypeOK, IsBest, Levels
  <2>4. Opposite(Asked.side)' = s
    BY <2>1, <2>2 DEF Opposite
  <2>5. Head(book'[s][p]).id = x
    <3>1. 1 \in 1..Len(book[s][p]) /\ Head(book'[s][p]) = book'[s][p][1] /\ Head(book[s][p]) = book[s][p][1]
      BY <2>2, <2>3
    <3> QED BY <1>2, <2>1, <2>2, <3>1
  <2>6. \A r \in Price : IsBest(s, r)' => IsBest(s, r)
    BY <2>2 DEF IsBest
  <2>7. \A r \in Price : IsBest(s, r)' => r = p
    BY <1>3, <2>1, <2>6, BestLevelUnique
  <2>8. trades' # <<>> /\ trades'[Len(trades')].maker = x
    BY <1>7, <1>8, <1>9, <1>a
  <2>9. \A r \in Price : IsBest(Opposite(Asked.side), r)' => IsBest(s, r)'
    BY <2>4 DEF IsBest
  <2> QED BY <2>4, <2>5, <2>7, <2>8, <2>9 DEF PopsLast
<1>22. Removes'
  BY <1>3, <1>4 DEF Removes, InCancel
<1> QED BY <1>17, <1>18, <1>19, <1>20, <1>21, <1>22 DEF Told

\* A maker that is popped is filled, and its last trade will say so.
LEMMA ToldAtPop ==
    ASSUME EngineTypes, AllFiled, Told, Match, NEW p \in Price, PopFilled(p)
    PROVE  Told'
<1>0. TypeOK /\ Filed(book)
  BY DEF EngineTypes, EngineTypeOK, AllFiled
<1>1. /\ pc = "pop" /\ pc' = "match" /\ stage = "match"
      /\ UNCHANGED <<terms, deliveries, taker, trades, batch, stage, sent, published>>
  BY DEF PopFilled, Match, engineVars
<1>2. PICK s \in Side : s = Opposite(Asked.side) /\ IsBest(s, p)
  BY <1>0, <1>1, InHand DEF PopFilled
<1>3. /\ book[s][p] \in Seq(Entry) /\ book[s][p] # <<>> /\ 1 \in 1..Len(book[s][p])
      /\ Head(book[s][p]) = book[s][p][1] /\ book[s][p][1] \in Entry
  BY <1>0, <1>2, BestMaker
<1>4. PICK x \in OrderId : x = book[s][p][1].id
  BY <1>3 DEF Entry
<1>5. Removed(s, p, 1)
  <2>1. Tail(book[s][p]) = RemoveAt(book[s][p], 1)
    BY <1>3, TailIsRemoveAt
  <2> QED BY <1>1, <1>2, <1>3, <2>1 DEF PopFilled, Removed, Forget
<1>6. /\ \A o, n : o # x => (Stands(o, n)' <=> Stands(o, n))
      /\ deliveries[x] = 1 => \A n : ~ Stands(x, n)'
  <2>1. 1 \in 1..Len(book[s][p]) /\ Filed(book) /\ x = book[s][p][1].id
    BY <1>0, <1>3, <1>4
  <2> QED BY <1>5, <2>1, StandsAfterRemoval
<1>7. /\ Len(trades) \in Nat /\ Len(trades) \in 1..Len(trades)
      /\ x = trades[Len(trades)].maker
  <2>1. trades # <<>> /\ trades \in Seq(Trade)
    BY <1>0, <1>1 DEF Told, PopsLast, TypeOK
  <2> QED BY <1>1, <1>2, <1>3, <1>4, <2>1 DEF Told, PopsLast
<1>8. PICK k \in Nat : k = terms[x].quantity /\ Stands(x, k)
  <2>1. Left(book[s][p][1]) = 0
    BY <1>1, <1>2, <1>3 DEF AllFiled, FilledAtFront
  <2>2. terms[x].quantity = book[s][p][1].quantity
    <3>1. OnFile(terms, deliveries, book[s][p], s, p)
      BY <1>0 DEF Filed, FiledIn
    <3> QED BY <1>3, <1>4, <3>1 DEF OnFile
  <2>3. book[s][p][1].filled = terms[x].quantity /\ book[s][p][1].filled \in Nat
    <3> PICK m \in Entry : m = book[s][p][1]
      BY <1>3
    <3>1. m.filled \in Nat /\ m.quantity \in Nat
      BY BoundsAssumption DEF Entry, Qty
    <3>2. m.quantity - m.filled = 0
      BY <2>1 DEF Left
    <3>3. m.filled = m.quantity
      BY <3>1, <3>2
    <3> QED BY <2>2, <3>1, <3>3
  <2> QED BY <1>3, <1>4, <2>3 DEF Stands
<1>9. (deliveries[x] = 1 => x # taker.id) /\ Waits(x) /\ k \in 0..MaxQty
  <2>1. deliveries[x] = 1 => x # taker.id
    BY <1>7 DEF Told, MakersTold
  <2> QED BY <1>0, <1>8, <2>1, OfStanding
<1>10. \A o, n : Tells(o, n)' <=> Tells(o, n)
  BY <1>1, SameTells
<1>11. Unheard'
  BY <1>1 DEF Told, Unheard
<1>12. EachTold'
  <2> SUFFICES ASSUME NEW o \in OrderId, deliveries[o] = 1, o # taker.id
               PROVE  published[o].outside \/ Kept(o)'
    BY <1>1 DEF EachTold, InMatch
  <2>1. published[o].outside \/ Kept(o)
    BY <1>1 DEF Told, EachTold, InMatch, InCancel
  <2>2. CASE o # x
    BY <1>1, <1>6, <1>10, <2>1, <2>2, Bystander
  <2>3. CASE o = x /\ Kept(x)
    <3>1. Tells(x, k)
      BY <1>8, <1>9, <2>3 DEF Kept
    <3>2. Tells(x, k)' /\ \A n : ~ Stands(x, n)'
      BY <1>6, <1>10, <2>3, <3>1
    <3> QED BY <1>1, <1>8, <2>3, <3>2 DEF Kept
  <2> QED BY <2>1, <2>2, <2>3
<1>13. TakerTold'
  <2> SUFFICES ASSUME NEW o \in OrderId, o = taker.id, deliveries[o] = 1
               PROVE  /\ published[o] = Silence
                      /\ SumsUp(o)'
                      /\ \A n \in 0..MaxQty : ~ Stands(o, n)'
    BY <1>1 DEF TakerTold, InMatch, Silence
  <2>1. published[o] = Silence /\ SumsUp(o) /\ \A n \in 0..MaxQty : ~ Stands(o, n)
    BY <1>1 DEF Told, TakerTold, InMatch
  <2>2. SumsUp(o)'
    BY <1>1, <2>1 DEF SumsUp
  <2>3. o # x
    BY <1>9
  <2> QED BY <1>6, <2>1, <2>2, <2>3
<1>14. MakersTold'
  <2> SUFFICES ASSUME NEW i \in 1..Len(trades), NEW m \in OrderId, m = trades[i].maker,
                      deliveries[m] = 1
               PROVE  ~ Waits(m)'
    BY <1>1 DEF Told, MakersTold
  <2>1. Waits(m) => m = x
    BY <1>7 DEF Told, MakersTold
  <2> QED BY <1>6, <2>1 DEF Waits
<1> QED BY <1>1, <1>11, <1>12, <1>13, <1>14 DEF Told, PopsLast, Removes, InCancel

\* The remainder of an order rests, filled as far as its trades say.
LEMMA ToldAtRest ==
    ASSUME EngineTypes, AllFiled, Told, Match, Rest
    PROVE  Told'
<1>0. TypeOK /\ Filed(book)
  BY DEF EngineTypes, EngineTypeOK, AllFiled
<1>1. /\ pc = "match" /\ pc' = "done" /\ stage = "match" /\ Rests(Asked)
      /\ taker.filled < Asked.quantity
      /\ UNCHANGED <<terms, deliveries, trades, batch, stage, sent, published>>
      /\ taker' = [taker EXCEPT !.status = IF taker.filled > 0 THEN "partially_filled" ELSE "open"]
  BY DEF Rest, Unfilled, Match, engineVars
<1>2. taker \in [id: OrderId, filled: 0..MaxQty, status: Status] /\ Asked.quantity \in Qty
  BY <1>0, <1>1, InHand
<1>3. taker'.id = taker.id /\ taker'.filled = taker.filled /\ taker'.status # "rejected"
  BY <1>1, <1>2
<1>4. PICK x \in OrderId, k \in 0..MaxQty :
         x = taker.id /\ k = taker.filled /\ terms[x].quantity = Asked.quantity
         /\ k < terms[x].quantity /\ Rests(terms[x])
  BY <1>1, <1>2 DEF Asked
<1>5. \A o, n : Stands(o, n)' <=> Stands(o, n) \/ (o = x /\ n = k)
  BY <1>4, StandsAfterRest
<1>6. \A o, n : Tells(o, n)' <=> Tells(o, n)
  BY <1>1, SameTells
<1>7. Unheard'
  BY <1>1 DEF Told, Unheard
<1>8. EachTold'
  <2> SUFFICES ASSUME NEW o \in OrderId, deliveries[o] = 1, o # x
               PROVE  published[o].outside \/ Kept(o)'
    BY <1>1, <1>3, <1>4 DEF EachTold, InMatch
  <2>1. published[o].outside \/ Kept(o)
    BY <1>1, <1>4 DEF Told, EachTold, InMatch, InCancel
  <2> QED BY <1>1, <1>5, <1>6, <2>1, Bystander
<1>9. TakerTold'
  <2> SUFFICES ASSUME deliveries[x] = 1
               PROVE  TakerTold'
    BY <1>1, <1>3, <1>4 DEF TakerTold, InMatch
  <2>1. published[x] = Silence /\ SumsUp(x) /\ \A n \in 0..MaxQty : ~ Stands(x, n)
    BY <1>1, <1>4 DEF Told, TakerTold, InMatch
  <2>2. SumsUp(x)'
    BY <1>1, <1>3, <2>1 DEF SumsUp
  <2>3. Waits(x)' /\ \A n \in 0..MaxQty : Stands(x, n)' => n = k
    BY <1>4, <1>5, <2>1 DEF Waits
  <2> QED BY <1>1, <1>3, <1>4, <2>1, <2>2, <2>3 DEF TakerTold, InMatch, Silence
<1>10. MakersTold'
  <2> SUFFICES ASSUME NEW i \in 1..Len(trades), NEW m \in OrderId, m = trades[i].maker,
                      deliveries[m] = 1
               PROVE  ~ Waits(m)'
    BY <1>1, <1>3 DEF Told, MakersTold
  <2>1. m # x /\ ~ Waits(m)
    BY <1>1, <1>2, <1>4, BoundsAssumption DEF Told, MakersTold, Qty
  <2> QED BY <1>5, <2>1 DEF Waits
<1> QED BY <1>1, <1>7, <1>8, <1>9, <1>10 DEF Told, PopsLast, Removes, InCancel

\* The remainder is dropped, or there is none.
LEMMA ToldAtEnd ==
    ASSUME EngineTypes, AllFiled, Told, Match, Discard \/ Complete
    PROVE  Told'
<1>0. TypeOK
  BY DEF EngineTypes, EngineTypeOK
<1>1. /\ pc = "match" /\ pc' = "done" /\ stage = "match"
      /\ ~ Rests(Asked) \/ taker.filled = Asked.quantity
      /\ UNCHANGED <<terms, deliveries, book, trades, batch, stage, sent, published>>
      /\ \E st : taker' = [taker EXCEPT !.status = st]
  BY DEF Discard, Complete, Match, engineVars
<1>2. taker \in [id: OrderId, filled: 0..MaxQty, status: Status]
  BY <1>0, <1>1, InHand
<1>3. taker'.id = taker.id /\ taker'.filled = taker.filled
  BY <1>1, <1>2
<1>4. \A o, n : Stands(o, n)' <=> Stands(o, n)
  BY <1>1 DEF Stands
<1>5. \A o, n : Tells(o, n)' <=> Tells(o, n)
  BY <1>1, SameTells
<1>6. Unheard'
  BY <1>1 DEF Told, Unheard
<1>7. EachTold'
  <2> SUFFICES ASSUME NEW o \in OrderId, deliveries[o] = 1, o # taker.id
               PROVE  published[o].outside \/ Kept(o)'
    BY <1>1, <1>3 DEF EachTold, InMatch
  <2>1. published[o].outside \/ Kept(o)
    BY <1>1 DEF Told, EachTold, InMatch, InCancel
  <2> QED BY <1>1, <1>4, <1>5, <2>1, Bystander
<1>8. TakerTold'
  <2> SUFFICES ASSUME NEW o \in OrderId, o = taker.id, deliveries[o] = 1
               PROVE  /\ published[o] = Silence
                      /\ SumsUp(o)'
                      /\ \A n \in 0..MaxQty : ~ Stands(o, n)'
                      /\ ~ Rests(terms[o]) \/ taker.filled = terms[o].quantity
    BY <1>1, <1>3 DEF TakerTold, InMatch, Silence
  <2>1. published[o] = Silence /\ SumsUp(o) /\ \A n \in 0..MaxQty : ~ Stands(o, n)
    BY <1>1 DEF Told, TakerTold, InMatch
  <2>2. SumsUp(o)'
    BY <1>1, <1>3, <2>1 DEF SumsUp
  <2> QED BY <1>1, <1>4, <2>1, <2>2 DEF Asked
<1>9. MakersTold'
  <2>1. \A m : Waits(m)' <=> Waits(m)
    BY <1>4 DEF Waits
  <2> QED BY <1>1, <1>3, <2>1 DEF Told, MakersTold, Asked
<1> QED BY <1>1, <1>6, <1>7, <1>8, <1>9 DEF Told, PopsLast, Removes, InCancel

\* ORDER_ACCEPTED concerns the order in hand only.
LEMMA ToldAtAccept ==
    ASSUME EngineTypes, AllFiled, Told, PublishAccepted
    PROVE  Told'
<1>1. /\ pc # "idle" /\ stage = "accept" /\ stage' = "trades" /\ pc = "done"
      /\ UNCHANGED <<terms, deliveries, book, taker, trades, pc, batch, sent>>
  BY DEF PublishAccepted, vars, EngineTypes, Staged
<1>2. PICK x \in OrderId : x = taker.id
  BY <1>1, InHandTold
<1>3. /\ deliveries[x] = 1 => published[x] = Silence
      /\ deliveries[x] >= 1 /\ deliveries[x] \in Nat
      /\ \A o \in OrderId : InMatch(o) <=> o = x
      /\ \A o : ~ InCancel(o)
  BY <1>1, <1>2, InHandTold DEF Told, TakerTold
<1>4. /\ published'[x] = [published[x] EXCEPT !.accepted = TRUE]
      /\ \A o \in OrderId \ {x} : published'[o] = published[o]
  BY <1>2, AcceptedSaid
<1>5. deliveries[x] = 1 =>
         /\ published'[x].accepted /\ published'[x].traded = published[x].traded
         /\ published'[x].outcomes = <<>> /\ ~ published'[x].outside
  BY <1>3, <1>4 DEF Silence
<1>6. \A o, n : Stands(o, n)' <=> Stands(o, n)
  BY <1>1 DEF Stands
<1>7. \A o \in OrderId \ {x} : \A n : Tells(o, n)' <=> Tells(o, n)
  BY <1>1, <1>4, SameTells
<1>8. Unheard'
  BY <1>1, <1>3, <1>4 DEF Told, Unheard
<1>9. EachTold'
  <2> SUFFICES ASSUME NEW o \in OrderId, deliveries[o] = 1, o # x
               PROVE  published'[o].outside \/ Kept(o)'
    BY <1>1, <1>2 DEF EachTold, InMatch
  <2>1. published[o].outside \/ Kept(o)
    BY <1>3 DEF Told, EachTold
  <2> QED BY <1>1, <1>4, <1>6, <1>7, <2>1, Bystander
<1>10. TakerTold'
  <2> SUFFICES ASSUME deliveries[x] = 1
               PROVE  TakerTold'
    BY <1>1, <1>2 DEF TakerTold, InMatch
  <2>1. /\ SumsUp(x)
        /\ \A n \in 0..MaxQty : Stands(x, n) =>
              /\ pc = "done" /\ Rests(terms[x]) /\ taker.status # "rejected"
              /\ n = taker.filled /\ n < terms[x].quantity
        /\ pc = "done" /\ Rests(terms[x]) =>
              Waits(x) \/ taker.status = "rejected" \/ taker.filled = terms[x].quantity
    BY <1>3 DEF Told, TakerTold
  <2>2. SumsUp(x)'
    BY <1>1, <1>5, <2>1 DEF SumsUp
  <2>3. Waits(x)' <=> Waits(x)
    BY <1>6 DEF Waits
  <2> QED BY <1>1, <1>2, <1>5, <1>6, <2>1, <2>2, <2>3 DEF TakerTold, InMatch
<1>11. MakersTold'
  <2>1. \A m : Waits(m)' <=> Waits(m)
    BY <1>6 DEF Waits
  <2> QED BY <1>1, <1>2, <1>4, <2>1 DEF Told, MakersTold, Asked
<1> QED BY <1>1, <1>8, <1>9, <1>10, <1>11 DEF Told, PopsLast, Removes, InCancel

\* TRADE_EXECUTED brings the events of both orders one trade forward.
LEMMA ToldAtTrade ==
    ASSUME EngineTypes, AllFiled, Told, PublishTrade
    PROVE  Told'
<1>1. /\ pc # "idle" /\ stage = "trades" /\ pc = "done"
      /\ UNCHANGED <<terms, deliveries, book, taker, trades, pc, batch, stage>>
  BY DEF PublishTrade, vars, EngineTypes, Staged
<1>2. PICK x \in OrderId : x = taker.id
  BY <1>1, InHandTold
<1>3. sent \in Nat /\ sent + 1 \in 1..Len(trades) /\ sent' = sent + 1
  BY TradeSaid DEF EngineTypes, EngineTypeOK
<1>4. PICK m \in OrderId, q \in Nat :
         m = trades[sent + 1].maker /\ q = trades[sent + 1].quantity
  BY <1>3, TradeOf
<1>5. /\ trades[sent + 1].taker = x
      /\ deliveries[m] >= 1
      /\ deliveries[m] = 1 =>
            /\ m # x
            /\ \A j \in 1..Len(trades) : trades[j].maker = m => j = sent + 1
  BY <1>2, <1>3, <1>4 DEF Told, MakersTold
<1>6. /\ \A o \in OrderId :
            /\ published'[o].accepted = published[o].accepted
            /\ published'[o].outside = published[o].outside
            /\ published'[o].outcomes = published[o].outcomes
            /\ o \notin {m, x} => published'[o] = published[o]
      /\ m # x => /\ published'[m].traded = published[m].traded + q
                  /\ published'[x].traded = published[x].traded + q
  BY <1>4, <1>5, TradeSaid
<1>7. /\ deliveries[x] >= 1 /\ deliveries[m] \in Nat /\ deliveries[x] \in Nat
      /\ \A o \in OrderId : InMatch(o) <=> o = x
      /\ \A o : ~ InCancel(o)
  BY <1>1, <1>2, InHandTold DEF EngineTypes, EngineTypeOK, TypeOK
<1>8. \A o, n : Stands(o, n)' <=> Stands(o, n)
  BY <1>1 DEF Stands
<1>9. ASSUME NEW o \in OrderId, o \notin {m, x}, NEW n
      PROVE  Tells(o, n)' <=> Tells(o, n)
  <2>1. \A i \in 1..Len(trades) : trades[i].maker = o => i # sent + 1
    BY <1>4, <1>9
  <2>2. \A i \in 1..Len(trades) : trades[i].maker = o => (i > sent <=> i > sent + 1)
    BY <1>3, <2>1
  <2> QED BY <1>1, <1>3, <1>6, <1>9, <2>2 DEF Tells
<1>10. ASSUME deliveries[m] = 1, NEW n, Tells(m, n)
       PROVE  Tells(m, n)'
  <2>1. n = published[m].traded + q
    BY <1>3, <1>4, <1>10 DEF Tells
  <2>2. \A i \in 1..Len(trades) : i > sent' => trades[i].maker # m
    BY <1>3, <1>5, <1>10
  <2> QED BY <1>1, <1>5, <1>6, <1>10, <2>1, <2>2 DEF Tells
<1>11. Unheard'
  BY <1>1, <1>5, <1>6, <1>7 DEF Told, Unheard
<1>12. EachTold'
  <2> SUFFICES ASSUME NEW o \in OrderId, deliveries[o] = 1, o # x
               PROVE  published'[o].outside \/ Kept(o)'
    BY <1>1, <1>2 DEF EachTold, InMatch
  <2>1. published[o].outside \/ Kept(o)
    BY <1>7 DEF Told, EachTold
  <2>2. CASE o # m
    <3>1. published'[o] = published[o]
      BY <1>6, <2>2
    <3>2. \A n : Tells(o, n)' <=> Tells(o, n)
      BY <1>9, <2>2
    <3> QED BY <1>1, <1>8, <2>1, <3>1, <3>2, Bystander
  <2>3. CASE o = m /\ Kept(m)
    <3>1. Waits(m)' <=> Waits(m)
      BY <1>8 DEF Waits
    <3> QED BY <1>1, <1>6, <1>8, <1>10, <2>3, <3>1 DEF Kept
  <2> QED BY <1>6, <2>1, <2>2, <2>3
<1>13. TakerTold'
  <2> SUFFICES ASSUME deliveries[x] = 1
               PROVE  TakerTold'
    BY <1>1, <1>2 DEF TakerTold, InMatch
  <2>0. m # x
    BY <1>5
  <2>1. /\ published[x].accepted /\ published[x].outcomes = <<>> /\ ~ published[x].outside
        /\ SumsUp(x)
        /\ \A n \in 0..MaxQty : Stands(x, n) =>
              /\ pc = "done" /\ Rests(terms[x]) /\ taker.status # "rejected"
              /\ n = taker.filled /\ n < terms[x].quantity
        /\ pc = "done" /\ Rests(terms[x]) =>
              Waits(x) \/ taker.status = "rejected" \/ taker.filled = terms[x].quantity
    BY <1>1, <1>7 DEF Told, TakerTold
  <2>2. SumsUp(x)'
    <3>1. PICK f \in [0..Len(trades) -> Nat] :
             /\ f[0] = 0
             /\ \A i \in 1..Len(trades) : f[i] = f[i - 1] + trades[i].quantity
             /\ f[Len(trades)] = taker.filled
             /\ f[sent] = published[x].traded
      BY <2>1 DEF SumsUp
    <3>2. f[sent + 1] = f[sent] + q
      <4>1. f[sent + 1] = f[(sent + 1) - 1] + trades[sent + 1].quantity
        BY <1>3, <3>1
      <4>2. (sent + 1) - 1 = sent
        BY <1>3
      <4> QED BY <1>4, <4>1, <4>2
    <3>3. f[sent'] = published'[x].traded
      BY <1>3, <1>6, <2>0, <3>1, <3>2
    <3> QED BY <1>1, <3>1, <3>3 DEF SumsUp
  <2>3. Waits(x)' <=> Waits(x)
    BY <1>8 DEF Waits
  <2>4. published'[x].accepted /\ published'[x].outcomes = <<>> /\ ~ published'[x].outside
    BY <1>6, <2>1
  <2> QED BY <1>1, <1>2, <1>8, <2>1, <2>2, <2>3, <2>4 DEF TakerTold, InMatch
<1>14. MakersTold'
  <2>1. \A o : Waits(o)' <=> Waits(o)
    BY <1>8 DEF Waits
  <2> QED BY <1>1, <1>6, <2>1 DEF Told, MakersTold, Asked
<1> QED BY <1>1, <1>11, <1>12, <1>13, <1>14 DEF Told, PopsLast, Removes, InCancel

\* The outcome is announced when every trade is: then the events of the order
\* say all of it, and it rests if they do not say otherwise.
LEMMA ToldAtOutcome ==
    ASSUME EngineTypes, AllFiled, Told, PublishOutcome
    PROVE  Told'
<1>0. TypeOK /\ Filed(book)
  BY DEF EngineTypes, EngineTypeOK, AllFiled
<1>1. /\ pc = "done" /\ pc' = "idle" /\ stage = "trades" /\ stage' = "ack"
      /\ sent = Len(trades) /\ trades' = <<>> /\ sent' = 0
      /\ UNCHANGED <<terms, deliveries, book, batch>>
  BY DEF PublishOutcome, Return
<1>2. PICK x \in OrderId : x = taker.id
  BY <1>1, InHandTold
<1>3. /\ deliveries[x] >= 1 /\ deliveries[x] \in Nat
      /\ \A o \in OrderId : InMatch(o) <=> o = x
      /\ \A o : ~ InCancel(o)
      /\ taker.filled \in Nat /\ Asked = terms[x] /\ terms[x].quantity \in Nat
      /\ external \in Nat
  <2>1. external \in 0..MaxQty
    BY DEF EngineTypes, EngineTypeOK
  <2> QED BY <1>1, <1>2, <2>1, InHandTold, BoundsAssumption DEF Asked
<1>4. /\ published'[x].accepted = published[x].accepted
      /\ published'[x].traded = published[x].traded + external
      /\ published'[x].outside = (external > 0)
      /\ published'[x].outcomes = published[x].outcomes \o OutcomeOf
      /\ \A o \in OrderId \ {x} : published'[o] = published[o]
  BY <1>2, OutcomeSaid
<1>5. deliveries[x] = 1 =>
      /\ published[x].accepted /\ published[x].outcomes = <<>>
      /\ SumsUp(x)
      /\ \A n \in 0..MaxQty : Stands(x, n) =>
            /\ Rests(terms[x]) /\ taker.status # "rejected"
            /\ n = taker.filled /\ n < terms[x].quantity
      /\ Rests(terms[x]) =>
            Waits(x) \/ taker.status = "rejected" \/ taker.filled = terms[x].quantity
  BY <1>1, <1>3 DEF Told, TakerTold
<1>6. deliveries[x] = 1 => published[x].traded = taker.filled
  BY <1>1, <1>5 DEF SumsUp
<1>7. deliveries[x] = 1 => published'[x].outcomes = OutcomeOf
  <2>1. OutcomeOf \in Seq(Outcome)
    BY OutcomeType
  <2> HIDE DEF OutcomeOf
  <2> QED BY <1>4, <1>5, <2>1
<1>8. \A o, n : Stands(o, n)' <=> Stands(o, n)
  BY <1>1 DEF Stands
<1>9. \A o, n : Tells(o, n)' <=> n = published'[o].traded
  <2>1. Len(trades') = 0
    BY <1>1
  <2> QED BY <1>1, <2>1 DEF Tells
<1>10. \A o, n : Tells(o, n) <=> n = published[o].traded
  <2>1. \A i \in 1..Len(trades) : ~ (i > sent)
    BY <1>1
  <2> QED BY <2>1 DEF Tells
<1>11. Unheard'
  BY <1>1, <1>3, <1>4 DEF Told, Unheard
<1>12. ASSUME deliveries[x] = 1, external = 0
       PROVE  Kept(x)'
  <2>1. published'[x].traded = taker.filled /\ Reported = taker.filled
    BY <1>3, <1>4, <1>6, <1>12 DEF Reported
  <2>2. Waits(x)' <=> Waits(x)
    BY <1>8 DEF Waits
  <2>3. ASSUME NEW n \in 0..MaxQty, Stands(x, n)'
        PROVE  published'[x].accepted /\ published'[x].outcomes = <<>> /\ Tells(x, n)'
    <3>1. /\ Rests(terms[x]) /\ taker.status # "rejected"
          /\ n = taker.filled /\ n < terms[x].quantity
      BY <1>5, <1>8, <1>12, <2>3
    <3>2. OutcomeOf = <<>>
      BY <1>3, <2>1, <3>1 DEF OutcomeOf
    <3> QED BY <1>4, <1>5, <1>7, <1>9, <1>12, <2>1, <3>1, <3>2
  <2>4. \/ Waits(x) \/ published'[x].outcomes # <<>> \/ ~ Rests(terms[x])
    <3> SUFFICES ASSUME Rests(terms[x]), ~ Waits(x)
                 PROVE  OutcomeOf # <<>>
      BY <1>7, <1>12
    <3>1. taker.status = "rejected" \/ Reported >= Asked.quantity
      BY <1>3, <1>5, <1>12, <2>1
    <3>2. CASE Reported >= Asked.quantity
      <4>1. OutcomeOf = <<"filled">>
        BY <3>2 DEF OutcomeOf
      <4> QED BY <4>1
    <3>3. CASE taker.status = "rejected" /\ ~ (Reported >= Asked.quantity)
      <4>1. OutcomeOf = <<"rejected">>
        BY <3>3 DEF OutcomeOf
      <4> QED BY <4>1
    <3> QED BY <3>1, <3>2, <3>3
  <2> QED BY <1>1, <2>2, <2>3, <2>4 DEF Kept
<1>13. EachTold'
  <2> SUFFICES ASSUME NEW o \in OrderId, deliveries[o] = 1
               PROVE  published'[o].outside \/ Kept(o)'
    BY <1>1 DEF EachTold
  <2>1. CASE o = x
    <3>1. external > 0 \/ external = 0
      BY <1>3
    <3>2. CASE external > 0
      BY <1>4, <2>1, <3>2
    <3>3. CASE external = 0
      BY <1>12, <2>1, <3>3
    <3> QED BY <3>1, <3>2, <3>3
  <2>2. CASE o # x
    <3>1. published[o].outside \/ Kept(o)
      BY <1>3, <2>2 DEF Told, EachTold
    <3>2. published'[o] = published[o]
      BY <1>4, <2>2
    <3>3. \A n : Tells(o, n)' <=> Tells(o, n)
      BY <1>9, <1>10, <3>2
    <3> QED BY <1>1, <1>8, <3>1, <3>2, <3>3, Bystander
  <2> QED BY <2>1, <2>2
<1>14. Len(trades') = 0
  BY <1>1
<1> QED
  BY <1>1, <1>11, <1>13, <1>14 DEF Told, TakerTold, MakersTold, PopsLast, Removes, InMatch, InCancel

\* The order that cancel() takes out of the book was resting, without outcome.
LEMMA ToldAtRemoval ==
    ASSUME EngineTypes, AllFiled, Told, RemoveResting
    PROVE  Told'
<1>0. TypeOK /\ Filed(book)
  BY DEF EngineTypes, EngineTypeOK, AllFiled
<1>1. /\ pc = "idle" /\ pc' = "idle" /\ stage = "cancel" /\ stage' = "canceled" /\ batch # <<>>
      /\ UNCHANGED <<terms, deliveries, trades, batch, sent, published>>
  BY DEF RemoveResting, Cancel, EngineTypes, Staged
<1>2. PICK x \in OrderId : x = InHandCommand.order
  BY <1>1, CommandInHand
<1>3. PICK s \in Side, p \in Price : \E i \in 1..Len(book[s][p]) :
         book[s][p][i].id = x /\ Removed(s, p, i)
  <2> DEFINE s == index[x].side
             p == index[x].price
  <2>1. Cancel(x)
    BY <1>2 DEF RemoveResting
  <2>2. s \in Side /\ p \in Price
    BY <1>0, <2>1 DEF TypeOK, Cancel, Place
  <2>3. PICK i \in 1..Len(book[s][p]) :
           book[s][p][i].id = x /\ book' = [book EXCEPT ![s][p] = RemoveAt(book[s][p], i)]
    BY <2>1 DEF Cancel
  <2>4. Removed(s, p, i)
    BY <2>1, <2>3 DEF Cancel, Removed, Forget
  <2> QED BY <2>2, <2>3, <2>4
<1>4. PICK i \in 1..Len(book[s][p]) : book[s][p][i].id = x /\ Removed(s, p, i)
  BY <1>3
<1>5. /\ \A o, n : o # x => (Stands(o, n)' <=> Stands(o, n))
      /\ deliveries[x] = 1 => \A n : ~ Stands(x, n)'
  BY <1>0, <1>4, StandsAfterRemoval
<1>6. \A o, n : Tells(o, n)' <=> Tells(o, n)
  BY <1>1, SameTells
<1>7. PICK k \in 0..MaxQty : Stands(x, k) /\ deliveries[x] >= 1
  <2>1. Stands(x, book[s][p][i].filled)
    BY <1>4 DEF Stands
  <2> QED BY <1>0, <2>1, OfStanding
<1>8. Unheard'
  BY <1>1 DEF Told, Unheard
<1>9. \A o \in OrderId : InCancel(o)' <=> o = x
  BY <1>1, <1>2 DEF InCancel, InHandCommand
<1>10. \A o \in OrderId : deliveries[o] = 1 => published[o].outside \/ Kept(o)
  BY <1>1 DEF Told, EachTold, InMatch, InCancel
<1>11. EachTold'
  <2> SUFFICES ASSUME NEW o \in OrderId, deliveries[o] = 1, o # x
               PROVE  published[o].outside \/ Kept(o)'
    BY <1>1, <1>9 DEF EachTold
  <2> QED BY <1>1, <1>5, <1>6, <1>10, Bystander
<1>12. Removes'
  <2>1. deliveries[x] = 1 => ~ Waits(x)'
    BY <1>5 DEF Waits
  <2>2. deliveries[x] = 1 => published[x].outside \/ published[x].outcomes = <<>>
    BY <1>7, <1>10 DEF Kept
  <2> QED BY <1>1, <1>7, <1>9, <2>1, <2>2 DEF Removes
<1>13. Len(trades') = 0
  BY <1>1 DEF EngineTypes, Staged
<1> QED BY <1>1, <1>8, <1>11, <1>12, <1>13 DEF Told, TakerTold, MakersTold, PopsLast, InMatch

\* ORDER_CANCELED is the last that is said of it.
LEMMA ToldAtCanceled ==
    ASSUME EngineTypes, AllFiled, Told, PublishCanceled
    PROVE  Told'
<1>1. /\ pc = "idle" /\ pc' = "idle" /\ stage = "canceled" /\ stage' = "ack" /\ batch # <<>>
      /\ UNCHANGED <<terms, deliveries, book, trades, batch, sent>>
  BY DEF PublishCanceled, vars, EngineTypes, Staged
<1>2. PICK x \in OrderId : x = InHandCommand.order
  BY <1>1, CommandInHand
<1>3. deliveries[x] >= 1 /\ (deliveries[x] = 1 => ~ Waits(x))
  BY <1>1, <1>2 DEF Told, Removes, InCancel
<1>4. /\ published'[x].outcomes # <<>>
      /\ \A o \in OrderId \ {x} : published'[o] = published[o]
  BY <1>2, CanceledSaid
<1>5. \A o, n : Stands(o, n)' <=> Stands(o, n)
  BY <1>1 DEF Stands
<1>6. \A o \in OrderId \ {x} : \A n : Tells(o, n)' <=> Tells(o, n)
  BY <1>1, <1>4, SameTells
<1>7. deliveries \in [OrderId -> Nat]
  BY DEF EngineTypes, EngineTypeOK, TypeOK
<1>8. Unheard'
  BY <1>1, <1>3, <1>4, <1>7 DEF Told, Unheard
<1>9. EachTold'
  <2> SUFFICES ASSUME NEW o \in OrderId, deliveries[o] = 1
               PROVE  published'[o].outside \/ Kept(o)'
    BY <1>1 DEF EachTold
  <2>1. CASE o = x
    <3>1. ~ Waits(x)'
      BY <1>3, <1>5, <2>1 DEF Waits
    <3> QED BY <1>4, <2>1, <3>1 DEF Kept, Waits
  <2>2. CASE o # x
    <3>1. published[o].outside \/ Kept(o)
      BY <1>1, <1>2, <2>2 DEF Told, EachTold, InMatch, InCancel
    <3> QED BY <1>1, <1>4, <1>5, <1>6, <2>2, <3>1, Bystander
  <2> QED BY <2>1, <2>2
<1>10. Len(trades') = 0
  BY <1>1 DEF EngineTypes, Staged
<1> QED
  BY <1>1, <1>8, <1>9, <1>10 DEF Told, TakerTold, MakersTold, PopsLast, Removes, InMatch, InCancel

\* The branch of match() that "should not happen" does not, until a crash.
LEMMA NothingExhausted ==
    ASSUME EngineTypes, AllLive
    PROVE  ~ DropExhausted
<1> SUFFICES ASSUME DropExhausted PROVE FALSE
  OBVIOUS
<1>1. PICK s \in Side, p \in Price :
         /\ book[s][p] \in Seq(Entry) /\ book[s][p] # <<>>
         /\ Head(book[s][p]) \in Entry /\ Left(Head(book[s][p])) <= 0
  BY ExhaustedMaker
<1>2. 1 \in 1..Len(book[s][p]) /\ Head(book[s][p]) = book[s][p][1]
  BY <1>1
<1>3. pc = "match"
  BY DEF DropExhausted
<1>4. Left(book[s][p][1]) > 0
  BY <1>2, <1>3 DEF AllLive
<1>5. Left(book[s][p][1]) \in Int
  BY <1>1, <1>2, BoundsAssumption DEF Left, Entry, Qty
<1> QED BY <1>1, <1>2, <1>4, <1>5

\* Without a crash every resting order keeps something to fill: a shutdown saves
\* a book on which no order is being matched.
LEMMA AllLiveOn ==
    ASSUME EngineTypes, AllLive, [EngineNext]_allVars, ~ CrashRestart
    PROVE  AllLive'
<1>0. TypeOK
  BY DEF EngineTypes, EngineTypeOK
<1>1. CASE [Next]_vars
  BY <1>0, <1>1, AllLiveNext
<1>2. CASE Shutdown
  <2>1. pc = "idle" /\ pc' = "idle" /\ book' = book
    BY <1>2 DEF Shutdown, StartWith, EngineTypes, Staged
  <2> QED BY <2>1 DEF AllLive, Left
<1>3. CASE BeginPlace \/ Match \/ PublishOutcome \/ RemoveResting
  BY <1>1, <1>3, BookSteps
<1>4. CASE UNCHANGED vars
  BY <1>1, <1>4
<1> QED BY <1>2, <1>3, <1>4, OtherSteps, NothingExhausted

\* Every step but a crash keeps the events and the book in agreement.
LEMMA ToldNext ==
    ASSUME EngineTypes, AllFiled, AllLive, Told, [EngineNext]_allVars,
           ~ CrashRestart
    PROVE  Told'
<1>1. CASE BeginPlace \/ PublishAccepted \/ PublishTrade \/ PublishOutcome
  BY <1>1, ToldAtBegin, ToldAtAccept, ToldAtTrade, ToldAtOutcome
<1>2. CASE RemoveResting \/ PublishCanceled
  BY <1>2, ToldAtRemoval, ToldAtCanceled
<1>3. CASE Match
  <2>1. CASE \E p \in Price : Execute(p)
    BY <1>3, <2>1, ToldAtExecution
  <2>2. CASE \E p \in Price : PopFilled(p)
    BY <1>3, <2>2, ToldAtPop
  <2>3. CASE Rest
    BY <1>3, <2>3, ToldAtRest
  <2>4. CASE Discard \/ Complete
    BY <1>3, <2>4, ToldAtEnd
  <2> QED BY <1>3, <2>1, <2>2, <2>3, <2>4 DEF Match
<1>4. CASE CopyBids \/ CopyAsks \/ Truncate \/ Write \/ LoseReply \/ UNCHANGED allVars
  <2>1. UNCHANGED <<terms, deliveries, book, trades, sent, published, taker, pc, stage, batch>>
    BY <1>4 DEF CopyBids, CopyAsks, Truncate, Write, LoseReply, allVars, vars, engineVars
  <2> QED BY <2>1, QuietStep
<1>5. CASE ReadGroup \/ BeginCancel \/ NothingToCancel \/ Acknowledge
  <2>1. /\ UNCHANGED <<terms, deliveries, book, trades, sent, published>>
        /\ pc = "idle" /\ pc' = "idle" /\ stage # "canceled" /\ stage' # "canceled"
    BY <1>5 DEF ReadGroup, BeginCancel, NothingToCancel, Acknowledge, vars, EngineTypes, Staged
  <2> QED BY <2>1, QuietStep
<1>6. CASE Shutdown
  <2>1. /\ UNCHANGED <<terms, deliveries, book, published>>
        /\ pc = "idle" /\ pc' = "idle" /\ stage # "canceled" /\ stage' # "canceled"
        /\ trades = <<>> /\ trades' = <<>> /\ sent = 0 /\ sent' = 0
    BY <1>6 DEF Shutdown, StartWith, EngineTypes, Staged
  <2>2. trades' = trades /\ sent' = sent
    BY <2>1
  <2> QED BY <2>1, <2>2, QuietStep
<1>7. CASE AskMarkPrice
  <2>1. /\ UNCHANGED <<terms, deliveries, book, trades, sent, published, taker, pc>>
        /\ stage = "match" /\ stage' = "accept"
    BY <1>7 DEF AskMarkPrice, vars
  <2> QED BY <2>1, QuietStep
<1> QED
  BY <1>1, <1>2, <1>3, <1>4, <1>5, <1>6, <1>7, NothingExhausted
  DEF EngineNext, CommandThread, SnapshotThread

\* Nothing has happened and nothing was said.
LEMMA EngineInvInit == EngineInit => EngineInv
<1> SUFFICES ASSUME EngineInit
             PROVE  EngineInv
  OBVIOUS
<1>1. /\ \A o \in OrderId : deliveries[o] = 0 /\ published[o] = Silence
      /\ pc = "idle" /\ stage = "loop" /\ trades = <<>>
      /\ \A s \in Side, p \in Price : book[s][p] = <<>>
  BY DEF EngineInit, Init
<1>2. Len(trades) = 0
  BY <1>1
<1>3. Told
  BY <1>1, <1>2
  DEF Told, Unheard, EachTold, TakerTold, MakersTold, PopsLast, Removes, InMatch, InCancel
<1>4. AllLive
  BY <1>1 DEF AllLive
<1> QED BY <1>3, <1>4, EngineInitTypes, AllFiledInit DEF EngineInv

\* The invariant is inductive. A fault ends the claim about events for good,
\* because faults only grow.
LEMMA EngineInvNext == EngineInv /\ [EngineNext]_allVars => EngineInv'
<1> SUFFICES ASSUME EngineInv, [EngineNext]_allVars
             PROVE  EngineInv'
  OBVIOUS
<1>1. EngineTypes /\ AllFiled
  BY DEF EngineInv
<1>2. (EngineTypes /\ AllFiled)'
  BY <1>1, EngineTypesNext, AllFiledNext
<1>3. ASSUME faults' = 0
      PROVE  AllLive' /\ Told'
  <2>1. faults = 0 /\ ~ CrashRestart
    <3>1. faults \in Nat
      BY <1>1, EngineAssumption DEF EngineTypes, EngineTypeOK
    <3>2. CrashRestart \/ LoseReply => faults' = faults + 1
      BY DEF CrashRestart, LoseReply
    <3>3. ~ (CrashRestart \/ LoseReply)
      BY <1>3, <3>1, <3>2
    <3>4. faults' = faults
      <4>1. CASE ReadGroup \/ BeginPlace \/ Match \/ DropExhausted \/ AskMarkPrice \/ PublishAccepted
        BY <4>1
        DEF ReadGroup, BeginPlace, Match, DropExhausted, AskMarkPrice, PublishAccepted, engineVars
      <4>2. CASE PublishTrade \/ PublishOutcome \/ BeginCancel \/ RemoveResting \/ NothingToCancel
        BY <4>2
        DEF PublishTrade, PublishOutcome, BeginCancel, RemoveResting, NothingToCancel
      <4>3. CASE PublishCanceled \/ Acknowledge \/ Shutdown \/ UNCHANGED allVars
        BY <4>3 DEF PublishCanceled, Acknowledge, Shutdown, allVars, engineVars
      <4>4. CASE CopyBids \/ CopyAsks \/ Truncate \/ Write
        BY <4>4 DEF CopyBids, CopyAsks, Truncate, Write
      <4> QED
        BY <3>3, <4>1, <4>2, <4>3, <4>4 DEF EngineNext, CommandThread, SnapshotThread
    <3> QED BY <1>3, <3>3, <3>4
  <2>2. AllLive /\ Told
    BY <2>1 DEF EngineInv
  <2> QED BY <1>1, <2>1, <2>2, AllLiveOn, ToldNext
<1> QED BY <1>2, <1>3 DEF EngineInv

\* Between two commands the events tell the book.
LEMMA ToldBetweenCommands == EngineInv => EventsTellTheBook
<1> SUFFICES ASSUME EngineInv, stage = "loop", faults = 0,
                    NEW o \in OrderId, deliveries[o] <= 1, ~ published[o].outside
             PROVE  BookAgrees(o)
  BY DEF EventsTellTheBook
<1>1. EngineTypes /\ AllFiled /\ AllLive /\ Told /\ TypeOK /\ Filed(book)
  BY DEF EngineInv, AllFiled, EngineTypes, EngineTypeOK
<1>2. pc = "idle" /\ trades = <<>>
  BY <1>1 DEF EngineTypes, Staged
<1>3. \A n : Tells(o, n) <=> n = published[o].traded
  BY <1>2, TellsPlainly
<1>4. deliveries[o] \in {0, 1}
  BY <1>1 DEF TypeOK
<1>5. deliveries[o] = 1 => Kept(o)
  BY <1>1, <1>2 DEF Told, EachTold, InMatch, InCancel
<1>6. Found(o) <=> Waits(o)
  <2>1. ASSUME Found(o)
        PROVE  Waits(o)
    <3>1. index[o].side \in Side /\ index[o].price \in Price
      BY <1>1, <2>1 DEF Found, TypeOK, Place
    <3>2. PICK i \in 1..Len(book[index[o].side][index[o].price]) :
             book[index[o].side][index[o].price][i].id = o
      BY <2>1 DEF Found
    <3>3. Stands(o, book[index[o].side][index[o].price][i].filled)
      BY <3>1, <3>2 DEF Stands
    <3> QED BY <1>1, <3>3, OfStanding
  <2>2. ASSUME Waits(o)
        PROVE  Found(o)
    <3>1. PICK n \in 0..MaxQty : Stands(o, n)
      BY <2>2 DEF Waits
    <3>2. PICK s \in Side, p \in Price : \E i \in 1..Len(book[s][p]) : book[s][p][i].id = o
      BY <3>1 DEF Stands
    <3>3. PICK i \in 1..Len(book[s][p]) : book[s][p][i].id = o
      BY <3>2
    <3>4. deliveries[o] = 1
      BY <1>1, <1>4, <3>1, OfStanding
    <3>5. RegisteredAt(s, p, i)
      BY <1>1 DEF AllFiled, Registered
    <3>6. index[o] = [side |-> s, price |-> p]
      BY <3>3, <3>4, <3>5 DEF RegisteredAt
    <3>7. index[o] # Nowhere /\ index[o].side = s /\ index[o].price = p
      BY <3>6 DEF Nowhere, Side
    <3> QED BY <3>3, <3>7 DEF Found
  <2> QED BY <2>1, <2>2
<1>7. ASSUME SaidToRest(o)
      PROVE  Waits(o)
  <2>1. /\ published[o].accepted /\ Rests(terms[o]) /\ published[o].outcomes = <<>>
        /\ published[o].traded < terms[o].quantity
    BY <1>7 DEF SaidToRest
  <2>2. deliveries[o] = 1
    <3>1. deliveries[o] # 0
      BY <1>1, <2>1 DEF Told, Unheard, Silence
    <3> QED BY <1>4, <3>1
  <2>3. published[o].traded \in Nat
    BY <1>1, PublishedTypes
  <2>4. ~ \E n \in Nat : n = terms[o].quantity /\ Tells(o, n)
    BY <1>3, <2>1, <2>3
  <2> QED BY <1>5, <2>1, <2>2, <2>4 DEF Kept
<1>8. ASSUME NEW n, Stands(o, n)
      PROVE  SaidToRest(o) /\ n = published[o].traded
  <2>1. n \in 0..MaxQty /\ deliveries[o] = 1 /\ Rests(terms[o]) /\ n < terms[o].quantity
    BY <1>1, <1>2, <1>4, <1>8, OfStanding
  <2>2. published[o].accepted /\ published[o].outcomes = <<>> /\ n = published[o].traded
    BY <1>3, <1>5, <1>8, <2>1 DEF Kept
  <2> QED BY <2>1, <2>2 DEF SaidToRest
<1>9. Waits(o) => SaidToRest(o)
  BY <1>8 DEF Waits
<1>10. \A s \in Side, p \in Price : \A i \in 1..Len(book[s][p]) :
          book[s][p][i].id = o => book[s][p][i].filled = published[o].traded
  BY <1>8 DEF Stands
<1> QED BY <1>6, <1>7, <1>9, <1>10 DEF BookAgrees

\* Whatever is matched, rests, is cancelled or saved: as long as no crash and no
\* lost reply came in between, an order is in the book between two commands just
\* when its events say so, filled as far as they say - if its PLACE has not come
\* twice, however often those of the orders it meets have.
THEOREM EventsTell == EngineSpec => []EventsTellTheBook
  BY EngineInvInit, EngineInvNext, ToldBetweenCommands, PTL DEF EngineSpec

\* After the outcome of an order, nothing further is published of it.
LEMMA OutcomeOnce ==
    ASSUME EngineInv, [EngineNext]_allVars, faults = 0,
           NEW o \in OrderId, deliveries[o] <= 1,
           published[o].outcomes # <<>>, ~ published[o].outside
    PROVE  /\ published'[o].traded = published[o].traded
           /\ published'[o].outcomes = published[o].outcomes
<1>0. EngineTypes /\ AllFiled /\ Told
  BY DEF EngineInv
<1>a. deliveries[o] = 1
  <2>1. deliveries[o] \in Nat /\ deliveries[o] # 0
    BY <1>0 DEF EngineTypes, EngineTypeOK, TypeOK, Told, Unheard, Silence
  <2> QED BY <2>1
<1>1. CASE published' = published
  BY <1>1
<1>2. CASE PublishAccepted
  <2>1. pc # "idle"
    BY <1>0, <1>2 DEF PublishAccepted, EngineTypes, Staged
  <2>2. o # taker.id
    BY <1>0, <1>a, <2>1, InHandTold DEF Told, TakerTold
  <2> QED BY <1>0, <1>2, <2>2, AcceptedSaid
<1>3. CASE PublishTrade
  <2>1. pc # "idle" /\ sent + 1 \in 1..Len(trades)
    BY <1>0, <1>3, TradeSaid DEF PublishTrade, EngineTypes, Staged
  <2>2. o # taker.id
    BY <1>0, <1>a, <2>1, InHandTold DEF Told, TakerTold
  <2>3. trades[sent + 1].maker \in OrderId
    BY <1>0, <2>1, TradeOf
  <2>4. o # trades[sent + 1].maker /\ trades[sent + 1].taker = taker.id
    BY <1>0, <1>a, <2>1, <2>3 DEF Told, MakersTold
  <2>5. published'[o] = published[o]
    BY <1>0, <1>3, <2>2, <2>4, TradeSaid
  <2> QED BY <2>5
<1>4. CASE PublishOutcome
  <2>1. pc # "idle"
    BY <1>0, <1>4 DEF PublishOutcome, EngineTypes, Staged
  <2>2. o # taker.id
    BY <1>0, <1>a, <2>1, InHandTold DEF Told, TakerTold
  <2> QED BY <1>0, <1>4, <2>2, OutcomeSaid
<1>5. CASE PublishCanceled
  <2>1. InHandCommand.order \in OrderId /\ stage = "canceled"
    BY <1>0, <1>5, CanceledSaid DEF PublishCanceled
  <2>2. o # InHandCommand.order
    BY <1>0, <1>a, <2>1 DEF Told, Removes, InCancel
  <2> QED BY <1>0, <1>5, <2>2, CanceledSaid
<1>6. CASE ReadGroup \/ BeginPlace \/ Match \/ DropExhausted \/ AskMarkPrice
  BY <1>1, <1>6 DEF ReadGroup, BeginPlace, Match, DropExhausted, AskMarkPrice, engineVars
<1>7. CASE BeginCancel \/ RemoveResting \/ NothingToCancel \/ Acknowledge
  BY <1>1, <1>7 DEF BeginCancel, RemoveResting, NothingToCancel, Acknowledge
<1>8. CASE CopyBids \/ CopyAsks \/ Truncate \/ Write \/ LoseReply
  BY <1>1, <1>8 DEF CopyBids, CopyAsks, Truncate, Write, LoseReply
<1>9. CASE CrashRestart \/ Shutdown \/ UNCHANGED allVars
  BY <1>1, <1>9 DEF CrashRestart, Shutdown, StartWith, allVars, engineVars
<1> QED
  BY <1>2, <1>3, <1>4, <1>5, <1>6, <1>7, <1>8, <1>9
  DEF EngineNext, CommandThread, SnapshotThread

\* Once its outcome is announced an order trades no more and gets no second
\* outcome, as long as nothing has failed, Binance has not filled it and its
\* PLACE has not come a second time.
THEOREM OutcomesFinal == EngineSpec => OutcomesAreFinal
<1>1. EngineInv /\ [EngineNext]_allVars =>
         [\A o \in OrderId :
               deliveries[o] <= 1 /\ published[o].outcomes # <<>>
            /\ ~ published[o].outside /\ faults = 0 =>
               /\ published'[o].traded = published[o].traded
               /\ published'[o].outcomes = published[o].outcomes]_allVars
  BY OutcomeOnce
<1> QED BY <1>1, EngineInvInit, EngineInvNext, PTL DEF EngineSpec, OutcomesAreFinal
=============================================================================
