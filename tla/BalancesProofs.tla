---------------------------- MODULE BalancesProofs ----------------------------
(***************************************************************************)
(* Balances, for any calls, amounts and opening balances: types (so that   *)
(* no balance is negative), the sum of a balance, and the refinement of    *)
(* Ledger.                                                                 *)
(***************************************************************************)
EXTENDS Balances, TLAPS

Balance == [available: Nat, locked: Nat]

\* The call that holds the row has seen the row as it is, and is the only one
\* that may write what it computed from it.
HolderSaw ==
    holder # NoOne => /\ pc[holder] = "write" /\ Locks(holder)
                      /\ row # Absent /\ seen[holder] = row

WriterHolds == \A c \in Call : pc[c] = "write" /\ Locks(c) => holder = c

\* A withdrawal has seen enough; what a call writes to is there.
SeenEnough ==
    \A c \in Call : pc[c] = "write" =>
        /\ row # Absent
        /\ job[c].op = "withdraw" => seen[c] \in Balance /\ seen[c].available >= job[c].amount

\* Only calls that may create the row come to insert it.
Inserts == \A c \in Call : pc[c] = "insert" => ~Locks(c)

IInv == BalancesTypeOK /\ HolderSaw /\ WriterHolds /\ SeenEnough /\ Inserts

-----------------------------------------------------------------------------
\* An amount is a positive number, and no balance is the absent row.
LEMMA Amounts ==
    ASSUME BalancesTypeOK, NEW c \in Call
    PROVE  /\ job[c].amount \in Nat \ {0} /\ job[c].op \in Ops
           /\ Absent \notin Balance
  <1>1. job[c] \in [op: Ops, amount: Amount]
    BY DEF BalancesTypeOK
  <1>2. Absent.available \notin Nat
    BY DEF Absent
  <1>3. Absent \notin Balance
    BY <1>2 DEF Balance
  <1> QED BY <1>1, <1>3, BalancesAssumption

\* What a locking call writes is a balance, and the sum changes by the debit.
LEMMA WrittenBalance ==
    ASSUME BalancesTypeOK, NEW c \in Call, Locks(c), seen[c] \in Balance,
           job[c].op = "lock" => seen[c].available >= job[c].amount
    PROVE  /\ Written(c) \in Balance
           /\ Capped(c) \in Nat
           /\ Written(c).available + Written(c).locked =
                seen[c].available + seen[c].locked - (IF job[c].op = "debit" THEN Capped(c) ELSE 0)
  <1>1. job[c].amount \in Nat
    BY Amounts
  <1>2. seen[c].available \in Nat /\ seen[c].locked \in Nat
    BY DEF Balance
  <1>3. Capped(c) \in Nat /\ seen[c].locked - Capped(c) \in Nat
    BY <1>1, <1>2 DEF Capped
  <1>4. CASE job[c].op = "lock"
    BY <1>1, <1>2, <1>3, <1>4 DEF Written, Balance
  <1>5. CASE job[c].op = "unlock"
    BY <1>1, <1>2, <1>3, <1>5 DEF Written, Balance
  <1>6. CASE job[c].op = "debit"
    <2>1. Written(c) = [seen[c] EXCEPT !.locked = seen[c].locked - Capped(c)]
      BY <1>6 DEF Written
    <2> QED BY <2>1, <1>2, <1>3, <1>6 DEF Balance
  <1> QED BY <1>4, <1>5, <1>6 DEF Locks

-----------------------------------------------------------------------------
\* No call has begun: nobody holds the row, and nobody has seen it.
LEMMA InitInv == Init => IInv
  <1> SUFFICES ASSUME Init PROVE IInv
    OBVIOUS
  <1>1. row \in Balance \union {Absent}
    BY BalancesAssumption DEF Init, Balance
  <1>2. row # Absent => row.available \in Nat /\ row.locked \in Nat
    BY <1>1 DEF Balance
  <1>3. net \in Int
    BY <1>2 DEF Init
  <1>4. BalancesTypeOK
    BY <1>1, <1>3 DEF Init, BalancesTypeOK, Balance
  <1> QED BY <1>4 DEF Init, IInv, HolderSaw, WriterHolds, SeenEnough, Inserts

\* Every step keeps the invariant.
LEMMA NextInv == IInv /\ [Next]_vars => IInv'
  <1> SUFFICES ASSUME IInv, [Next]_vars PROVE IInv'
    OBVIOUS
  <1> USE DEF IInv, Goto, Inserts, Locks
  <1>1. ASSUME NEW c \in Call, FindRow(c) PROVE IInv'
    <2>1. BalancesTypeOK'
      BY <1>1 DEF FindRow, BalancesTypeOK
    <2>2. HolderSaw'
      BY <1>1 DEF FindRow, BalancesTypeOK, HolderSaw, Locks
    <2>3. WriterHolds'
      BY <1>1 DEF FindRow, BalancesTypeOK, WriterHolds, Locks
    <2>4. SeenEnough'
      BY <1>1, Amounts DEF FindRow, BalancesTypeOK, SeenEnough, Locks, Balance, Ops
    <2>5. Inserts'
      BY <1>1 DEF FindRow, BalancesTypeOK
    <2> QED BY <2>1, <2>2, <2>3, <2>4, <2>5
  <1>2. ASSUME NEW c \in Call, InsertRow(c) PROVE IInv'
    BY <1>2, Amounts
    DEF InsertRow, BalancesTypeOK, HolderSaw, WriterHolds, SeenEnough, Locks, Zero, Absent, Ops, Balance
  <1>3. ASSUME NEW c \in Call, Deposit(c) PROVE IInv'
    <2>1. row \in Balance /\ row.available \in Nat /\ job[c].amount \in Nat
      BY <1>3, Amounts DEF Deposit, SeenEnough, BalancesTypeOK, Balance
    <2>2. row' \in Balance /\ row' # Absent
      BY <1>3, <2>1, Amounts DEF Deposit, Balance
    <2> QED BY <1>3, <2>1, <2>2, BalancesAssumption
            DEF Deposit, BalancesTypeOK, HolderSaw, WriterHolds, SeenEnough, Locks, Balance
  <1>4. ASSUME NEW c \in Call, Withdraw(c) PROVE IInv'
    <2>1. row \in Balance /\ seen[c] \in Balance /\ job[c].amount \in Nat
      BY <1>4, Amounts DEF Withdraw, SeenEnough, BalancesTypeOK, Balance
    <2>2. seen[c].available \in Nat /\ seen[c].available - job[c].amount \in Nat
      BY <1>4, <2>1 DEF Withdraw, SeenEnough, Balance
    <2>3. row' \in Balance /\ row' # Absent
      BY <1>4, <2>1, <2>2, Amounts DEF Withdraw, Balance
    <2> QED BY <1>4, <2>1, <2>3, BalancesAssumption
            DEF Withdraw, BalancesTypeOK, HolderSaw, WriterHolds, SeenEnough, Locks, Balance
  <1>5. ASSUME NEW c \in Call, LockRow(c) PROVE IInv'
    <2>1. BalancesTypeOK'
      BY <1>5 DEF LockRow, BalancesTypeOK
    <2>2. HolderSaw' /\ WriterHolds'
      BY <1>5, BalancesAssumption DEF LockRow, BalancesTypeOK, HolderSaw, WriterHolds, Locks
    <2>3. SeenEnough'
      BY <1>5 DEF LockRow, BalancesTypeOK, SeenEnough, Locks
    <2>4. Inserts'
      BY <1>5 DEF LockRow, BalancesTypeOK
    <2> QED BY <2>1, <2>2, <2>3, <2>4
  <1>6. ASSUME NEW c \in Call, Commit(c) PROVE IInv'
    <2>1. holder = c /\ seen[c] = row /\ row \in Balance /\ c # NoOne
      BY <1>6, BalancesAssumption DEF Commit, WriterHolds, HolderSaw, BalancesTypeOK, Balance
    <2>2. CASE job[c].op = "lock" /\ seen[c].available < job[c].amount
      BY <1>6, <2>1, <2>2
      DEF Commit, BalancesTypeOK, HolderSaw, WriterHolds, SeenEnough, Locks, Balance
    <2>3. CASE ~(job[c].op = "lock" /\ seen[c].available < job[c].amount)
      <3>1. job[c].op = "lock" => seen[c].available >= job[c].amount
        BY <2>1, <2>3, Amounts DEF Balance
      <3>2. Written(c) \in Balance /\ Capped(c) \in Nat
        BY <1>6, <2>1, <3>1, WrittenBalance DEF Commit
      <3>3. row' \in Balance /\ row' # Absent
        BY <1>6, <2>3, <3>2, Amounts DEF Commit
      <3>4. net' \in Int
        BY <1>6, <2>3, <3>2 DEF Commit, BalancesTypeOK
      <3> QED BY <1>6, <2>1, <2>3, <3>3, <3>4
              DEF Commit, BalancesTypeOK, HolderSaw, WriterHolds, SeenEnough, Locks, Balance
    <2> QED BY <2>2, <2>3
  <1>7. ASSUME NEW c \in Call, Fail(c) PROVE IInv'
    BY <1>7, BalancesAssumption
    DEF Fail, BalancesTypeOK, HolderSaw, WriterHolds, SeenEnough, Locks
  <1>8. CASE UNCHANGED vars
    BY <1>8 DEF vars, BalancesTypeOK, HolderSaw, WriterHolds, SeenEnough, Locks
  <1> QED BY <1>1, <1>2, <1>3, <1>4, <1>5, <1>6, <1>7, <1>8 DEF Next, Step

\* Every balance stays a balance: whatever calls overlap, nothing that is
\* withdrawn, locked or debited leaves a negative amount behind.
THEOREM TypeCorrect == Spec => []BalancesTypeOK
  <1>1. IInv => BalancesTypeOK
    BY DEF IInv
  <1> QED BY InitInv, NextInv, <1>1, PTL DEF Spec

-----------------------------------------------------------------------------
\* The sum of a balance changes with net alone, until a withdrawal races.
LEMMA InitSum == Init => NothingLost
  BY DEF Init, NothingLost

\* Each statement that writes the row writes what the call did to the row it finds.
LEMMA NextSum == IInv /\ NothingLost /\ [Next]_vars => NothingLost'
  <1> SUFFICES ASSUME IInv, NothingLost, [Next]_vars PROVE NothingLost'
    OBVIOUS
  <1> USE DEF NothingLost
  <1>0. BalancesTypeOK /\ (row # Absent => row \in Balance /\ row.available \in Nat /\ row.locked \in Nat)
    BY DEF IInv, BalancesTypeOK, Balance
  <1>1. ASSUME NEW c \in Call, FindRow(c) \/ LockRow(c) \/ Fail(c) PROVE NothingLost'
    BY <1>1 DEF FindRow, LockRow, Fail
  <1>2. ASSUME NEW c \in Call, InsertRow(c) PROVE NothingLost'
    <2>1. Zero # Absent /\ Zero.available + Zero.locked = 0
      BY DEF Zero, Absent
    <2> QED BY <1>2, <2>1 DEF InsertRow
  <1>3. ASSUME NEW c \in Call, Deposit(c) PROVE NothingLost'
    <2>1. row # Absent /\ job[c].amount \in Nat
      BY <1>3, <1>0, Amounts DEF Deposit, IInv, SeenEnough
    <2>2. /\ row' = [row EXCEPT !.available = row.available + job[c].amount]
          /\ net' = net + job[c].amount /\ raced' = raced
      BY <1>3 DEF Deposit
    <2>3. row'.available = row.available + job[c].amount /\ row'.locked = row.locked
      BY <1>0, <2>1, <2>2 DEF Balance
    <2>4. row' # Absent
      BY <1>0, <2>1, <2>3 DEF Absent
    <2> QED BY <1>0, <2>1, <2>2, <2>3, <2>4 DEF BalancesTypeOK
  <1>4. ASSUME NEW c \in Call, Withdraw(c) PROVE NothingLost'
    <2>1. row # Absent /\ job[c].amount \in Nat /\ seen[c].available \in Nat
      BY <1>4, <1>0, Amounts DEF Withdraw, IInv, SeenEnough, Balance
    <2>2. /\ row' = [row EXCEPT !.available = seen[c].available - job[c].amount]
          /\ net' = net - job[c].amount
          /\ ~raced' => ~raced /\ seen[c].available = row.available
      BY <1>4 DEF Withdraw
    <2>3. row'.available = seen[c].available - job[c].amount /\ row'.locked = row.locked
      BY <1>0, <2>1, <2>2 DEF Balance
    <2>4. row' # Absent
      BY <1>0, <2>1, <2>3 DEF Absent
    <2> QED BY <1>0, <2>1, <2>2, <2>3, <2>4 DEF BalancesTypeOK
  <1>5. ASSUME NEW c \in Call, Commit(c) PROVE NothingLost'
    <2>1. seen[c] = row /\ row # Absent /\ row \in Balance
      BY <1>5, <1>0, BalancesAssumption DEF Commit, IInv, WriterHolds, HolderSaw
    <2>2. CASE job[c].op = "lock" /\ seen[c].available < job[c].amount
      BY <1>5, <2>2 DEF Commit
    <2>3. CASE ~(job[c].op = "lock" /\ seen[c].available < job[c].amount)
      <3>1. job[c].op = "lock" => seen[c].available >= job[c].amount
        BY <1>0, <2>1, <2>3, Amounts DEF Balance
      <3>2. /\ Capped(c) \in Nat /\ Written(c) # Absent
            /\ Written(c).available + Written(c).locked =
                 row.available + row.locked - (IF job[c].op = "debit" THEN Capped(c) ELSE 0)
        BY <1>0, <1>5, <2>1, <3>1, WrittenBalance, Amounts DEF Commit
      <3>3. row' = Written(c) /\ raced' = raced
            /\ net' = (IF job[c].op = "debit" THEN net - Capped(c) ELSE net)
        BY <1>5, <2>3 DEF Commit
      <3> QED BY <1>0, <2>1, <3>2, <3>3 DEF BalancesTypeOK
    <2> QED BY <2>2, <2>3
  <1>6. CASE UNCHANGED vars
    BY <1>6 DEF vars
  <1> QED BY <1>1, <1>2, <1>3, <1>4, <1>5, <1>6 DEF Next, Step

\* Unless a withdrawal writes what was left of an older balance, a balance and
\* its locked part are what was paid in and not paid out.
THEOREM NothingIsLost == Spec => []NothingLost
  BY InitInv, NextInv, InitSum, NextSum, PTL DEF Spec

-----------------------------------------------------------------------------
(* The refinement. *)

Status == [c \in Call |-> IF pc[c] \in {"done", "failed"} THEN pc[c] ELSE "waiting"]
Looked == [c \in Call |-> IF Locks(c) THEN -1 ELSE seen[c].available]

\* What a move of call c does to its status.
LEMMA StatusStep ==
    ASSUME BalancesTypeOK, NEW c \in Call, NEW where, Goto(c, where)
    PROVE  /\ where \in {"done", "failed"} => Status' = [Status EXCEPT ![c] = where]
           /\ where \notin {"done", "failed"} => Status' = [Status EXCEPT ![c] = "waiting"]
           /\ pc[c] \notin {"done", "failed"} =>
                /\ Status[c] = "waiting"
                /\ where \notin {"done", "failed"} => Status' = Status
  BY DEF Status, Goto, BalancesTypeOK

\* What is seen matters to Ledger only for a withdrawal.
LEMMA LookedStep ==
    ASSUME BalancesTypeOK, job' = job, NEW c \in Call,
           NEW b, seen' = [seen EXCEPT ![c] = b]
    PROVE  /\ Locks(c) => Looked' = Looked
           /\ ~Locks(c) => Looked' = [Looked EXCEPT ![c] = b.available]
  BY DEF Looked, Locks, BalancesTypeOK

\* An account with no calls.
LEMMA InitPromise == Init => Promise!Init
  <1> SUFFICES ASSUME Init PROVE Promise!Init
    OBVIOUS
  <1>1. row = Promise!Absent \/ row \in [available: Nat, locked: Nat]
    BY BalancesAssumption DEF Init, Absent, Promise!Absent
  <1>2. job \in [Call -> [op: Promise!Ops, amount: Amount]]
    BY DEF Init, Ops, Promise!Ops
  <1>3. Status = [c \in Call |-> "waiting"]
    BY DEF Init, Status
  <1>4. Looked = [c \in Call |-> -1]
    BY DEF Init, Looked, Absent
  <1> QED BY <1>1, <1>2, <1>3, <1>4 DEF Promise!Init, Status, Looked

\* Every step is one of Ledger, or one that Ledger does not see.
LEMMA NextPromise == IInv /\ [Next]_vars => [Promise!Next]_(Promise!vars)
  <1> SUFFICES ASSUME IInv, [Next]_vars PROVE Promise!Next \/ UNCHANGED Promise!vars
    OBVIOUS
  <1> USE DEF Status, Looked
  <1>0. BalancesTypeOK
    BY DEF IInv
  <1>1. ASSUME NEW c \in Call, FindRow(c) PROVE Promise!Next \/ UNCHANGED Promise!vars
    <2>1. CASE row = Absent \/ job[c].op = "deposit"
      BY <1>0, <1>1, <2>1, StatusStep DEF FindRow, Promise!vars, Locks
    <2>2. CASE row # Absent /\ job[c].op # "deposit"
      <3>1. job[c].op = "withdraw"
        BY <1>0, <1>1, <2>2, Amounts DEF FindRow, Locks, Ops
      <3>2. /\ pc[c] = "start" /\ row' = row /\ job' = job
            /\ seen' = [seen EXCEPT ![c] = row]
            /\ Goto(c, IF row.available >= job[c].amount THEN "write" ELSE "failed")
        BY <1>1, <2>2 DEF FindRow
      <3>3. Looked' = [Looked EXCEPT ![c] = row.available]
        BY <1>0, <3>1, <3>2, LookedStep DEF Locks
      <3>4. /\ Status[c] = "waiting"
            /\ Status' = [Status EXCEPT ![c] =
                             IF row.available >= job[c].amount THEN "waiting" ELSE "failed"]
        BY <1>0, <3>2, StatusStep
      <3>5. Promise!Look(c)
        BY <2>2, <3>1, <3>2, <3>3, <3>4 DEF Promise!Look, Absent, Promise!Absent
      <3> QED BY <3>5 DEF Promise!Next
    <2> QED BY <2>1, <2>2
  <1>2. ASSUME NEW c \in Call, InsertRow(c) PROVE Promise!Next
    <2>1. CASE row = Absent
      <3>1. /\ pc[c] = "insert" /\ row' = Zero /\ job' = job /\ seen' = seen
            /\ Goto(c, IF job[c].op = "deposit" THEN "write" ELSE "failed")
        BY <1>2, <2>1 DEF InsertRow
      <3>2. /\ Status[c] = "waiting"
            /\ Status' = [Status EXCEPT ![c] =
                             IF job[c].op = "deposit" THEN "waiting" ELSE "failed"]
        BY <1>0, <3>1, StatusStep
      <3>3. job[c].op \in {"deposit", "withdraw"}
        BY <1>0, <3>1, Amounts DEF IInv, Inserts, Locks, Ops
      <3>4. Promise!Open(c)
        BY <2>1, <3>1, <3>2, <3>3
        DEF Promise!Open, Absent, Promise!Absent, Zero, Promise!Zero, Locks
      <3> QED BY <3>4 DEF Promise!Next
    <2>2. CASE row # Absent
      <3>1. pc[c] = "insert" /\ row' = row /\ job' = job /\ seen' = seen /\ Goto(c, "failed")
        BY <1>2, <2>2 DEF InsertRow
      <3>2. Promise!Refuse(c)
        BY <1>0, <3>1, StatusStep DEF Promise!Refuse, Locks
      <3> QED BY <3>2 DEF Promise!Next
    <2> QED BY <2>1, <2>2
  <1>3. ASSUME NEW c \in Call, Deposit(c) PROVE Promise!Next
    <2>1. row # Absent
      BY <1>3 DEF Deposit, IInv, SeenEnough
    <2>2. /\ pc[c] = "write" /\ job[c].op = "deposit" /\ job' = job /\ seen' = seen
          /\ row' = [row EXCEPT !.available = row.available + job[c].amount] /\ Goto(c, "done")
      BY <1>3 DEF Deposit
    <2>3. Status[c] = "waiting" /\ Status' = [Status EXCEPT ![c] = "done"]
      BY <1>0, <2>2, StatusStep
    <2>4. Promise!Deposit(c)
      BY <2>1, <2>2, <2>3 DEF Promise!Deposit, Promise!Ends, Absent, Promise!Absent, Locks
    <2> QED BY <2>4 DEF Promise!Next
  <1>4. ASSUME NEW c \in Call, Withdraw(c) PROVE Promise!Next
    <2>1. /\ pc[c] = "write" /\ job[c].op = "withdraw" /\ job' = job /\ seen' = seen
          /\ row' = [row EXCEPT !.available = seen[c].available - job[c].amount]
          /\ Goto(c, "done")
      BY <1>4 DEF Withdraw
    <2>2. Looked[c] = seen[c].available /\ Looked[c] >= job[c].amount
      BY <2>1 DEF IInv, SeenEnough, Locks
    <2>3. Status[c] = "waiting" /\ Status' = [Status EXCEPT ![c] = "done"]
      BY <1>0, <2>1, StatusStep
    <2>4. Promise!Withdraw(c)
      BY <2>1, <2>2, <2>3 DEF Promise!Withdraw, Promise!Ends, Locks
    <2> QED BY <2>4 DEF Promise!Next
  <1>5. ASSUME NEW c \in Call, LockRow(c) PROVE Promise!Next \/ UNCHANGED Promise!vars
    <2>1. CASE row = Absent
      <3>1. /\ pc[c] = "start" /\ row' = row /\ job' = job /\ seen' = seen
            /\ Locks(c) /\ Goto(c, IF job[c].op = "lock" THEN "failed" ELSE "done")
        BY <1>5, <2>1 DEF LockRow
      <3>2. /\ Status[c] = "waiting"
            /\ Status' = [Status EXCEPT ![c] = IF job[c].op = "lock" THEN "failed" ELSE "done"]
        BY <1>0, <3>1, StatusStep
      <3>3. CASE job[c].op = "lock"
        BY <3>1, <3>2, <3>3 DEF Promise!Next, Promise!Refuse, Locks
      <3>4. CASE job[c].op # "lock"
        <4>1. Promise!NothingToTake(c)
          BY <2>1, <3>1, <3>2, <3>4
          DEF Promise!NothingToTake, Promise!Ends, Absent, Promise!Absent, Locks
        <4> QED BY <4>1 DEF Promise!Next
      <3> QED BY <3>3, <3>4
    <2>2. CASE row # Absent
      <3>1. /\ pc[c] = "start" /\ row' = row /\ job' = job /\ Locks(c)
            /\ seen' = [seen EXCEPT ![c] = row] /\ Goto(c, "write")
        BY <1>5, <2>2 DEF LockRow
      <3>2. Looked' = Looked
        BY <1>0, <3>1, LookedStep
      <3>3. Status' = Status
        BY <1>0, <3>1, StatusStep
      <3> QED BY <3>1, <3>2, <3>3 DEF Promise!vars
    <2> QED BY <2>1, <2>2
  <1>6. ASSUME NEW c \in Call, Commit(c) PROVE Promise!Next
    <2>1. /\ pc[c] = "write" /\ job' = job /\ seen' = seen /\ Locks(c)
          /\ seen[c] = row /\ row # Absent /\ row \in Balance
          /\ row.available \in Nat /\ row.locked \in Nat /\ job[c].amount \in Nat
      BY <1>0, <1>6, Amounts, BalancesAssumption
      DEF Commit, IInv, WriterHolds, HolderSaw, BalancesTypeOK, Balance
    <2>2. CASE job[c].op = "lock" /\ seen[c].available < job[c].amount
      <3>1. row' = row /\ Goto(c, "failed")
        BY <1>6, <2>2 DEF Commit
      <3>2. Promise!Refuse(c)
        BY <1>0, <2>1, <3>1, StatusStep DEF Promise!Refuse, Locks
      <3> QED BY <3>2 DEF Promise!Next
    <2>3. CASE ~(job[c].op = "lock" /\ seen[c].available < job[c].amount)
      <3>1. row' = Written(c) /\ Goto(c, "done")
        BY <1>6, <2>3 DEF Commit
      <3>2. Status[c] = "waiting" /\ Status' = [Status EXCEPT ![c] = "done"]
        BY <1>0, <2>1, <3>1, StatusStep
      <3>3. Capped(c) = Promise!AtMost(row.locked, job[c].amount)
        BY <2>1 DEF Capped, Promise!AtMost
      <3>4. CASE job[c].op = "lock"
        <4>1. Promise!Lock(c)
          BY <2>1, <2>3, <3>1, <3>2, <3>4 DEF Promise!Lock, Promise!Ends, Written, Locks
        <4> QED BY <4>1 DEF Promise!Next
      <3>5. CASE job[c].op = "unlock"
        <4>1. Promise!Unlock(c)
          BY <2>1, <3>1, <3>2, <3>3, <3>5
          DEF Promise!Unlock, Promise!Ends, Written, Locks, Absent, Promise!Absent
        <4> QED BY <4>1 DEF Promise!Next
      <3>6. CASE job[c].op = "debit"
        <4>1. Promise!Debit(c)
          BY <2>1, <3>1, <3>2, <3>3, <3>6
          DEF Promise!Debit, Promise!Ends, Written, Locks, Absent, Promise!Absent
        <4> QED BY <4>1 DEF Promise!Next
      <3> QED BY <2>1, <3>4, <3>5, <3>6 DEF Locks
    <2> QED BY <2>2, <2>3
  <1>7. ASSUME NEW c \in Call, Fail(c) PROVE Promise!Next
    <2>1. /\ pc[c] \in {"start", "insert", "write"} /\ Goto(c, "failed")
          /\ row' = row /\ job' = job /\ seen' = seen
      BY <1>7 DEF Fail
    <2>2. Promise!Refuse(c)
      BY <1>0, <2>1, StatusStep DEF Promise!Refuse, Locks
    <2> QED BY <2>2 DEF Promise!Next
  <1>8. CASE UNCHANGED vars
    BY <1>8 DEF vars, Promise!vars, Locks
  <1> QED BY <1>1, <1>2, <1>3, <1>4, <1>5, <1>6, <1>7, <1>8 DEF Next, Step

\* balanceService.ts keeps the promise of Ledger: locks, releases, debits and
\* deposits take effect one at a time, whatever statements of theirs overlap.
THEOREM Refinement == Spec => KeepsPromise
  BY InitInv, NextInv, InitPromise, NextPromise, PTL DEF Spec, KeepsPromise, Promise!Spec
=============================================================================
