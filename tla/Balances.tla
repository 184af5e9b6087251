------------------------------- MODULE Balances -------------------------------
(***************************************************************************)
(* balanceService.ts on one row of the table balances, one statement at a  *)
(* time.  lockBalance(), unlockBalance() and debitLocked() are transactions*)
(* that select the row FOR UPDATE, so that it stays locked until they end; *)
(* what they write is seen when they commit.  deposit() and withdraw() read*)
(* the row without a lock, and wait for one only in their UPDATE.          *)
(***************************************************************************)
EXTENDS Integers

CONSTANTS
    Call,      \* bound: the calls that are made, each once
    NoOne,     \* no call
    Amount,
    Opening    \* bound: the balances the row may start with

Absent == [available |-> -1, locked |-> -1]
Zero   == [available |-> 0, locked |-> 0]

ASSUME BalancesAssumption ==
    /\ NoOne \notin Call
    /\ Amount \subseteq Nat \ {0}
    /\ Opening \subseteq [available: Nat, locked: Nat]

VARIABLES
    row,      \* the row as committed
    holder,   \* the call whose transaction has locked it
    pc,       \* where each call is
    job,      \* what it is to do
    seen,     \* the row as it has read it
    net,      \* history: what has been paid in and not paid out
    raced     \* history: a withdrawal wrote what was left of an older balance

vars == <<row, holder, pc, job, seen, net, raced>>

Ops == {"deposit", "withdraw", "lock", "unlock", "debit"}

BalancesTypeOK ==
    /\ row \in [available: Nat, locked: Nat] \union {Absent}
    /\ holder \in Call \union {NoOne}
    /\ pc \in [Call -> {"start", "insert", "write", "done", "failed"}]
    /\ job \in [Call -> [op: Ops, amount: Amount]]
    /\ seen \in [Call -> [available: Nat, locked: Nat] \union {Absent}]
    /\ net \in Int /\ raced \in BOOLEAN

Locks(c) == job[c].op \in {"lock", "unlock", "debit"}

Goto(c, where) == pc' = [pc EXCEPT ![c] = where]

-----------------------------------------------------------------------------
(* deposit() and withdraw() *)

\* getOrCreateBalance() selects the row.
FindRow(c) ==
    /\ pc[c] = "start" /\ ~Locks(c)
    /\ IF row = Absent
       THEN Goto(c, "insert") /\ UNCHANGED seen
       ELSE IF job[c].op = "deposit"
       THEN Goto(c, "write") /\ UNCHANGED seen
       ELSE /\ seen' = [seen EXCEPT ![c] = row]
            /\ Goto(c, IF row.available >= job[c].amount THEN "write" ELSE "failed")
    /\ UNCHANGED <<row, holder, job, net, raced>>

\* ... and inserts it if there is none; the unique index balances_user_asset
\* fails the insert if another call has been faster.
InsertRow(c) ==
    /\ pc[c] = "insert"
    /\ IF row = Absent
       THEN row' = Zero /\ Goto(c, IF job[c].op = "deposit" THEN "write" ELSE "failed")
       ELSE Goto(c, "failed") /\ UNCHANGED row
    /\ UNCHANGED <<holder, job, seen, net, raced>>

\* Mutant: the UPDATE of a deposit writes a sum computed before.
DepositStale(c) ==
    /\ pc[c] = "write" /\ job[c].op = "deposit" /\ holder = NoOne
    /\ row' = [row EXCEPT !.available = seen[c].available + job[c].amount]
    /\ net' = net + job[c].amount
    /\ Goto(c, "done")
    /\ UNCHANGED <<holder, job, seen, raced>>

\* Mutant: it does not wait for the lock on the row.
DepositUnlocked(c) ==
    /\ pc[c] = "write" /\ job[c].op = "deposit"
    /\ row' = [row EXCEPT !.available = row.available + job[c].amount]
    /\ net' = net + job[c].amount
    /\ Goto(c, "done")
    /\ UNCHANGED <<holder, job, seen, raced>>

\* available + amount is computed by the database.
Deposit(c) ==
    /\ pc[c] = "write" /\ job[c].op = "deposit" /\ holder = NoOne
    /\ row' = [row EXCEPT !.available = row.available + job[c].amount]
    /\ net' = net + job[c].amount
    /\ Goto(c, "done")
    /\ UNCHANGED <<holder, job, seen, raced>>

\* available - amount is computed from what the call has read.
Withdraw(c) ==
    /\ pc[c] = "write" /\ job[c].op = "withdraw" /\ holder = NoOne
    /\ row' = [row EXCEPT !.available = seen[c].available - job[c].amount]
    /\ net' = net - job[c].amount
    /\ raced' = (raced \/ seen[c].available # row.available)
    /\ Goto(c, "done")
    /\ UNCHANGED <<holder, job, seen>>

-----------------------------------------------------------------------------
(* lockBalance(), unlockBalance(), debitLocked() *)

\* SELECT ... FOR UPDATE waits for the row.  No row: lockBalance() throws, the
\* others return.
LockRow(c) ==
    /\ pc[c] = "start" /\ Locks(c)
    /\ IF row = Absent
       THEN Goto(c, IF job[c].op = "lock" THEN "failed" ELSE "done") /\ UNCHANGED <<holder, seen>>
       ELSE /\ holder = NoOne
            /\ holder' = c
            /\ seen' = [seen EXCEPT ![c] = row]
            /\ Goto(c, "write")
    /\ UNCHANGED <<row, job, net, raced>>

\* What is released or debited: no more than is locked.
Capped(c) == IF seen[c].locked >= job[c].amount THEN job[c].amount ELSE seen[c].locked

\* Mutant: more is debited than is locked.
WrittenUncapped(c) ==
    [available |-> seen[c].available, locked |-> seen[c].locked - job[c].amount]

Written(c) ==
    CASE job[c].op = "lock"   -> [available |-> seen[c].available - job[c].amount,
                                  locked    |-> seen[c].locked + job[c].amount]
      [] job[c].op = "unlock" -> [available |-> seen[c].available + Capped(c),
                                  locked    |-> seen[c].locked - Capped(c)]
      [] job[c].op = "debit"  -> [seen[c] EXCEPT !.locked = seen[c].locked - Capped(c)]

\* Mutant: the transaction of a lock that cannot be had stays open.
CommitOrHang(c) ==
    /\ pc[c] = "write" /\ Locks(c)
    /\ IF job[c].op = "lock" /\ seen[c].available < job[c].amount
       THEN Goto(c, "failed") /\ UNCHANGED <<row, net, holder>>
       ELSE /\ row' = Written(c) /\ holder' = NoOne
            /\ net' = IF job[c].op = "debit" THEN net - Capped(c) ELSE net
            /\ Goto(c, "done")
    /\ UNCHANGED <<job, seen, raced>>

\* The write and the commit; or the throw, if less is available, and a rollback.
Commit(c) ==
    /\ pc[c] = "write" /\ Locks(c)
    /\ holder' = NoOne
    /\ IF job[c].op = "lock" /\ seen[c].available < job[c].amount
       THEN Goto(c, "failed") /\ UNCHANGED <<row, net>>
       ELSE /\ row' = Written(c)
            /\ net' = IF job[c].op = "debit" THEN net - Capped(c) ELSE net
            /\ Goto(c, "done")
    /\ UNCHANGED <<job, seen, raced>>

\* A statement fails: the transaction is rolled back, the route answers with
\* an error.
Fail(c) ==
    /\ pc[c] \in {"start", "insert", "write"}
    /\ holder' = IF holder = c THEN NoOne ELSE holder
    /\ Goto(c, "failed")
    /\ UNCHANGED <<row, job, seen, net, raced>>

-----------------------------------------------------------------------------
Init ==
    /\ row \in Opening \union {Absent}
    /\ holder = NoOne
    /\ pc = [c \in Call |-> "start"]
    /\ job \in [Call -> [op: Ops, amount: Amount]]
    /\ seen = [c \in Call |-> Absent]
    /\ net = IF row = Absent THEN 0 ELSE row.available + row.locked
    /\ raced = FALSE

Step(c) == FindRow(c) \/ InsertRow(c) \/ Deposit(c) \/ Withdraw(c) \/ LockRow(c) \/ Commit(c)
Next    == \E c \in Call : Step(c) \/ Fail(c)

\* The database answers, and grants a lock that has become free.
Spec == Init /\ [][Next]_vars /\ \A c \in Call : WF_vars(Step(c))

-----------------------------------------------------------------------------
(* What the balance promises. *)

\* Whatever calls overlap, a balance and its locked part are what was paid in
\* and not paid out: no lock, release, debit or deposit is lost or applied
\* twice.  Only a withdrawal that read before another call wrote breaks it.
NothingLost == ~raced => net = IF row = Absent THEN 0 ELSE row.available + row.locked

\* Every call takes effect at one moment, but for the two of withdraw().
Promise == INSTANCE Ledger WITH
    account <- row,
    status  <- [c \in Call |-> IF pc[c] \in {"done", "failed"} THEN pc[c] ELSE "waiting"],
    looked  <- [c \in Call |-> IF Locks(c) THEN -1 ELSE seen[c].available]

KeepsPromise == Promise!Spec

\* No call waits for ever: the lock on the row is given back on every path.
CallsEnd == \A c \in Call : <>(pc[c] \in {"done", "failed"})
=============================================================================
