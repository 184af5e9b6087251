-------------------------------- MODULE Ledger --------------------------------
(***************************************************************************)
(* What a balance (of one user, in one asset) promises the calls of        *)
(* balanceService.ts: each takes effect at one moment and alone, or not at *)
(* all - but for withdraw(), which looks first and later writes what is    *)
(* left of what it saw.                                                    *)
(***************************************************************************)
EXTENDS Integers

CONSTANTS Call, Amount

VARIABLES
    account,   \* Absent, or what is available and what is locked
    job,       \* what each call is to do
    status,    \* "waiting", "done" or "failed"
    looked     \* the balance a withdrawal has seen

vars == <<account, job, status, looked>>

Ops    == {"deposit", "withdraw", "lock", "unlock", "debit"}
Absent == [available |-> -1, locked |-> -1]
Zero   == [available |-> 0, locked |-> 0]

\* Call c, whose job is op, ends with the account in this state.
Ends(c, op, changed) ==
    /\ status[c] = "waiting" /\ job[c].op = op
    /\ account' = changed
    /\ status' = [status EXCEPT ![c] = "done"]
    /\ UNCHANGED <<job, looked>>

AtMost(m, n) == IF m >= n THEN n ELSE m

Open(c) ==
    /\ status[c] = "waiting" /\ job[c].op \in {"deposit", "withdraw"}
    /\ account = Absent
    /\ account' = Zero
    /\ status' = [status EXCEPT ![c] = IF job[c].op = "deposit" THEN "waiting" ELSE "failed"]
    /\ UNCHANGED <<job, looked>>

Deposit(c) ==
    /\ account # Absent
    /\ Ends(c, "deposit", [account EXCEPT !.available = account.available + job[c].amount])

Look(c) ==
    /\ status[c] = "waiting" /\ job[c].op = "withdraw"
    /\ account # Absent
    /\ looked' = [looked EXCEPT ![c] = account.available]
    /\ status' = [status EXCEPT ![c] =
                     IF account.available >= job[c].amount THEN "waiting" ELSE "failed"]
    /\ UNCHANGED <<account, job>>

Withdraw(c) ==
    /\ looked[c] >= job[c].amount
    /\ Ends(c, "withdraw", [account EXCEPT !.available = looked[c] - job[c].amount])

Lock(c) ==
    /\ account.available >= job[c].amount
    /\ Ends(c, "lock", [available |-> account.available - job[c].amount,
                        locked |-> account.locked + job[c].amount])

Unlock(c) ==
    LET n == AtMost(account.locked, job[c].amount)
    IN  /\ account # Absent
        /\ Ends(c, "unlock", [available |-> account.available + n, locked |-> account.locked - n])

Debit(c) ==
    /\ account # Absent
    /\ Ends(c, "debit", [account EXCEPT
                            !.locked = account.locked - AtMost(account.locked, job[c].amount)])

\* Nothing is locked where there is no account.
NothingToTake(c) ==
    /\ account = Absent
    /\ Ends(c, "unlock", Absent) \/ Ends(c, "debit", Absent)

Refuse(c) ==
    /\ status[c] = "waiting"
    /\ status' = [status EXCEPT ![c] = "failed"]
    /\ UNCHANGED <<account, job, looked>>

Init ==
    /\ account = Absent \/ account \in [available: Nat, locked: Nat]
    /\ job \in [Call -> [op: Ops, amount: Amount]]
    /\ status = [c \in Call |-> "waiting"]
    /\ looked = [c \in Call |-> -1]

Next == \E c \in Call : \/ Open(c) \/ Deposit(c) \/ Look(c) \/ Withdraw(c)
                        \/ Lock(c) \/ Unlock(c) \/ Debit(c) \/ NothingToTake(c) \/ Refuse(c)

Spec == Init /\ [][Next]_vars
=============================================================================
