\* Three calls of any kind on one row, which may not exist yet.
CONSTANTS
    c1 = c1
    c2 = c2
    c3 = c3
    Call = {c1, c2, c3}
    Amount = {1, 2}
    Opening <- MCOpening
    NoOne = NoOne
SPECIFICATION Spec
INVARIANTS
    BalancesTypeOK
    NothingLost
PROPERTIES
    KeepsPromise
    CallsEnd
CHECK_DEADLOCK FALSE
