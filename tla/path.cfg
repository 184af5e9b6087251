\* Two orders, a retry of one of them, a cancel-all, one fault.
CONSTANTS
    r1 = r1
    r2 = r2
    r3 = r3
    c1 = c1
    NoKey = "none"
    Request <- MCRequest
    KeyOf <- MCKeyOf
    Canceller <- MCCanceller
    CancelAll <- MCCanceller
    TargetOf <- MCTargetOf
    Funds = 2
    BatchLimit = 2
    MaxFaults = 1
SPECIFICATION Spec
INVARIANTS
    PathTypeOK
    KeyNamesOneOrder
    MarginBehindEveryOrder
    AnsweredIsPlaced
    PlacedAtMostTwice
PROPERTIES
    OutboxDrains
CHECK_DEADLOCK FALSE
