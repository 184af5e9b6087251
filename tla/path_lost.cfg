\* Two orders and a retry, one failed statement or crash.
CONSTANTS
    r1 = r1
    r2 = r2
    r3 = r3
    c1 = c1
    NoKey = "none"
    Request <- MCRequest
    KeyOf <- MCKeyOf
    Canceller = {}
    CancelAll = {}
    TargetOf <- MCNoTargets
    Funds = 2
    BatchLimit = 2
    MaxFaults = 1
SPECIFICATION Spec
INVARIANT
    NoOrderLost
CHECK_DEADLOCK FALSE
