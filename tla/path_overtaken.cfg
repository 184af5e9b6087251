\* Two orders and their cancel-all, no fault: which command comes first?
CONSTANTS
    r1 = r1
    r2 = r2
    r3 = r3
    c1 = c1
    NoKey = "none"
    Request <- MCRequest
    KeyOf <- MCKeyOf
    Canceller <- MCCanceller
    CancelAll <- MCCanceller
    TargetOf <- MCTargetOf
    Funds = 2
    BatchLimit = 2
    MaxFaults = 0
SPECIFICATION Spec
INVARIANT
    PlaceBeforeCancel
CHECK_DEADLOCK FALSE
