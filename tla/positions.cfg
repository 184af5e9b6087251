\* Two close calls and a fill of one or two lots; two polls at a time; two seconds; one fault.
CONSTANTS
    k1 = k1
    k2 = k2
    p1 = p1
    p2 = p2
    Closer = {k1, k2}
    Poll = {p1, p2}
    MaxClock = 2
    MaxAge = 1
    Expiry = 1
    MaxLots = 2
    MaxFills = 1
    MaxFaults = 1
SPECIFICATION Spec
INVARIANTS
    PositionsTypeOK
    PositionIsNet
    CloseOnlyCloses
PROPERTIES
    MarkCatchesUp
CHECK_DEADLOCK FALSE
