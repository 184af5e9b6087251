\* One level of quotes, two cycles at a time, one call that throws or one crash;
\* two orders placed over REST.
CONSTANTS
    c1 = c1
    c2 = c2
    r1 = r1
    r2 = r2
    Reference <- MCReference
    SpreadBps = 10
    LevelBps = 2
    Levels = 1
    TickSize = 1
    Slot = {c1, c2}
    RestOrder <- MCRestOrder
    RestAt <- MCRestAt
    MaxQuotes = 4
    MaxFaults = 1
SPECIFICATION MCSpec
INVARIANTS
    MakerTypeOK
    EveryQuoteKnown
    NoSelfTrade
    ShutdownLeavesNothing
PROPERTIES
    ShutdownEnds
CHECK_DEADLOCK FALSE
