\* Three orders, one of them sent twice, and one cancel in batches of two; one
\* snapshot, one fault.
CONSTANTS
    o1 = o1
    o2 = o2
    o3 = o3
    OrderId <- MCOrderId
    MaxPrice = 2
    MaxQty = 2
    Terms <- MCTerms
    MaxDeliveries <- MCDeliveries
    ExternalLiquidity = TRUE
    Command <- MCCommand
    BatchSize = 2
    MaxSaves = 1
    MaxFaults = 1
SPECIFICATION MCSpec
INVARIANTS
    EngineTypeOK
    Cancellable
    EventsTellTheBook
    NeverTwice
PROPERTIES
    OutcomesAreFinal
    EveryBatchAnswered
CHECK_DEADLOCK FALSE
