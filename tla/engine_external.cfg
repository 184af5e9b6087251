\* Two orders, no fault: when is Binance asked to fill?
CONSTANTS
    o1 = o1
    o2 = o2
    o3 = o3
    OrderId <- MCTwoOrders
    MaxPrice = 2
    MaxQty = 2
    Terms <- MCTerms
    MaxDeliveries <- MCTwoDeliveries
    ExternalLiquidity = TRUE
    Command <- MCTwoCommands
    BatchSize = 1
    MaxSaves = 0
    MaxFaults = 0
SPECIFICATION EngineSpec
INVARIANT
    ExternalOnlyWhenBookEmpty
CHECK_DEADLOCK FALSE
