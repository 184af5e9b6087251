\* Three orders, one of them delivered up to twice, over two prices and two quantities.
CONSTANTS
    o1 = o1
    o2 = o2
    o3 = o3
    OrderId <- MCOrderId
    MaxPrice = 2
    MaxQty = 2
    Terms <- MCTerms
    MaxDeliveries <- MCMaxDeliveries
SPECIFICATION FairSpec
INVARIANTS
    TypeOK
    Uncrossed
    AllLive
    IndexSound
    Cancellable
    BestPriceFirst
    InstructionsHonoured
PROPERTIES
    OnlyTheFilledLeave
    MatchReturns
CHECK_DEADLOCK FALSE
