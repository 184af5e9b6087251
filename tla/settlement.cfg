\* Three orders of two users, one of them sent twice, and a quote of the market maker; a cancel, a fill
\* at the mark price, a restart.
CONSTANTS
    a = a
    a2 = a2
    b = b
    c = c
    d = d
    q = q
    alice = alice
    bob = bob
    lp = lp
    External = lp
    Order <- MCOrder
    User <- MCUser
    IdOf <- MCIdOf
    TermsOf <- MCTermsOf
    MaxOrders = 3
    MayCancel = {a}
    MayFillOutside = {d}
    Funds = 8
    TakerFee = 2
    MakerFee = 1
    MaxCrashes = 1
SPECIFICATION Spec
INVARIANTS
    SettlementTypeOK
    
    
    RowsMatchBook
PROPERTIES
    EventsApplied
CHECK_DEADLOCK FALSE
