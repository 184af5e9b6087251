\* A user trades with himself: is every event applied?
CONSTANTS
    a = a
    a2 = a2
    b = b
    c = c
    d = d
    q = q
    alice = alice
    bob = bob
    lp = lp
    External = lp
    Order <- MCFewOrders
    User <- MCUser
    IdOf <- MCFewIdOf
    TermsOf <- MCSelfTerms
    MaxOrders = 3
    MayCancel = {}
    MayFillOutside = {}
    Funds = 6
    TakerFee = 2
    MakerFee = 1
    MaxCrashes = 0
SPECIFICATION Spec
PROPERTY
    EventsApplied
CHECK_DEADLOCK FALSE
