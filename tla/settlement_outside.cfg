\* Two orders that the engine may fill at the mark price.
CONSTANTS
    a = a
    a2 = a2
    b = b
    c = c
    d = d
    q = q
    alice = alice
    bob = bob
    lp = lp
    External = lp
    Order <- MCOutsideOrder
    User <- MCUser
    IdOf <- MCOutsideIdOf
    TermsOf <- MCOutsideTerms
    MaxOrders = 3
    MayCancel = {}
    MayFillOutside = {a, d}
    Funds = 8
    TakerFee = 2
    MakerFee = 1
    MaxCrashes = 0
SPECIFICATION Spec
INVARIANT
    OutsideFillsRecorded
CHECK_DEADLOCK FALSE
