SPECIFICATION Spec
CONSTANTS
    s1 = s1
    s2 = s2
    a1 = a1
    b1 = b1
    booking = booking
    w1 = w1
    w2 = w2
    NoPriceText = NoPriceText
    NoPrice = NoPrice
    NoTick = NoTick
    Searches <- OneSearch
    Props <- TwoProps
    Providers <- OneProvider
    ProviderOf <- Together
    Ticks <- TwoTicks
    Intervals = {6}
    Cards = {1, 2}
    Outcomes = {"sent"}
    MaxFaults = 0
SYMMETRY OverlapSymmetry
INVARIANTS
    TypeOK
    HistoryChain
    NoRepeatedAlert
    ToldIsInHistory
PROPERTIES
    WithdrawnFallsSilent
