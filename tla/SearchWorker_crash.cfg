SPECIFICATION Spec
CONSTANTS
    s1 = s1
    s2 = s2
    a1 = a1
    b1 = b1
    booking = booking
    w1 = w1
    w2 = w2
    NoPriceText = NoPriceText
    NoPrice = NoPrice
    NoTick = NoTick
    Searches <- OneSearch
    Props <- OneProp
    Providers <- OneProvider
    ProviderOf <- Single
    Ticks <- TwoTicks
    Intervals = {6}
    Cards = {NoPriceText, 2}
    Outcomes = {"sent", "failed", "sent_no_reply"}
    MaxFaults = 1
SYMMETRY TickSymmetry
INVARIANTS
    SentIsTold
    AlertsRestartOnlyAfterDeath
PROPERTIES
    ImplementsPriceWatch
