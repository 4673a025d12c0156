SPECIFICATION Spec
CONSTANTS
    t1 = t1
    t2 = t2
    w1 = w1
    w2 = w2
    NoPriceText = NoPriceText
    NoPrice = NoPrice
    NoTick = NoTick
    Tracked <- OneRow
    Ticks <- TwoTicks
    Cards = {NoPriceText, 2, 3}
    Outcomes = {"sent", "failed"}
    MaxEntries = 2
    MaxFaults = 1
SYMMETRY TickSymmetry
INVARIANTS
    SentIsTold
    AlertsRestartOnlyAfterDeath
PROPERTIES
    ImplementsPriceWatch
