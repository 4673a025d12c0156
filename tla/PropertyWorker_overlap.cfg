SPECIFICATION Spec
CONSTANTS
    t1 = t1
    t2 = t2
    w1 = w1
    w2 = w2
    NoPriceText = NoPriceText
    NoPrice = NoPrice
    NoTick = NoTick
    Tracked <- TwoRows
    Ticks <- TwoTicks
    Cards = {1}
    Outcomes = {"sent"}
    MaxEntries = 1
    MaxFaults = 1
SYMMETRY Symmetry
INVARIANTS
    TypeOK
PROPERTIES
    InactiveIsFinal
    InactiveFallsSilent
