SPECIFICATION FairSpec
CONSTANTS
    t1 = t1
    t2 = t2
    w1 = w1
    w2 = w2
    NoPriceText = NoPriceText
    NoPrice = NoPrice
    NoTick = NoTick
    Tracked <- TwoRows
    Ticks <- OneTick
    Cards = {1}
    Outcomes = {"sent"}
    MaxEntries = 9
    MaxFaults = 1
PROPERTIES
    CheckedInIsSwitchedOff
    DueIsServed
