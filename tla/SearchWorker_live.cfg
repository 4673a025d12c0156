SPECIFICATION FairSpec
CONSTANTS
    s1 = s1
    s2 = s2
    a1 = a1
    b1 = b1
    booking = booking
    w1 = w1
    w2 = w2
    NoPriceText = NoPriceText
    NoPrice = NoPrice
    NoTick = NoTick
    Searches <- TwoSearches
    Props <- OneProp
    Providers <- OneProvider
    ProviderOf <- Single
    Ticks <- OneTick
    Intervals = {6}
    Cards = {1}
    Outcomes = {"sent"}
    MaxFaults = 1
PROPERTIES
    DueIsServed
