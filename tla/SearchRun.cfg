SPECIFICATION FairSpec
CONSTANTS
    s1 = s1
    s2 = s2
    a1 = a1
    b1 = b1
    booking = booking
    airbnb = airbnb
    NoCount = NoCount
    NoSearch = NoSearch
    Searches <- TwoSearches
    Props <- MCProps
    Cards <- MCCards
    PropOf <- MCPropOf
    Providers <- MCProviders
    ProviderOf <- MCProviderOf
    Asks <- MCAsks
    MaxFaults = 1
INVARIANTS
    TypeOK
    ReportIsTrue
PROPERTIES
    PolledResultsAreFinal
    ImplementsSearchReport
    EndsOrErrs
CHECK_DEADLOCK FALSE
