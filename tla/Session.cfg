SPECIFICATION Spec
CONSTANTS
    t1 = t1
    t2 = t2
    None = None
    Tabs <- MCTabs
    Requests <- MCRequests
    TabOf <- MCTabOf
    LoginOf <- MCLoginOf
    RateLimitMax = 1
    MaxTokens = 3
    MaxFaults = 1
INVARIANTS
    TypeOK
    QueueBehindOneRefresh
    CookieIsGood
    NobodyWaitsInVain
    LoginOvershootBounded
    CounterIsTimed
PROPERTIES
    LeavesForAReason
SYMMETRY MCSymmetry
CHECK_DEADLOCK FALSE
