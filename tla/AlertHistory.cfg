SPECIFICATION Spec
CONSTANTS
    n1 = n1
    d1 = d1
    d2 = d2
    d3 = d3
    d4 = d4
    w1 = w1
    w2 = w2
    All = All
    Alerts <- MCAlerts
    Types = {"new_listing", "price_drop"}
    TypeOf <- MCTypeOf
    Ticks <- MCTicks
    MaxClock = 3
    Size = 2
SYMMETRY MCSymmetry
INVARIANTS
    TypeOK
    OnlyTiesAreSkipped
    NobodyIsStranded
CHECK_DEADLOCK FALSE
