SPECIFICATION Spec
CONSTANTS
    u1 = u1
    u2 = u2
    t1 = t1
    t2 = t2
    t3 = t3
    r1 = r1
    r2 = r2
    r3 = r3
    p1 = p1
    p2 = p2
    None = None
    Users <- MCOneUser
    Targets <- MCTwoTargets
    Trackable <- MCOwned
    RowIds <- MCTwoRows
    Requests <- MCRequests
    ValidIntervals = {6, 12}
    AskedIntervals = {6}
    Limit = 1
PROPERTIES
    RetrackSucceeds
