SPECIFICATION Spec
CONSTANTS
    u1 = u1
    u2 = u2
    t1 = t1
    t2 = t2
    t3 = t3
    r1 = r1
    r2 = r2
    r3 = r3
    p1 = p1
    p2 = p2
    None = None
    Users <- MCUsers
    Targets <- MCTargets
    Trackable <- MCTrackable
    RowIds <- MCRowIds
    Requests <- MCRequests
    ValidIntervals = {6, 12}
    AskedIntervals = {6, 7}
    Limit = 1
SYMMETRY Symmetry
INVARIANTS
    TypeOK
    OneRowPerTarget
PROPERTIES
    ImplementsTrackingRegistry
