SPECIFICATION Spec
CONSTANTS
    u1 = u1
    u2 = u2
    c1 = c1
    c2 = c2
    k1 = k1
    k2 = k2
    x1 = x1
    h1 = h1
    h2 = h2
    None = None
    Users <- MCUsers
    Chats <- MCChats
    Codes <- MCCodes
    Targets <- MCTargets
    Handlers <- MCHandlers
SYMMETRY Symmetry
INVARIANTS
    TypeOK
    OneUserPerChat
    LinkedByOwnCode
    FollowedByOwner
    UsesBounded
