SPECIFICATION Spec
CONSTANTS
    c1 = c1
    c2 = c2
    t1 = t1
    t2 = t2
    t3 = t3
    u = u
    p = p
    x = x
    Missing = Missing
    Usernames = {u}
    Passwords = {p}
    Tokens = {t1, t2, t3}
    Locations = {x}
    MaxLocations = 2
    Clients = {c1, c2}
    Faults <- AllFaultsHappen
SYMMETRY RunSymmetry
INVARIANTS TypeOK NoSessionForgotten BearerIsOwn ListIsAsTold
    NobodyWaitsInVain
PROPERTIES MenuFollowsSession
CHECK_DEADLOCK FALSE
