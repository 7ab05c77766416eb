SPECIFICATION FairSpec
CONSTANTS
    c1 = c1
    c2 = c2
    t1 = t1
    u = u
    p = p
    x = x
    Missing = Missing
    Usernames = {u}
    Passwords = {p}
    Tokens = {t1}
    Locations = {x}
    MaxLocations = 1
    Clients = {c1, c2}
    Faults <- AllFaultsHappen
PROPERTIES PromptReturns
CHECK_DEADLOCK FALSE
