SPECIFICATION Spec
CONSTANTS
    c1 = c1
    t1 = t1
    u = u
    p = p
    x = x
    Missing = Missing
    Usernames = {u}
    Passwords = {p}
    Tokens = {t1}
    Locations = {x}
    MaxLocations = 1
    Clients = {c1}
    Faults <- StopOnly
PROPERTIES MenuAlwaysRight
CHECK_DEADLOCK FALSE
