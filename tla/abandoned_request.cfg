SPECIFICATION FairSpec
CONSTANTS
    c1 = c1
    c2 = c2
    Conns = {c1, c2}
    Headers = {}
    Values = {}
    MaxRequests = 1
    MaxSent = 2
    MaxFds = 3
    Cuts = {"edge", "line"}
PROPERTY ContextReturned
CHECK_DEADLOCK FALSE
