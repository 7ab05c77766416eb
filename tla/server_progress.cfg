SPECIFICATION FairSpec
CONSTANTS
    c1 = c1
    c2 = c2
    Conns = {c1, c2}
    Headers = {"Connection"}
    Values = {"keep-alive"}
    MaxRequests = 2
    MaxSent = 4
    MaxFds = 3
    Cuts = {"edge", "line"}
PROPERTIES RequestIsServed DescriptorReclaimed
CHECK_DEADLOCK FALSE
