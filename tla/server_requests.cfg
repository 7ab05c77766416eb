SPECIFICATION Spec
CONSTANTS
    c1 = c1
    c2 = c2
    c3 = c3
    Conns = {c1, c2, c3}
    Headers = {"Connection"}
    Values = {"keep-alive", "colon"}
    MaxRequests = 2
    MaxSent = 2
    MaxFds = 2
    Cuts = {"edge"}
SYMMETRY ConnSymmetry
INVARIANTS TypeOK DescriptorsMatch AnswersOwnRequests OwnHeadersWin ForeignHeadersAbandoned
PROPERTIES ClosedWhenDone RequestsKept
CHECK_DEADLOCK FALSE
