SPECIFICATION FairSpec
CONSTANTS
    BufferSize = 4
    Letters <- TwoLetters
    Messages <- Mixed
INVARIANTS TypeOK ReaderInBounds InOrder HeadersInStep NoMutualWait
PROPERTY AllReceived
CHECK_DEADLOCK FALSE
