SPECIFICATION Spec
CONSTANTS
    BufferSize = 8
    Letters <- TwoLetters
    Messages <- Mixed
INVARIANT BodyWhole
CHECK_DEADLOCK FALSE
