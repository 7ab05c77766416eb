SPECIFICATION Spec
CONSTANTS
    Letters <- MCLetters
    Code <- MCCode
    Names <- MCNames
    FirstLines <- MCFirstLines
    Values <- MCValues
INVARIANTS TypeOK HangsWhenCut ValuesArrive StatusArrives SplitsAreExact TokensAreBase64
    EveryPassReads
PROPERTIES ParserEnds
CHECK_DEADLOCK FALSE
