SPECIFICATION FairSpec
CONSTANTS
    Null = Null
    Numerals <- MCNumerals
    Letters <- MCLetters
    Inputs <- MCInputs
    Behind <- MCBehind
    MaxPiece = 2
    OneLetter = {"a"}
    StartLines <- MCStartLines
    Keys <- MCKeys
    Values <- MCValues
    Chunks <- MCChunks
    MaxHeaders = 2
    MaxBody = 4
    Workers = {w1, w2}
    Conns = {c1, c2}
    Descriptors = {4, 5, 6}
    HeadUnits = 2
    MaxBlocks = 1
    None = None
INVARIANTS
    Faithful
    RoundTrip
    ReleasedAll
    OwnDescriptor
    AnsweredWhole
PROPERTIES
    Completes
    AllClosed
CHECK_DEADLOCK FALSE
