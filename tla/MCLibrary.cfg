SPECIFICATION Spec
CONSTANTS
    NsPerMs = 2
    MsPerSec = 3
    Timeouts <- MCTimeouts
    MaxNow = 15
    MaxPosts = 1
    MaxSignals = 2
    Threads = {t1, t2}
    Pairs <- MCPairs
    Words = {"word"}
    Empty = ""
    Queries <- MCQueries
    MaxCalls = 2
    MaxPairs = 3
    Garbage = "garbage"
    NULL = NULL
    Numbers = {3, 4}
    MaxAddrs = 2
    MaxLen = 3
    MaxSockets = 4
    NoSocket = NoSocket
    Heads = {h1, h2}
    Nodes = {n1, n2, n3}
    Wild = Wild
    AdjacentToo = FALSE
    Size = 3
    Writers = {w1}
    Readers = {r1}
    Pollers = {w1, r1}
    Bytes = {a, b}
    MaxBytes = 2
    MaxCounting = 1
    Junk = Junk
    None = None
INVARIANTS
    OwnCountKept
    Represents
    VisitsAll
    OwnPairs
    CompiledBeforeUse
    CountsAll
    NoLeak
PROPERTIES
    ImplementsByteFifo
    EarlyOnlyAtASecond
CHECK_DEADLOCK FALSE
