SPECIFICATION FairSpec
CONSTANTS
    Cnt = 2
    Clients = {c1, c2}
    Tasks = {t1, t2}
    MaxInterrupts = 1
    NoTask = NoTask
    NoThread = NoThread
INVARIANTS
    TokenCount
    Ownership
    FIFO
    CleanShutdown
PROPERTIES
    DestroyReturns
    TaskServed
