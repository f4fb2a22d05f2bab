SPECIFICATION FairSpec
CONSTANTS
    Callers = {c1, c2}
    Owner = c1
    Requests = {r1, r2, stop}
    Quit = stop
    None = None
    MaxCalls = 2
    MaxInterrupts = 1
INVARIANTS
    Handshake
    OwnAnswer
    NoUseAfterJoin
PROPERTIES
    ImplementsRpc
    CallReturns
    JoinReturns
