SPECIFICATION TcpSpec
CONSTANTS
    Numbers = {3, 4}
    MaxAddrs = 2
    MaxLen = 3
    MaxSockets = 4
    NoSocket = NoSocket
INVARIANT HasConnection
CHECK_DEADLOCK FALSE
