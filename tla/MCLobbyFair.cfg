SPECIFICATION FairSpec
CONSTANTS
    Conn = {1, 2, 3}
    Name = {n1, n2}
    Fd = {3, 4}
    NULL = NULL
    Faults = {}
INVARIANTS
    SocketsKept
PROPERTIES
    
    WaiterHeeded
    WaiterKept
