\* Two connections of any kind on a channel of two updates.
CONSTANTS
    c1 = c1
    c2 = c2
    Conns = {c1, c2}
    NoConn = NoConn
    Capacity = 2
    MAX_ERROR_DISCONNECT = 1
    CacheTicks = 1
    MaxUpdates = 2
    MaxBatch = 2
    MaxVersion = 1
SPECIFICATION FairSpec

    
PROPERTIES
    PushesFaithful
    
