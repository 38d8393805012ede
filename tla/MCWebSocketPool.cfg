\* Two connections, each with a socket and the one that replaces it.
CONSTANTS
    c1 = c1
    c2 = c2
    m2 = m2
    m3 = m3
    None = None
    Conns = {c1, c2}
    SubIds = {1}
    Texts = {}
    Errors = {m2}
    Blobs = {m3}
    ListenerThrows = FALSE
    MaxSockets = 2
SPECIFICATION FairSpec
INVARIANTS
    ConnectionsServe
    EachMessageOnce
PROPERTIES
    
    EndsOrServes
CHECK_DEADLOCK FALSE
