\* Two connections, room for one response in each channel, one call.
CONSTANTS
    c1 = c1
    c2 = c2
    i1 = i1
    m1 = m1
    m2 = m2
    Conns = {c1, c2}
    ws_connections <- TwoConnections
    Ids = {i1}
    Msgs = {m1, m2}
    RequestCapacity = 1
    ResponseCapacity = 1
    channel_capacity = 1
    TimeoutTicks = 0
    ReuseIds = FALSE
    MaxCalls = 1
    Ttl = 1
    Sends <- BothAndOne
    PromptReader = TRUE
SPECIFICATION FairSpec
INVARIANTS
    ErrorMeansShutdown
    DeliveredOnce

    
CHECK_DEADLOCK FALSE
