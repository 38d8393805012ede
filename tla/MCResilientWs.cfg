\* One connection task, two subscriptions.
CONSTANTS
    c1 = c1
    i1 = i1
    i2 = i2
    m1 = m1
    Conns = {c1}
    RequestCapacity = 2
    ResponseCapacity = 1
    Msgs = {m1}
    TimeoutTicks = 1
    Ids = {i1, i2}
    ReuseIds = FALSE
    MaxCalls = 4
SPECIFICATION WsFairSpec
PROPERTIES
    SubscriptionsRestored
    NoDoubleSubscribe
    
CHECK_DEADLOCK FALSE
