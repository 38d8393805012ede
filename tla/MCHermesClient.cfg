\* One connection task, two feeds with one spelling each.
CONSTANTS
    c1 = c1
    f1 = f1
    f2 = f2
    s1 = s1
    o1 = o1
    o2 = o2
    m1 = m1
    None = None
    Conns = {c1}
    Feeds = {f1, f2}
    Spellings = {s1}
    Options = {o1, o2}
    Msgs = {m1}
    ResponseCapacity = 1
    channel_capacity = 1
    MaxRequests = 2
SPECIFICATION FairSpec
INVARIANTS
    SubscriptionsRestored
PROPERTIES
    TaskEnds
