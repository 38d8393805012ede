\* One feed whose id the user spells in two ways.
CONSTANTS
    c1 = c1
    f1 = f1
    s1 = s1
    s2 = s2
    o1 = o1
    m1 = m1
    None = None
    Conns = {c1}
    Feeds = {f1}
    Spellings = {s1, s2}
    Options = {o1}
    Msgs = {m1}
    ResponseCapacity = 1
    channel_capacity = 1
    MaxRequests = 2
SPECIFICATION Spec
INVARIANTS
    SubscriptionsRestored
