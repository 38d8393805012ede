\* One task, two urls, a crash.
CONSTANTS
    t1 = t1
    u1 = u1
    u2 = u2
    n1 = n1
    n2 = n2
    n3 = n3
    NoInode = NoInode
    Tasks = {t1}
    Urls = {u1, u2}
    ForState = TRUE
    UpdateTicks = 1
    DefaultTicks = 2
    Inodes = {n1, n2, n3}
    MaxVersion = 2
    MaxCrashes = 1
SPECIFICATION HttpFairSpec
INVARIANTS
    CacheWhole
PROPERTIES
    StreamServes
CHECK_DEADLOCK FALSE
