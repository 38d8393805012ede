\* Three relayers, two workers: one warm standby.
CONSTANTS
    w1 = w1
    w2 = w2
    Workers = {w1, w2}
    NumRelayers = 3
    InitialBackoff = 1
    MaxBackoff = 1
    StableConnection = 2
    ChannelCapacity = 1
    Horizon = 1
    MaxSent = 0
SPECIFICATION QuietSpec
INVARIANTS
    SlotsExclusive
PROPERTIES
    DeadlinesKept
    Failover
