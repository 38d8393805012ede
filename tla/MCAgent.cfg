\* One worker behind the publisher task, and a broadcast channel of one
\* transaction, so that the worker lags.
CONSTANTS
    f1 = f1
    d1 = d1
    d2 = d2
    w1 = w1
    NoFeed = NoFeed
    Feeds = {f1}
    Data = {d1, d2}
    Timestamps = {0, 1}
    Inputs <- SomeInputs
    Capacity = 1
    Handlers = 2
    Ttl = 1
    MaxPushed = 3
    Workers = {w1}
    NumRelayers = 1
    InitialBackoff = 1
    MaxBackoff = 1
    StableConnection = 1
    ChannelCapacity = 1
    Horizon = 0
    MaxSent = 3
SPECIFICATION AgentFairSpec
INVARIANTS
    RelayersHear
PROPERTIES
    PublisherFaithful
    EverythingForwarded
