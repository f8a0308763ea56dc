SPECIFICATION FairSpec
CONSTANTS
    x = x
    y = y
    d1 = d1
    d2 = d2
    None = None
    Streams = {x, y}
    Drains = {d1, d2}
    Shards = {0, 1}
    ShardOf <- ShardPerStream
    DrainShard <- ShardPerDrain
    Configs <- Deployments
    MaxAttempts = 2
    MaxEvents = 3
INVARIANTS
    DeliveredInOrder
    GapsAreAlerted
    NoStaleRows
    NothingLost
PROPERTIES
    Settles
