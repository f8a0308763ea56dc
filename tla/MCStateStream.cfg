SPECIFICATION FairSpec
CONSTANTS
    x = x
    y = y
    d1 = d1
    d2 = d2
    Streams = {x, y}
    Drains = {d1, d2}
    ShardOf <- StreamShards
    DrainShard <- DrainShards
    Configs <- Deployments
    MaxVersion <- Versions
    MaxBatch = 2
    Faults = {"crash", "error", "cancel", "rebuild", "reset"}
    None = None
INVARIANTS
    CaughtUpIsDelivered
    OneDrainPerStream
PROPERTIES
    Converges
