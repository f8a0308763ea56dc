SPECIFICATION FairSpec
CONSTANTS
    x = x
    y = y
    Streams = {x, y}
    Mine <- MyStreams
    Runners = {r1, r2}
    Configs <- Deployments
    MaxBatch = 2
    StopFirst = TRUE
    MaxEvents = 2
    Faults = {"crash", "error", "cancel", "reset", "abandon", "cleanup"}
    None = None
INVARIANTS
    NothingSkipped
    AppliedInOrder
    EffectsOnce
PROPERTIES
    OnlyResetsMoveBack
    CatchesUp
