SPECIFICATION FairSpec
CONSTANTS
    x = x
    y = y
    Streams = {x, y}
    Mine <- MyStreams
    Runners = {r1}
    Configs <- ReadModel
    MaxBatch = 2
    StopFirst = FALSE
    MaxEvents = 2
    Faults = {"reset"}
    None = None
PROPERTIES
    CatchesUp
