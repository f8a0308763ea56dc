CONSTANTS
    s1 = s1
    s2 = s2
    w1 = w1
    w2 = w2
    None = None
    Streams = {s1, s2}
    Keys = {}
    Writers = {w1, w2}
    CodecWriters = {w1, w2}
    Followers = {}
    Schema <- TwoSchemas
    MaxBatch = 1
    MaxPosition = 3
    PageSize = 1
    RebuildSchema = 1
    PIIKinds = {}
    Foreign = {s2}
SPECIFICATION RebuildSpec
INVARIANTS
    StoreInv
    LoadedIsHistory
    RebuildFoldsPrefix
