SPECIFICATION Spec
CONSTANTS
    s1 = s1
    s2 = s2
    k1 = k1
    w1 = w1
    w2 = w2
    f1 = f1
    None = None
    Streams = {s1, s2}
    Keys = {k1}
    Writers = {w1, w2}
    CodecWriters = {}
    Followers = {f1}
    Schema <- OneSchema
    MaxBatch = 2
    MaxPosition = 3
    PageSize = 1
SYMMETRY Perms
CONSTRAINT KeysOrFollowers
INVARIANTS
    StoreInv
    NoSkip
    ChainIntact
    ClosedIsFinal
    ClaimsMatchHistory
PROPERTIES
    ImplementsLog
