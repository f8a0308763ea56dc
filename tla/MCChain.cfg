CONSTANTS
    r1 = r1
    r2 = r2
    a = a
    b = b
    Null = Null
    Rebuilders = {r1, r2}
    Data = {a, b}
    Legacy = 2
    MaxRows = 4
SPECIFICATION FairSpec
INVARIANTS
    OkMeansIntact
    BrokenOnlyIfForked
PROPERTIES
    ChainGetsRebuilt
