SPECIFICATION FairSpec
CONSTANTS
    t1 = t1
    t2 = t2
    p1 = p1
    p2 = p2
    Subjects = {1, 2}
    Threads = {t1, t2}
    Procs = {p1, p2}
    ProcOf <- OneThreadEach
    Ops <- OneWorker
    OneCreator = TRUE
    PageSize = 1
    MaxKeys = 2
    MaxKEK = 2
INVARIANTS
    KeyKept
    CacheRight
    SweepComplete
PROPERTIES
    OldKEKsFallOut
