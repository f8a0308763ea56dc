SPECIFICATION Spec
CONSTANTS
    t1 = t1
    t2 = t2
    p1 = p1
    p2 = p2
    Subjects = {1}
    Threads = {t1, t2}
    Procs = {p1}
    ProcOf <- OneProcess
    Ops <- KeyUses
    OneCreator = FALSE
    PageSize = 1
    MaxKeys = 2
    MaxKEK = 2
INVARIANTS
    KeyKept
