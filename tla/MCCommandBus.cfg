SPECIFICATION FairSpec
CONSTANTS
    Commands = {c1}
    Subs = {"first", "second"}
    Order <- SubOrder
    Configs <- Buses
    Batch <- Placed
    Undo <- Undone
    MaxEvents = 4
    MaxRetries = 1
    Faults = {"crash", "error"}
    None = None
INVARIANTS
    TypeOK
    CommitsOnce
    BatchIsOwn
    OneState
    SettledOnReturn
    NotBoth
    ReturnsCompensated
PROPERTIES
    Delivered
CHECK_DEADLOCK FALSE
