SPECIFICATION Spec
CONSTANTS
    Commands = {c1}
    Subs = {"first", "second"}
    Order <- SubOrder
    Configs <- Buses
    Batch <- Placed
    Undo <- Undone
    MaxEvents = 4
    MaxRetries = 1
    Faults = {}
    None = None
INVARIANTS
    OwnState
CHECK_DEADLOCK FALSE
