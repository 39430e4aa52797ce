SPECIFICATION Spec
CONSTANTS
    Workers = {w1, w2}
    Removers = {}
    Keys = {k1}
    ForeignKeys = {}
    WarmKeys = {}
    Provisioned = {"initial"}
    OutStates = {"initial"}
    MaxRecv = 2
    Configurable = {}
    KeepHistory = TRUE
    Exclusive = FALSE
CHECK_DEADLOCK FALSE
INVARIANT EverythingStored
