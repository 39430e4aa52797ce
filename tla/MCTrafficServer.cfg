\* Two workers and a remover that never share a key at a time; one may name
\* the other's key in a virtual out-state.
SPECIFICATION Spec
CONSTANTS
    Workers = {w1, w2}
    Removers = {a1}
    Keys = {k1, k2}
    ForeignKeys = {k2}
    WarmKeys = {}
    Provisioned = {"initial"}
    OutStates = {"initial", "purge"}
    MaxRecv = 2
    Configurable = {"data", "purge"}
    KeepHistory = TRUE
    Exclusive = TRUE
CHECK_DEADLOCK FALSE
INVARIANTS
    
    EverythingStored
    
PROPERTY ImplementsEventHistories
