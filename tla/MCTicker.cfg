\* A pool of one thread with room for one job; every kind of operation.
SPECIFICATION FairSpec
CONSTANTS
    Operations <- Anything
    MaxOps = 3
    Pool = {p1}
    MaxPending = 1
    SeqValues <- MCValues
CHECK_DEADLOCK FALSE

    
    
    
PROPERTIES
    RangeCompletes
