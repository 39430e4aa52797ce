\* Two workers, three paths and two files that may be open.
SPECIFICATION OutputSpec
CONSTANTS
    Workers = {"w1", "w2"}
    NumPaths = 3
    Before <- MCBefore
    Operations <- MCOperations
    ReadCache = TRUE
    MaxOpen = 2
    MaxOps = 2
    SocketPaths = {1}
    Datagrams <- MCDatagrams
CHECK_DEADLOCK FALSE
INVARIANTS
    LimitRespected
    UndisturbedWritesKept
PROPERTIES
    EveryFileClosed
    UndisturbedDatagramsSent
