\* Two workers; texts of up to four characters are read.
SPECIFICATION toolSpec
CONSTANTS
    IntRange = 1000000
    Setups <- MCSetups
    Paths <- MCPaths
    Statuses <- MCStatuses
    LogLevels = {"Warning"}
    SeqOffset <- MCSeqOffset
    PatternOrder <- MCPatternOrder
    MaxWorkers = 2
    MaxSequence = 3
    BufferSize = 6
    LastChars = 2
    LongRange = 100
    QueueSize = 2
CHECK_DEADLOCK FALSE
INVARIANTS
    OwnDatagramRequested
    WholeRangeSent
PROPERTIES
    EveryReceptionRequested
