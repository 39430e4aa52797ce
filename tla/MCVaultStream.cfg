\* Two writers and a stream, for one key or for all of them.
SPECIFICATION FairSpec
CONSTANTS
    Writers = {"w1", "w2"}
    Connections = {"c1"}
    Keys = {"x", "y"}
    Queries <- MCQueries
    Document <- MCDocument
    MaxOps = 2
CHECK_DEADLOCK FALSE
INVARIANTS
    StreamFaithful
PROPERTIES
    EveryWriteStreamed
