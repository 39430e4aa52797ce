\* Two flows with a key in common, one with a key of its own too, while provisions come and
\* go and the endpoint is recreated.
SPECIFICATION FairSpec
CONSTANTS
    Chains = {1, 2}
    Keys = {"own", "shared"}
    KeysOf <- MCKeysOf
    Outs <- MCOuts
    SingleShot = {2}
    KeepHistory = TRUE
    AdminOps = {"clear", "add", "endpoint"}
    MaxAdmin = 1
CHECK_DEADLOCK FALSE
INVARIANTS
    IncompleteRetained
    PurgeClearsChain
    SequenceAsTriggered
 
