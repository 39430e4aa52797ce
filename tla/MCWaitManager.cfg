\* Two requests for one place, one writer: the limit is met, and met again after
\* the waiter leaves.  No symmetry: the run also checks liveness.
SPECIFICATION FairSpec
CONSTANTS
    Requests = {r1, r2}
    Writers = {w1}
    Keys = {k1}
    Values = {a}
    Null = Null
    Absent = Absent
    Nobody = Nobody
    MaxWaiters = 1
INVARIANTS
    TypeOK
    WaitersCounted
    NoWaiterMissesShutdown
    MetAnswersAreTrue
PROPERTIES
    EveryWaitAnswered
    StableChangeIsReported
