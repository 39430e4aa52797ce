SPECIFICATION Spec
CONSTANTS
    Requests = {r1, r2}
    Writers = {w1}
    Keys = {k1}
    Values = {a}
    Null = Null
    Absent = Absent
    Nobody = Nobody
    MaxWaiters = 1
INVARIANT NoLostWakeup
