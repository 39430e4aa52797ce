------------------------- MODULE WaitManagerProofs -------------------------
(***************************************************************************)
(* Invariance proofs for WaitManager, for every number of requests,        *)
(* writers, keys and values and for every waiter limit.                    *)
(*                                                                         *)
(* The inductive invariant is the conjunction of the type invariant, the   *)
(* mutual exclusion, the counting of the waiters and the release of the    *)
(* waiters at shutdown.  Mutual exclusion is what makes the last inductive: *)
(* the flag of shutdown changes only while no thread is between its        *)
(* predicate and its blocking.                                             *)
(***************************************************************************)
EXTENDS WaitManager, FiniteSetTheorems, TLAPS

Inv == TypeOK /\ MutexHeld /\ NoWaiterMissesShutdown /\ WaitersCounted

(* The steps of a request, and those of a writer, as one disjunction each. *)
RequestStep(r) ==
    \/ Request(r) \/ EnterFull(r) \/ EnterShutdown(r) \/ EnterSatisfied(r)
    \/ EnterWait(r) \/ TestTrue(r) \/ TestFalse(r) \/ Block(r) \/ Expire(r)
    \/ TimeoutWake(r) \/ SpuriousWake(r) \/ Relock(r) \/ Leave(r) \/ Respond(r)

WriterStep(w) == BeginLoad(w) \/ Add(w) \/ Notify(w) \/ Remove(w)

(* Next is one step of one request, of one writer, or the shutdown.        *)
LEMMA NextSplit ==
    ASSUME Next
    PROVE  \/ \E r \in Requests : RequestStep(r)
           \/ \E w \in Writers : WriterStep(w)
           \/ Shutdown
BY DEF Next, RequestStep, WriterStep, waitForVault, Enter, Test

(* What the vault gives to a reader is a json value.                       *)
LEMMA TryGetType ==
    ASSUME TypeOK, NEW k \in Keys
    PROVE  TryGet(k) \in Json
BY DEF TypeOK, TryGet, Json

(* A call stays a call when its result and the values it read change.      *)
LEMMA UpdatedField ==
    ASSUME NEW c \in Calls, NEW m \in BOOLEAN, NEW v \in Json
    PROVE  /\ [c EXCEPT !.met = m] \in Calls
           /\ [c EXCEPT !.res = v] \in Calls
           /\ [c EXCEPT !.prev = v] \in Calls
           /\ [c EXCEPT !.expired = m] \in Calls
BY DEF Calls

(* So is a call whose result (and previous value) is set at once, as the   *)
(* exits of waitForVault do.                                               *)
LEMMA UpdatedCall ==
    ASSUME NEW c \in Calls, NEW m \in BOOLEAN, NEW p \in Json, NEW v \in Json
    PROVE  /\ [c EXCEPT !.met = m, !.res = v] \in Calls
           /\ [c EXCEPT !.prev = p, !.res = v, !.met = m] \in Calls
<1> DEFINE cm == [c EXCEPT !.met = m]
           cp == [c EXCEPT !.prev = p]
           cpr == [cp EXCEPT !.res = v]
<1>1. cm \in Calls /\ cp \in Calls
  BY UpdatedField
<1>2. cpr \in Calls
  <2> HIDE DEF cp
  <2> QED BY <1>1, UpdatedField
<1>3. [cm EXCEPT !.res = v] \in Calls
  <2> HIDE DEF cm
  <2> QED BY <1>1, UpdatedField
<1>4. [cpr EXCEPT !.met = m] \in Calls
  <2> HIDE DEF cpr
  <2> QED BY <1>2, UpdatedField
<1> QED BY <1>3, <1>4

(* The steps of a request keep the types of everything but the counter.    *)
LEMMA RequestStepTypes ==
    ASSUME TypeOK, NEW r \in Requests, RequestStep(r)
    PROVE  /\ vault' \in [Keys -> Json \cup {Absent}]
           /\ mutex' \in Requests \cup {Nobody}
           /\ shutdown' \in BOOLEAN
           /\ pc' \in [Requests -> Stages]
           /\ call' \in [Requests -> Calls]
           /\ writing' \in SUBSET Writers
           /\ todo' \in [Writers -> SUBSET Keys]
<1> USE DEF TypeOK
<1>0. call[r] \in Calls /\ call[r].key \in Keys /\ TryGet(call[r].key) \in Json
  BY TryGetType DEF Calls
<1>1. CASE Request(r)
  <2>1. PICK k \in Keys, t \in Json : call' = [call EXCEPT ![r] = NewCall(k, t)]
    BY <1>1 DEF Request
  <2>2. NewCall(k, t) \in Calls
    BY DEF NewCall, Calls, Json
  <2> QED BY <1>1, <2>1, <2>2 DEF Request, Goto, Stages
<1>2. CASE EnterFull(r)
  BY <1>0, <1>2 DEF EnterFull, Goto, Stages, Calls
<1>3. CASE EnterShutdown(r)
  BY <1>3 DEF EnterShutdown, Goto, Stages
<1>4. CASE EnterSatisfied(r)
  <2>1. call[r].target \in Json
    BY <1>0 DEF Calls
  <2>2. [call[r] EXCEPT !.prev = call[r].target, !.res = call[r].target,
                        !.met = TRUE] \in Calls
    BY <1>0, <2>1, UpdatedCall
  <2> QED BY <1>4, <2>2 DEF EnterSatisfied, Goto, Stages
<1>5. CASE EnterWait(r)
  BY <1>0, <1>5 DEF EnterWait, Goto, Stages, Calls
<1>6. CASE TestTrue(r)
  <2> DEFINE v == IF shutdown THEN call[r].res ELSE TryGet(call[r].key)
  <2>1. v \in Json
    BY <1>0 DEF Calls
  <2>2. [call[r] EXCEPT !.met = TRUE, !.res = v] \in Calls
    BY <1>0, <2>1, UpdatedCall
  <2> QED BY <1>6, <2>2 DEF TestTrue, Goto, Stages
<1>7. CASE TestFalse(r)
  BY <1>0, <1>7 DEF TestFalse, Goto, Stages, Calls
<1>8. CASE Block(r)
  BY <1>8 DEF Block, Goto, Stages
<1>9. CASE Expire(r)
  <2>1. [call[r] EXCEPT !.expired = TRUE] \in Calls
    BY <1>0, UpdatedField
  <2> QED BY <1>9, <2>1 DEF Expire
<1>10. CASE TimeoutWake(r)
  BY <1>10 DEF TimeoutWake, Goto, Stages
<1>11. CASE SpuriousWake(r)
  BY <1>11 DEF SpuriousWake, Goto, Stages
<1>12. CASE Relock(r)
  BY <1>0, <1>12 DEF Relock, Goto, Stages, Calls
<1>13. CASE Leave(r)
  <2> DEFINE m == call[r].met /\ ~shutdown
             v == IF ~shutdown /\ ~call[r].met THEN TryGet(call[r].key)
                                                ELSE call[r].res
  <2>1. m \in BOOLEAN
    OBVIOUS
  <2>2. v \in Json
    BY <1>0 DEF Calls
  <2>3. [call[r] EXCEPT !.met = m, !.res = v] \in Calls
    BY <1>0, <2>1, <2>2, UpdatedCall
  <2> QED BY <1>13, <2>3 DEF Leave, Goto, Stages
<1>14. CASE Respond(r)
  BY <1>0, <1>14 DEF Respond, Goto, Stages, Calls
<1> QED
  BY <1>1, <1>2, <1>3, <1>4, <1>5, <1>6, <1>7, <1>8, <1>9, <1>10, <1>11,
     <1>12, <1>13, <1>14 DEF RequestStep

(* A finite subset of the requests is counted by a natural number.         *)
LEMMA InWaitFinite ==
    IsFiniteSet(InWait) /\ Cardinality(InWait) \in Nat
<1>1. InWait \subseteq Requests
  BY DEF InWait
<1> QED BY <1>1, RequestsAssumption, FS_Subset, FS_CardinalityType

(* The set of waiters grows by one thread in EnterWait, shrinks by one in  *)
(* Leave, and no other step of a request changes it.                       *)
LEMMA RequestStepWaiters ==
    ASSUME TypeOK, NEW r \in Requests, RequestStep(r)
    PROVE  \/ /\ EnterWait(r)
              /\ r \notin InWait /\ InWait' = InWait \cup {r}
           \/ /\ Leave(r)
              /\ r \in InWait /\ InWait' = InWait \ {r}
           \/ InWait' = InWait /\ activeWaiters' = activeWaiters
<1> USE DEF TypeOK, InWait, Goto
<1>1. CASE EnterWait(r)
  BY <1>1 DEF EnterWait
<1>2. CASE Leave(r)
  BY <1>2 DEF Leave
<1>3. CASE Request(r) \/ EnterFull(r) \/ EnterShutdown(r) \/ EnterSatisfied(r) \/ Respond(r)
  BY <1>3 DEF Request, EnterFull, EnterShutdown, EnterSatisfied, Respond
<1>4. CASE TestTrue(r) \/ TestFalse(r) \/ Block(r) \/ Expire(r)
  BY <1>4 DEF TestTrue, TestFalse, Block, Expire
<1>5. CASE TimeoutWake(r) \/ SpuriousWake(r) \/ Relock(r)
  BY <1>5 DEF TimeoutWake, SpuriousWake, Relock
<1> QED BY <1>1, <1>2, <1>3, <1>4, <1>5 DEF RequestStep

(* The counter follows the set of waiters.                                 *)
LEMMA RequestStepCounts ==
    ASSUME Inv, NEW r \in Requests, RequestStep(r)
    PROVE  WaitersCounted' /\ activeWaiters' \in Nat
<1> USE DEF Inv, WaitersCounted
<1>0. TypeOK /\ activeWaiters \in Nat /\ MaxWaiters \in Nat
  BY MaxWaitersAssumption DEF TypeOK
<1>1. CASE /\ EnterWait(r)
           /\ r \notin InWait /\ InWait' = InWait \cup {r}
  <2>1. Cardinality(InWait') = Cardinality(InWait) + 1
    BY <1>1, InWaitFinite, FS_AddElement
  <2>2. activeWaiters' = activeWaiters + 1 /\ ~(activeWaiters >= MaxWaiters)
    BY <1>1 DEF EnterWait, isFull
  <2> QED BY <1>0, <2>1, <2>2
<1>2. CASE /\ Leave(r)
           /\ r \in InWait /\ InWait' = InWait \ {r}
  <2>1. Cardinality(InWait') = Cardinality(InWait) - 1 /\ Cardinality(InWait') \in Nat
    <3>1. IsFiniteSet(InWait \ {r})
      BY InWaitFinite, FS_RemoveElement
    <3> QED BY <1>2, <3>1, InWaitFinite, FS_RemoveElement, FS_CardinalityType
  <2>2. activeWaiters' = activeWaiters - 1
    BY <1>2 DEF Leave
  <2> QED BY <1>0, <2>1, <2>2
<1>3. CASE InWait' = InWait /\ activeWaiters' = activeWaiters
  BY <1>0, <1>3
<1> QED BY <1>0, <1>1, <1>2, <1>3, RequestStepWaiters

(* Mutual exclusion and the release at shutdown across a request's step.   *)
LEMMA RequestStepMutex ==
    ASSUME Inv, NEW r \in Requests, RequestStep(r)
    PROVE  MutexHeld' /\ NoWaiterMissesShutdown'
<1> USE DEF Inv, TypeOK, MutexHeld, NoWaiterMissesShutdown, Goto
<1>0. Nobody \notin Requests
  BY SpecialValuesAssumption
<1>1. CASE Request(r) \/ EnterFull(r) \/ EnterShutdown(r) \/ EnterSatisfied(r) \/ Respond(r)
  BY <1>1 DEF Request, EnterFull, EnterShutdown, EnterSatisfied, Respond
<1>2. CASE EnterWait(r)
  BY <1>0, <1>2 DEF EnterWait
<1>3. CASE TestTrue(r) \/ TestFalse(r) \/ Expire(r)
  BY <1>3 DEF TestTrue, TestFalse, Expire
<1>4. CASE Block(r)
  BY <1>0, <1>4 DEF Block
<1>5. CASE TimeoutWake(r) \/ SpuriousWake(r)
  BY <1>5 DEF TimeoutWake, SpuriousWake
<1>6. CASE Relock(r)
  BY <1>0, <1>6 DEF Relock
<1>7. CASE Leave(r)
  BY <1>0, <1>7 DEF Leave
<1> QED BY <1>1, <1>2, <1>3, <1>4, <1>5, <1>6, <1>7 DEF RequestStep

(* Waking the blocked threads moves none of them out of the wait, and none *)
(* across a boundary of the mutex.                                         *)
LEMMA WakeAllKeeps ==
    ASSUME TypeOK, WakeAll
    PROVE  /\ pc' \in [Requests -> Stages]
           /\ InWait' = InWait
           /\ \A r \in Requests : pc'[r] # "waiting"
           /\ \A r \in Requests : \A s \in {"test", "block", "leave"} :
                pc'[r] = s <=> pc[r] = s
BY DEF TypeOK, WakeAll, InWait, Stages

(* A writer changes nothing of the wait but through WakeAll.               *)
LEMMA WriterStepInv ==
    ASSUME Inv, NEW w \in Writers, WriterStep(w)
    PROVE  Inv'
<1> USE DEF Inv
<1>1. CASE BeginLoad(w)
  BY <1>1 DEF BeginLoad, TypeOK, MutexHeld, NoWaiterMissesShutdown, WaitersCounted, InWait
<1>2. CASE Add(w)
  BY <1>2 DEF Add, TypeOK, MutexHeld, NoWaiterMissesShutdown, WaitersCounted, InWait
<1>3. CASE Notify(w)
  <2>1. TypeOK'
    BY <1>3, WakeAllKeeps DEF Notify, TypeOK
  <2>2. MutexHeld' /\ NoWaiterMissesShutdown'
    BY <1>3, WakeAllKeeps DEF Notify, MutexHeld, NoWaiterMissesShutdown
  <2>3. WaitersCounted'
    BY <1>3, WakeAllKeeps DEF Notify, WaitersCounted
  <2> QED BY <2>1, <2>2, <2>3
<1>4. CASE Remove(w)
  BY <1>4 DEF Remove, TypeOK, MutexHeld, NoWaiterMissesShutdown, WaitersCounted, InWait
<1> QED BY <1>1, <1>2, <1>3, <1>4 DEF WriterStep

(* shutdown() finds the mutex free, so no thread is about to block, and    *)
(* wakes the threads that are blocked.                                     *)
LEMMA ShutdownInv ==
    ASSUME Inv, Shutdown
    PROVE  Inv'
<1> USE DEF Inv
<1>1. TypeOK'
  BY WakeAllKeeps DEF Shutdown, TypeOK
<1>2. \A r \in Requests : pc[r] # "block"
  BY SpecialValuesAssumption DEF Shutdown, MutexHeld
<1>3. MutexHeld' /\ NoWaiterMissesShutdown'
  BY <1>2, WakeAllKeeps DEF Shutdown, MutexHeld, NoWaiterMissesShutdown
<1>4. WaitersCounted'
  BY WakeAllKeeps DEF Shutdown, WaitersCounted
<1> QED BY <1>1, <1>3, <1>4

(* In the initial state nobody waits.                                      *)
LEMMA InitInv == Init => Inv
<1> SUFFICES ASSUME Init PROVE Inv
  OBVIOUS
<1>1. TypeOK
  <2>1. \A k \in Keys : NewCall(k, Null) \in Calls
    BY DEF NewCall, Calls, Json
  <2> QED BY <2>1 DEF Init, TypeOK, Stages
<1>2. MutexHeld /\ NoWaiterMissesShutdown
  BY SpecialValuesAssumption DEF Init, MutexHeld, NoWaiterMissesShutdown
<1>3. WaitersCounted
  <2>1. InWait = {}
    BY DEF Init, InWait
  <2> QED BY <2>1, FS_EmptySet, MaxWaitersAssumption DEF Init, WaitersCounted
<1> QED BY <1>1, <1>2, <1>3 DEF Inv

(* Every step keeps the invariant.                                         *)
LEMMA NextInv == Inv /\ [Next]_vars => Inv'
<1> SUFFICES ASSUME Inv, [Next]_vars PROVE Inv'
  OBVIOUS
<1>1. CASE UNCHANGED vars
  BY <1>1 DEF vars, Inv, TypeOK, MutexHeld, NoWaiterMissesShutdown, WaitersCounted, InWait
<1>2. ASSUME NEW r \in Requests, RequestStep(r) PROVE Inv'
  <2>1. TypeOK'
    BY <1>2, RequestStepTypes, RequestStepCounts DEF Inv, TypeOK
  <2> QED BY <1>2, <2>1, RequestStepCounts, RequestStepMutex DEF Inv
<1>3. ASSUME NEW w \in Writers, WriterStep(w) PROVE Inv'
  BY <1>3, WriterStepInv
<1>4. CASE Shutdown
  BY <1>4, ShutdownInv
<1> QED BY <1>1, <1>2, <1>3, <1>4, NextSplit

(* The counter of waiters is exact and never exceeds the limit, the steps  *)
(* of waitForVault under the mutex exclude each other, and no waiter       *)
(* sleeps through shutdown(), in every reachable state.                    *)
THEOREM Invariance == Spec => []Inv
BY InitInv, NextInv, PTL DEF Spec

(* Every step of waitForVault, of a writer and of shutdown() keeps the     *)
(* values of the members, and of the locals of a wait, of their types.     *)
THEOREM TypeCorrect == Spec => []TypeOK
BY Invariance, PTL DEF Inv

(* active_waiters_ is the number of threads inside the wait and stays      *)
(* within MAX_WAITERS.                                                     *)
THEOREM WaitersAreCounted == Spec => []WaitersCounted
BY Invariance, PTL DEF Inv

(* shutdown() releases every waiter: none is blocked or about to block     *)
(* once the flag is set.                                                   *)
THEOREM ShutdownReleasesWaiters == Spec => []NoWaiterMissesShutdown
BY Invariance, PTL DEF Inv

(* waitForVault and shutdown() exclude each other under the mutex.         *)
THEOREM MutualExclusion == Spec => []MutexHeld
BY Invariance, PTL DEF Inv

-----------------------------------------------------------------------------
(* What a call with a true result says of the values it carries.           *)
Truth(c) == IF c.target = Null THEN c.res # c.prev ELSE c.res = c.target

(* A result becomes true by a predicate that held, or by a shutdown, which *)
(* the end of waitForVault turns into false again.                         *)
Sound(c, stage, down) ==
    /\ stage \in {"idle", "lock", "test", "block", "waiting", "relock"} => ~c.met
    /\ stage = "leave" /\ c.met => down \/ Truth(c)
    /\ stage = "respond" /\ c.met => Truth(c)
    /\ stage = "done" /\ c.code = 200 => Truth(c)

AnswersSound == \A r \in Requests : Sound(call[r], pc[r], shutdown)

(* A request changes its own call and stage only, and never the flag.      *)
LEMMA RequestStepLocal ==
    ASSUME TypeOK, NEW r \in Requests, RequestStep(r)
    PROVE  /\ shutdown' = shutdown
           /\ \A q \in Requests \ {r} : call'[q] = call[q] /\ pc'[q] = pc[q]
BY DEF TypeOK, RequestStep, Request, EnterFull, EnterShutdown, EnterSatisfied, EnterWait,
       TestTrue, TestFalse, Block, Expire, TimeoutWake, SpuriousWake, Relock, Leave, Respond, Goto

(* The call of the request that takes a step stays sound.                  *)
LEMMA RequestStepSound ==
    ASSUME TypeOK, NEW r \in Requests, Sound(call[r], pc[r], shutdown), RequestStep(r)
    PROVE  Sound(call'[r], pc'[r], shutdown)
<1>0. /\ call \in [Requests -> Calls] /\ call[r] \in Calls
      /\ pc \in [Requests -> Stages]
  BY DEF TypeOK
<1>1. CASE Request(r)
  <2>1. PICK k \in Keys, t \in Json : call' = [call EXCEPT ![r] = NewCall(k, t)]
    BY <1>1 DEF Request
  <2>2. ~call'[r].met /\ pc'[r] = "lock"
    BY <1>0, <1>1, <2>1 DEF Request, Goto, NewCall
  <2> QED BY <2>2 DEF Sound
<1>2. CASE EnterFull(r) \/ EnterShutdown(r)
  <2>1. call'[r] = call[r] /\ pc[r] = "lock" /\ pc'[r] = "respond"
    BY <1>0, <1>2 DEF EnterFull, EnterShutdown, Goto
  <2> QED BY <2>1 DEF Sound
<1>3. CASE EnterSatisfied(r)
  <2>1. /\ call'[r].target = call[r].target /\ call'[r].res = call[r].target
        /\ call[r].target # Null /\ pc'[r] = "respond"
    BY <1>0, <1>3 DEF EnterSatisfied, Goto, Calls
  <2> QED BY <2>1 DEF Sound, Truth
<1>4. CASE EnterWait(r)
  <2>1. call'[r].met = call[r].met /\ pc[r] = "lock" /\ pc'[r] = "test"
    BY <1>0, <1>4 DEF EnterWait, Goto, Calls
  <2> QED BY <2>1 DEF Sound
<1>5. CASE TestTrue(r)
  <2>1. /\ call'[r].target = call[r].target /\ call'[r].prev = call[r].prev
        /\ call'[r].res = IF shutdown THEN call[r].res ELSE TryGet(call[r].key)
        /\ pc'[r] = "leave" /\ (shutdown \/ Satisfied(r))
    BY <1>0, <1>5 DEF TestTrue, Goto, Calls
  <2>2. ~shutdown => Truth(call'[r])
    BY <2>1 DEF Satisfied, TryGet, Truth
  <2> QED BY <2>1, <2>2 DEF Sound
<1>6. CASE TestFalse(r)
  <2>1. call'[r].met = call[r].met /\ pc[r] = "test" /\ pc'[r] \in {"leave", "block"}
    BY <1>0, <1>6 DEF TestFalse, Goto, Calls
  <2> QED BY <2>1 DEF Sound
<1>7. CASE Block(r) \/ TimeoutWake(r) \/ SpuriousWake(r)
  <2>1. /\ call'[r] = call[r] /\ pc[r] \in {"block", "waiting"}
        /\ pc'[r] \in {"waiting", "relock"}
    BY <1>0, <1>7 DEF Block, TimeoutWake, SpuriousWake, Goto
  <2> QED BY <2>1 DEF Sound
<1>8. CASE Expire(r) \/ Relock(r)
  <2>1. /\ call'[r].met = call[r].met /\ pc[r] \in {"test", "block", "waiting", "relock"}
        /\ pc'[r] \in {"test", "block", "waiting", "relock"}
    BY <1>0, <1>8 DEF Expire, Relock, Goto, Calls
  <2> QED BY <2>1 DEF Sound
<1>9. CASE Leave(r)
  <2>1. /\ call'[r].target = call[r].target /\ call'[r].prev = call[r].prev
        /\ call'[r].met = (call[r].met /\ ~shutdown)
        /\ call'[r].met => call'[r].res = call[r].res
        /\ pc[r] = "leave" /\ pc'[r] = "respond"
    BY <1>0, <1>9 DEF Leave, Goto, Calls
  <2> QED BY <2>1 DEF Sound, Truth
<1>10. CASE Respond(r)
  <2>1. /\ call'[r].target = call[r].target /\ call'[r].prev = call[r].prev
        /\ call'[r].res = call[r].res
        /\ call'[r].code = 200 => call[r].met
        /\ pc[r] = "respond" /\ pc'[r] = "done"
    BY <1>0, <1>10 DEF Respond, Goto, Calls
  <2> QED BY <2>1 DEF Sound, Truth
<1> QED BY <1>1, <1>2, <1>3, <1>4, <1>5, <1>6, <1>7, <1>8, <1>9, <1>10 DEF RequestStep

(* Writers and shutdown() touch no call; a wakeup keeps a call unmet, and  *)
(* the flag only excuses more.                                             *)
LEMMA OtherStepSound ==
    ASSUME TypeOK, AnswersSound,
           (\E w \in Writers : WriterStep(w)) \/ Shutdown \/ UNCHANGED vars
    PROVE  AnswersSound'
<1>1. call' = call /\ (shutdown => shutdown')
  BY DEF WriterStep, BeginLoad, Add, Notify, Remove, Shutdown, vars
<1>2. \A r \in Requests : pc'[r] = pc[r] \/ (pc[r] = "waiting" /\ pc'[r] = "relock")
  BY DEF TypeOK, WriterStep, BeginLoad, Add, Notify, Remove, Shutdown, WakeAll, vars
<1> QED BY <1>1, <1>2 DEF AnswersSound, Sound

(* A 200 answer is true: its value is the awaited one, or differs from the *)
(* previous value it carries, whatever the writers, the deadlines and      *)
(* shutdown() do meanwhile.                                                *)
THEOREM AnswersAreTrue == Spec => []MetAnswersAreTrue
<1>1. Init => AnswersSound
  <2> SUFFICES ASSUME Init, NEW r \in Requests PROVE Sound(call[r], pc[r], shutdown)
    BY DEF AnswersSound
  <2>1. ~call[r].met /\ pc[r] = "idle"
    BY DEF Init, NewCall
  <2> QED BY <2>1 DEF Sound
<1>2. Inv /\ AnswersSound /\ [Next]_vars => AnswersSound'
  <2> SUFFICES ASSUME Inv, AnswersSound, [Next]_vars PROVE AnswersSound'
    OBVIOUS
  <2>1. TypeOK
    BY DEF Inv
  <2>2. ASSUME NEW r \in Requests, RequestStep(r) PROVE AnswersSound'
    BY <2>1, <2>2, RequestStepLocal, RequestStepSound DEF AnswersSound
  <2> QED BY <2>1, <2>2, OtherStepSound, NextSplit
<1>3. AnswersSound => MetAnswersAreTrue
  BY DEF AnswersSound, MetAnswersAreTrue, Sound, Truth
<1> QED BY <1>1, <1>2, <1>3, Invariance, PTL DEF Spec
=============================================================================
