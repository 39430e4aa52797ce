---------------------------- MODULE WaitManager ----------------------------
(***************************************************************************)
(* The blocking wait on vault entries: WaitManager::waitForVault together  *)
(* with the admin handler GET /admin/v1/vault/<key>/wait that calls it,    *)
(* the vault writers that wake it (Vault::load, loadAtPath, loadJson), the *)
(* admin DELETE that removes entries without waking it, and shutdown.      *)
(*                                                                         *)
(* Every request runs on an admin worker thread of its own, every writer   *)
(* on a traffic, client or admin thread.  A step ends where another thread *)
(* can get in between: at each operation of the vault (which has a lock of *)
(* its own, WaitManager's mutex does not protect it), at each acquisition  *)
(* or release of WaitManager's mutex, and between the predicate evaluation *)
(* and the blocking of the condition variable, because notify() takes no   *)
(* mutex.                                                                  *)
(***************************************************************************)
EXTENDS Naturals, FiniteSets

CONSTANTS
    Requests,     \* the wait requests, one admin worker thread each
    Writers,      \* the threads that write or delete vault entries
    Keys,         \* vault keys
    Values,       \* json values other than null
    Null,         \* json null: "any change" as a target, absent as a read value
    Absent,       \* the key is not in the vault
    Nobody,       \* the mutex is free
    MaxWaiters    \* WaitManager::MAX_WAITERS

ASSUME MaxWaitersAssumption == MaxWaiters \in Nat
ASSUME SpecialValuesAssumption ==
    /\ Null \notin Values
    /\ Absent \notin Values \cup {Null}
    /\ Nobody \notin Requests
ASSUME RequestsAssumption == IsFiniteSet(Requests)

VARIABLES
    vault,          \* [Keys -> Values \cup {Null, Absent}]
    mutex,          \* the request holding WaitManager::mutex_, or Nobody
    activeWaiters,  \* WaitManager::active_waiters_
    shutdown,       \* WaitManager::shutdown_
    pc,             \* where the thread of each request is
    call,           \* the local variables of each request's thread
    writing,        \* the writers with a write operation in progress
    todo            \* per writer: the keys its operation has still to write

vars == <<vault, mutex, activeWaiters, shutdown, pc, call, writing, todo>>

Json == Values \cup {Null}

(* key, targetValue, previousValue, resultValue and result are those of    *)
(* waitForVault; expired says that the deadline has passed, late that the  *)
(* condition variable reported it; code is the handler's status code.      *)
Calls == [key: Keys, target: Json, prev: Json, res: Json, met: BOOLEAN,
          expired: BOOLEAN, late: BOOLEAN, code: {0, 200, 408, 429}]

Stages == {"idle", "lock", "test", "block", "waiting", "relock", "leave",
           "respond", "done"}

TypeOK ==
    /\ vault \in [Keys -> Json \cup {Absent}]
    /\ mutex \in Requests \cup {Nobody}
    /\ activeWaiters \in Nat
    /\ shutdown \in BOOLEAN
    /\ pc \in [Requests -> Stages]
    /\ call \in [Requests -> Calls]
    /\ writing \in SUBSET Writers
    /\ todo \in [Writers -> SUBSET Keys]

NewCall(k, t) ==
    [key |-> k, target |-> t, prev |-> Null, res |-> Null, met |-> FALSE,
     expired |-> FALSE, late |-> FALSE, code |-> 0]

Init ==
    /\ vault = [k \in Keys |-> Absent]
    /\ mutex = Nobody
    /\ activeWaiters = 0
    /\ shutdown = FALSE
    /\ pc = [r \in Requests |-> "idle"]
    /\ call \in [Requests -> {NewCall(k, Null) : k \in Keys}]
    /\ writing = {}
    /\ todo = [w \in Writers |-> {}]

-----------------------------------------------------------------------------
(* What Map::tryGet leaves in a json initialised to null.                  *)
TryGet(k) == IF vault[k] = Absent THEN Null ELSE vault[k]

(* Mutant: the limit is exceeded by one.                                   *)
isFullOffByOne == activeWaiters > MaxWaiters

isFull == activeWaiters >= MaxWaiters

Goto(r, stage) == pc' = [pc EXCEPT ![r] = stage]

(* The admin handler parses the query: no value, or "null", means any      *)
(* change, anything else is the value to wait for.                         *)
Request(r) ==
    /\ pc[r] = "idle"
    /\ \E k \in Keys, t \in Json : call' = [call EXCEPT ![r] = NewCall(k, t)]
    /\ Goto(r, "lock")
    /\ UNCHANGED <<vault, mutex, activeWaiters, shutdown, writing, todo>>

(* The mutex is taken and the waiter limit is reached: returns false.      *)
EnterFull(r) ==
    /\ pc[r] = "lock" /\ mutex = Nobody
    /\ isFull
    /\ Goto(r, "respond")
    /\ UNCHANGED <<vault, mutex, activeWaiters, shutdown, call, writing, todo>>

EnterShutdown(r) ==
    /\ pc[r] = "lock" /\ mutex = Nobody
    /\ ~isFull
    /\ shutdown
    /\ Goto(r, "respond")
    /\ UNCHANGED <<vault, mutex, activeWaiters, shutdown, call, writing, todo>>

(* A specific value is awaited and the vault already holds it.             *)
EnterSatisfied(r) ==
    /\ pc[r] = "lock" /\ mutex = Nobody
    /\ ~isFull /\ ~shutdown
    /\ call[r].target # Null
    /\ TryGet(call[r].key) = call[r].target
    /\ call' = [call EXCEPT ![r] = [@ EXCEPT !.prev = call[r].target,
                                             !.res  = call[r].target,
                                             !.met  = TRUE]]
    /\ Goto(r, "respond")
    /\ UNCHANGED <<vault, mutex, activeWaiters, shutdown, writing, todo>>

(* Otherwise the initial value is captured and the thread becomes a waiter *)
(* that holds the mutex and goes on to the predicate of wait_for.          *)
EnterWait(r) ==
    /\ pc[r] = "lock" /\ mutex = Nobody
    /\ ~isFull /\ ~shutdown
    /\ \/ call[r].target = Null
       \/ TryGet(call[r].key) # call[r].target
    /\ call' = [call EXCEPT ![r].prev = TryGet(call[r].key)]
    /\ activeWaiters' = activeWaiters + 1
    /\ mutex' = r
    /\ Goto(r, "test")
    /\ UNCHANGED <<vault, shutdown, writing, todo>>

(* The vault holds what the request waits for.                             *)
Satisfied(r) ==
    /\ vault[call[r].key] # Absent
    /\ IF call[r].target = Null
         THEN vault[call[r].key] # call[r].prev
         ELSE vault[call[r].key] = call[r].target

(* The predicate of wait_for, evaluated under the mutex: true ends the     *)
(* wait, false ends it too when the condition variable reported a timeout. *)
TestTrue(r) ==
    /\ pc[r] = "test"
    /\ shutdown \/ Satisfied(r)
    /\ call' = [call EXCEPT ![r] =
                   [@ EXCEPT !.met = TRUE,
                             !.res = IF shutdown THEN call[r].res
                                                 ELSE TryGet(call[r].key)]]
    /\ Goto(r, "leave")
    /\ UNCHANGED <<vault, mutex, activeWaiters, shutdown, writing, todo>>

(* Mutant: the deadline is not looked at.                                  *)
TestFalseNoDeadline(r) ==
    /\ pc[r] = "test"
    /\ ~shutdown /\ ~Satisfied(r)
    /\ call' = [call EXCEPT ![r].res = TryGet(call[r].key)]
    /\ Goto(r, "block")
    /\ UNCHANGED <<vault, mutex, activeWaiters, shutdown, writing, todo>>

TestFalse(r) ==
    /\ pc[r] = "test"
    /\ ~shutdown /\ ~Satisfied(r)
    /\ call' = [call EXCEPT ![r].res = TryGet(call[r].key)]
    /\ Goto(r, IF call[r].late THEN "leave" ELSE "block")
    /\ UNCHANGED <<vault, mutex, activeWaiters, shutdown, writing, todo>>

(* The condition variable releases the mutex and blocks.                   *)
Block(r) ==
    /\ pc[r] = "block"
    /\ mutex' = Nobody
    /\ Goto(r, "waiting")
    /\ UNCHANGED <<vault, activeWaiters, shutdown, call, writing, todo>>

(* The deadline passes, wherever the thread is within wait_for.            *)
Expire(r) ==
    /\ pc[r] \in {"test", "block", "waiting", "relock"}
    /\ ~call[r].expired
    /\ call' = [call EXCEPT ![r].expired = TRUE]
    /\ UNCHANGED <<vault, mutex, activeWaiters, shutdown, pc, writing, todo>>

TimeoutWake(r) ==
    /\ pc[r] = "waiting"
    /\ call[r].expired
    /\ Goto(r, "relock")
    /\ UNCHANGED <<vault, mutex, activeWaiters, shutdown, call, writing, todo>>

(* A condition variable may wake for no reason.                            *)
SpuriousWake(r) ==
    /\ pc[r] = "waiting"
    /\ ~call[r].expired
    /\ Goto(r, "relock")
    /\ UNCHANGED <<vault, mutex, activeWaiters, shutdown, call, writing, todo>>

(* Mutant: the predicate is not evaluated again at the deadline.           *)
RelockNoRetest(r) ==
    /\ pc[r] = "relock" /\ mutex = Nobody
    /\ mutex' = r
    /\ call' = [call EXCEPT ![r].late = call[r].expired]
    /\ Goto(r, IF call[r].expired THEN "leave" ELSE "test")
    /\ UNCHANGED <<vault, activeWaiters, shutdown, writing, todo>>

(* The condition variable takes the mutex again and compares the clock     *)
(* with the deadline.                                                      *)
Relock(r) ==
    /\ pc[r] = "relock" /\ mutex = Nobody
    /\ mutex' = r
    /\ call' = [call EXCEPT ![r].late = call[r].expired]
    /\ Goto(r, "test")
    /\ UNCHANGED <<vault, activeWaiters, shutdown, writing, todo>>

(* Mutants: the counter is decremented on the way out of the wait and      *)
(* again at the end; a shutdown does not turn the result into false.       *)
LeaveTwice(r) ==
    /\ pc[r] = "leave"
    /\ activeWaiters' = activeWaiters - 2
    /\ mutex' = Nobody
    /\ Goto(r, "respond")
    /\ UNCHANGED <<vault, shutdown, call, writing, todo>>

LeaveIgnoresShutdown(r) ==
    /\ pc[r] = "leave"
    /\ activeWaiters' = activeWaiters - 1
    /\ mutex' = Nobody
    /\ call' = [call EXCEPT ![r].res = IF call[r].met THEN @ ELSE TryGet(call[r].key)]
    /\ Goto(r, "respond")
    /\ UNCHANGED <<vault, shutdown, writing, todo>>

(* The end of waitForVault: the counter is decremented, a shutdown turns   *)
(* the result into false, a false result reads the vault once more, and    *)
(* the mutex is released.                                                  *)
Leave(r) ==
    /\ pc[r] = "leave"
    /\ activeWaiters' = activeWaiters - 1
    /\ mutex' = Nobody
    /\ call' = [call EXCEPT ![r] =
                   [@ EXCEPT !.met = call[r].met /\ ~shutdown,
                             !.res = IF ~shutdown /\ ~call[r].met
                                       THEN TryGet(call[r].key)
                                       ELSE call[r].res]]
    /\ Goto(r, "respond")
    /\ UNCHANGED <<vault, shutdown, writing, todo>>

(* The handler chooses the status code; isFull() reads the counter without *)
(* the mutex, after waitForVault has released it.                          *)
Respond(r) ==
    /\ pc[r] = "respond"
    /\ call' = [call EXCEPT ![r].code = IF ~call[r].met /\ isFull THEN 429
                                        ELSE IF call[r].met THEN 200 ELSE 408]
    /\ Goto(r, "done")
    /\ UNCHANGED <<vault, mutex, activeWaiters, shutdown, writing, todo>>

-----------------------------------------------------------------------------
(* A write operation of the vault starts: one key for load and loadAtPath, *)
(* several for loadJson.                                                   *)
BeginLoad(w) ==
    /\ w \notin writing
    /\ \E ks \in SUBSET Keys \ {{}} : todo' = [todo EXCEPT ![w] = ks]
    /\ writing' = writing \cup {w}
    /\ UNCHANGED <<vault, mutex, activeWaiters, shutdown, pc, call>>

(* One add() or modifyOrInsert() of the map, atomic under the map's lock.  *)
Add(w) ==
    /\ \E k \in todo[w], v \in Json :
         /\ vault' = [vault EXCEPT ![k] = v]
         /\ todo' = [todo EXCEPT ![w] = @ \ {k}]
    /\ UNCHANGED <<mutex, activeWaiters, shutdown, pc, call, writing>>

(* notify_all moves every blocked waiter on, none that is about to block.  *)
WakeAll ==
    pc' = [r \in Requests |-> IF pc[r] = "waiting" THEN "relock" ELSE pc[r]]

Notify(w) ==
    /\ w \in writing
    /\ todo[w] = {}
    /\ WakeAll
    /\ writing' = writing \ {w}
    /\ UNCHANGED <<vault, mutex, activeWaiters, shutdown, call, todo>>

(* DELETE /admin/v1/vault[?name=key] and the eraser of a vault target:     *)
(* the map's remove or clear, with no notify().                            *)
Remove(w) ==
    /\ w \notin writing
    /\ \/ \E k \in Keys : vault' = [vault EXCEPT ![k] = Absent]
       \/ vault' = [k \in Keys |-> Absent]
    /\ UNCHANGED <<mutex, activeWaiters, shutdown, pc, call, writing, todo>>

(* Mutant: shutdown() notifies without the mutex, as notify() does.        *)
ShutdownNoMutex ==
    /\ ~shutdown
    /\ shutdown' = TRUE
    /\ WakeAll
    /\ UNCHANGED <<vault, mutex, activeWaiters, call, writing, todo>>

(* WaitManager::shutdown: sets the flag and notifies under the mutex.      *)
Shutdown ==
    /\ ~shutdown
    /\ mutex = Nobody
    /\ shutdown' = TRUE
    /\ WakeAll
    /\ UNCHANGED <<vault, mutex, activeWaiters, call, writing, todo>>

-----------------------------------------------------------------------------
Enter(r) == EnterFull(r) \/ EnterShutdown(r) \/ EnterSatisfied(r) \/ EnterWait(r)

Test(r) == TestTrue(r) \/ TestFalse(r)

(* What the thread of a request does by itself once the request is there.  *)
waitForVault(r) ==
    \/ Enter(r) \/ Test(r) \/ Block(r) \/ TimeoutWake(r) \/ Relock(r)
    \/ Leave(r) \/ Respond(r)

Next ==
    \/ \E r \in Requests :
         Request(r) \/ waitForVault(r) \/ Expire(r) \/ SpuriousWake(r)
    \/ \E w \in Writers : BeginLoad(w) \/ Add(w) \/ Notify(w) \/ Remove(w)
    \/ Shutdown

Spec == Init /\ [][Next]_vars

(* Threads are scheduled and clocks advance; nobody has to send a request, *)
(* write the vault or shut the agent down, and a spurious wakeup is never  *)
(* owed.  An operation that has begun runs to its notify().                *)
Fairness ==
    /\ \A r \in Requests : WF_vars(waitForVault(r)) /\ WF_vars(Expire(r))
    /\ \A w \in Writers : WF_vars(Add(w) \/ Notify(w))

FairSpec == Spec /\ Fairness

-----------------------------------------------------------------------------
(* The waiters counted by active_waiters_.                                 *)
InWait == {r \in Requests : pc[r] \in {"test", "block", "waiting", "relock", "leave"}}

(* The counter is exactly the number of threads inside the wait, and never *)
(* exceeds the limit, so 32 waits can never exhaust the 33 admin workers,  *)
(* although it is raised and lowered far apart and a shutdown, a timeout   *)
(* and a notification leave the wait by different ways.                    *)
WaitersCounted ==
    /\ activeWaiters = Cardinality(InWait)
    /\ activeWaiters <= MaxWaiters

(* A thread past its acquisition of the mutex and before its release is    *)
(* its holder: the predicate, the counter updates and the flag of shutdown *)
(* exclude each other.                                                     *)
MutexHeld ==
    \A r \in Requests : (pc[r] \in {"test", "block", "leave"}) <=> (mutex = r)

(* No waiter sleeps through shutdown(): once the flag is set, no thread is *)
(* blocked or about to block, although notify_all reaches only the threads *)
(* already blocked.  It holds because, unlike notify(), shutdown() takes   *)
(* the mutex.                                                              *)
NoWaiterMissesShutdown ==
    shutdown => \A r \in Requests : pc[r] \notin {"block", "waiting"}

(* A 200 answer is true: the value it carries is the awaited one, or, for  *)
(* "any change", one that differs from the previous value it carries.  In  *)
(* particular a wait released by shutdown, whose predicate is true whatever *)
(* the vault holds, never answers 200.                                     *)
MetAnswersAreTrue ==
    \A r \in Requests :
      (pc[r] = "done" /\ call[r].code = 200) =>
         IF call[r].target = Null THEN call[r].res # call[r].prev
                                  ELSE call[r].res = call[r].target

(* Every wait is answered, whatever the writers do: the deadline bounds it *)
(* even when every notification is lost.                                   *)
EveryWaitAnswered ==
    \A r \in Requests : (pc[r] = "lock") ~> (pc[r] = "done")

(* A notify() that runs between a waiter's predicate and its blocking is   *)
(* lost.  The wait is still answered 200 when the awaited value stays in   *)
(* the vault, because the predicate is evaluated once more at the deadline.*)
StableChangeIsReported ==
    \A r \in Requests :
      [](  (pc[r] \in {"test", "block", "waiting", "relock"}
            /\ [](~shutdown /\ Satisfied(r)))
         => <>(pc[r] = "done" /\ call[r].code = 200) )

-----------------------------------------------------------------------------
(* "Wakes all waiters (called after vault entry mutation)": when no writer *)
(* is between its write and its notify, no waiter sleeps on a vault that   *)
(* already holds what it waits for.                                        *)
NoLostWakeup ==
    writing = {} =>
       \A r \in Requests : pc[r] = "waiting" => ~Satisfied(r)
=============================================================================
