------------------------------ MODULE SafeFile ------------------------------
(***************************************************************************)
(* FileManager and its SafeFile objects: workers write, read and empty     *)
(* files, a file is closed at once or by a timer after the last write, and *)
(* the number of open files is limited by a condition variable.            *)
(*                                                                         *)
(* Two workers that miss the same path in the map make an object each; the *)
(* one that is replaced is destroyed when nobody uses it.  An operation    *)
(* has a number, which stands for the data it writes; what a read returns  *)
(* is left out.                                                            *)
(***************************************************************************)
EXTENDS Integers, Sequences, FiniteSets

CONSTANTS
    Workers,
    NumPaths,    \* paths that are used
    Before,      \* what the paths may be at the start (see Init)
    Operations,  \* what is asked for: an operation, its path, close later
    ReadCache,   \* read_cache_: what was read is kept
    MaxOpen,     \* max_open_files_
    MaxOps       \* bound on the operations

ASSUME FileAssumption == {NumPaths, MaxOpen} \subseteq Nat \ {0} /\ MaxOps \in Nat /\ ReadCache \in BOOLEAN

Paths == 1..NumPaths

ASSUME InstanceAssumption ==
    /\ Before \subseteq [Paths -> {"none", "closed", "app"}]
    /\ Operations \subseteq [op: {"write", "read", "empty"}, path: Paths, later: BOOLEAN]

(* The objects: one per path from before, and one per operation.           *)
Objects == 1..(NumPaths + MaxOps)
None == 0
Nobody == "nobody"

VARIABLES
    map,        \* FileManager: the object of each path
    file,       \* the objects
    current,    \* CurrentOpenedFiles
    signalled,  \* the workers OpenedFilesCV woke up
    disk,       \* the data in each path
    existing,   \* the paths that exist
    pc, loc, ops,
    kept        \* history: the data of writes that nobody disturbed

vars == <<map, file, current, signalled, disk, existing, pc, loc, ops, kept>>

(* stream: "closed" or its mode; failed: its failbit; armed: timer_ runs;  *)
(* expired: handlers that were queued before they could be cancelled;      *)
(* cached: read_cached_.                                                   *)
File(p, mode, armed) ==
    [path |-> p, stream |-> mode, failed |-> FALSE, unflushed |-> <<>>,
     armed |-> armed, expired |-> 0, cached |-> FALSE, mutex |-> Nobody]

Unused == [op |-> "none", path |-> None, object |-> None, number |-> 0,
           later |-> FALSE, mode |-> "none", next |-> "none", alone |-> FALSE]

IsOpen(o) == file[o].stream # "closed"
Opened == {o \in Objects : IsOpen(o)}

Files == [path: Paths \cup {None}, stream: {"closed", "app", "in", "trunc"}, failed: BOOLEAN,
          unflushed: Seq(Nat), armed: BOOLEAN, expired: Nat, cached: BOOLEAN,
          mutex: Workers \cup {Nobody}]
Locals == [op: {"none", "write", "read", "empty"}, path: Paths \cup {None},
           object: Objects \cup {None}, number: 0..MaxOps, later: BOOLEAN,
           mode: {"none", "app", "in", "trunc"}, next: {"none", "add", "write", "close"},
           alone: BOOLEAN]
Stages == {"idle", "get", "add", "open", "asleep", "write", "finish", "empty", "close", "end"}

TypeOK ==
    /\ map \in [Paths -> Objects \cup {None}]
    /\ file \in [Objects -> Files]
    /\ current \in Int /\ ops \in 0..MaxOps
    /\ disk \in [Paths -> Seq(Nat)] /\ existing \subseteq Paths
    /\ pc \in [Workers -> Stages] /\ loc \in [Workers -> Locals]
    /\ signalled \subseteq Workers
    /\ kept \subseteq Paths \X Nat

(* A path has no object yet, or one that is closed, or one that is open    *)
(* since a write not long ago.                                             *)
Init ==
    /\ \E was \in Before :
         /\ file = [o \in Objects |->
                      IF o \in Paths /\ was[o] # "none"
                        THEN File(o, was[o], was[o] = "app") ELSE File(None, "closed", FALSE)]
         /\ map = [p \in Paths |-> IF was[p] = "none" THEN None ELSE p]
         /\ existing = {p \in Paths : was[p] # "none"}
    /\ current = Cardinality(Opened) /\ current <= MaxOpen
    /\ signalled = {}
    /\ disk = [p \in Paths |-> <<>>]
    /\ pc = [w \in Workers |-> "idle"] /\ loc = [w \in Workers |-> Unused]
    /\ ops = 0 /\ kept = {}

-----------------------------------------------------------------------------
Go(w, stage, r) ==
    /\ pc' = [pc EXCEPT ![w] = stage]
    /\ loc' = [loc EXCEPT ![w] = r]

(* FileManager::write, read and empty begin; the other operations on the   *)
(* path are not alone any more.                                            *)
Start(w) ==
    /\ pc[w] = "idle"
    /\ ops < MaxOps /\ ops' = ops + 1
    /\ \E r \in Operations :
         /\ LET p == r.path
                others == {v \in Workers : pc[v] # "idle" /\ loc[v].path = p}
                timed == \E o \in Objects :
                           file[o].path = p /\ (file[o].armed \/ file[o].expired > 0)
                mine == [Unused EXCEPT !.op = r.op, !.path = p, !.number = ops + 1,
                                       !.later = r.later,
                                       !.mode = IF r.op = "read" THEN "in" ELSE "app",
                                       !.alone = (others = {} /\ ~timed)]
            IN  loc' = [v \in Workers |-> IF v = w THEN mine
                                          ELSE IF v \in others THEN [loc[v] EXCEPT !.alone = FALSE]
                                          ELSE loc[v]]
    /\ pc' = [pc EXCEPT ![w] = "get"]
    /\ UNCHANGED <<map, file, current, signalled, disk, existing, kept>>

(* What is done with the object: write() opens it and writes, read() opens *)
(* and closes it unless it was read before, empty() closes it before it    *)
(* opens it again.                                                         *)
Use(w, o) ==
    LET op == loc[w].op
    IN  Go(w, IF op = "empty" THEN "empty"
              ELSE IF op = "read" /\ ReadCache /\ file[o].cached THEN "end" ELSE "open",
           [loc[w] EXCEPT !.object = o, !.next = IF op = "write" THEN "write" ELSE "close",
                          !.mode = IF op = "empty" THEN "trunc" ELSE @])

(* The object of the path, or a new one, whose constructor opens it.       *)
Get(w) ==
    /\ pc[w] = "get"
    /\ LET o == map[loc[w].path]
           new == NumPaths + loc[w].number
       IN  IF o # None
             THEN Use(w, o) /\ UNCHANGED file
             ELSE /\ Go(w, "open", [loc[w] EXCEPT !.object = new, !.next = "add"])
                  /\ file' = [file EXCEPT ![new] = File(loc[w].path, "closed", FALSE)]
    /\ UNCHANGED <<map, current, signalled, disk, existing, ops, kept>>

(* OpenedFilesCV.notify_one().                                             *)
NotifyOne ==
    LET sleepers == {w \in Workers : pc[w] = "asleep"} \ signalled
    IN  IF sleepers = {} THEN UNCHANGED signalled
        ELSE \E w \in sleepers : signalled' = signalled \cup {w}

(* Mutant: what is written is not flushed.                                 *)
CloseUnflushed(o, f) ==
    IF ~IsOpen(o) THEN file' = f /\ UNCHANGED <<disk, current, signalled>>
    ELSE /\ file' = [f EXCEPT ![o].stream = "closed", ![o].failed = FALSE, ![o].unflushed = <<>>]
         /\ current' = current - 1
         /\ NotifyOne
         /\ UNCHANGED disk

(* close(), where f is the objects with what else the step changes.        *)
CloseFile(o, f) ==
    IF ~IsOpen(o) THEN file' = f /\ UNCHANGED <<disk, current, signalled>>
    ELSE /\ file' = [f EXCEPT ![o].stream = "closed", ![o].failed = FALSE, ![o].unflushed = <<>>]
         /\ disk' = [disk EXCEPT ![f[o].path] = @ \o f[o].unflushed]
         /\ current' = current - 1
         /\ NotifyOne

(* The rest of open(), once the predicate holds: the stream may have been  *)
(* opened by another worker during the wait; opening it again fails, but   *)
(* leaves it open.                                                         *)
DoOpen(w) ==
    LET o == loc[w].object
        p == loc[w].path
        mode == loc[w].mode
    IN  IF IsOpen(o)
          THEN /\ file' = [file EXCEPT ![o].failed = TRUE]
               /\ current' = current + 1
               /\ Go(w, loc[w].next, loc[w])
               /\ UNCHANGED <<disk, existing, kept>>
        ELSE IF mode = "in" /\ p \notin existing
          THEN /\ Go(w, IF loc[w].next = "write" THEN "end" ELSE loc[w].next,
                     IF loc[w].next = "close" THEN [loc[w] EXCEPT !.mode = "none"] ELSE loc[w])
               /\ UNCHANGED <<file, current, disk, existing, kept>>
        ELSE /\ file' = [file EXCEPT ![o].stream = mode, ![o].failed = FALSE]
             /\ current' = current + 1
             /\ existing' = existing \cup {p}
             /\ disk' = IF mode = "trunc" THEN [disk EXCEPT ![p] = <<>>] ELSE disk
             /\ kept' = IF mode = "trunc" THEN {k \in kept : k[1] # p} ELSE kept
             /\ Go(w, loc[w].next, loc[w])

(* Mutant: the limit is not looked at.                                     *)
OpenUnlimited(w) ==
    /\ pc[w] = "open"
    /\ IF IsOpen(loc[w].object)
         THEN Go(w, loc[w].next, loc[w]) /\ UNCHANGED <<file, current, disk, existing, kept>>
         ELSE DoOpen(w)
    /\ UNCHANGED <<map, signalled, ops>>

Open(w) ==
    /\ pc[w] = "open"
    /\ IF IsOpen(loc[w].object)
         THEN Go(w, loc[w].next, loc[w]) /\ UNCHANGED <<file, current, disk, existing, kept>>
       ELSE IF current < MaxOpen THEN DoOpen(w)
       ELSE Go(w, "asleep", loc[w]) /\ UNCHANGED <<file, current, disk, existing, kept>>
    /\ UNCHANGED <<map, signalled, ops>>

(* The predicate is looked at again; opened_ is not.                       *)
Wake(w) ==
    /\ pc[w] = "asleep" /\ w \in signalled
    /\ signalled' = signalled \ {w}
    /\ IF current < MaxOpen THEN DoOpen(w)
       ELSE UNCHANGED <<file, current, disk, existing, kept, pc, loc>>
    /\ UNCHANGED <<map, ops>>

Spurious(w) ==
    /\ pc[w] = "asleep" /\ w \notin signalled
    /\ current < MaxOpen
    /\ DoOpen(w)
    /\ UNCHANGED <<map, signalled, ops>>

(* The destructor: the timer goes with the object.                         *)
Destroy(o) ==
    CloseFile(o, [file EXCEPT ![o].armed = FALSE, ![o].expired = 0])

Used(o, w) == \E v \in Workers \ {w} : pc[v] # "idle" /\ loc[v].object = o

(* The new object takes the place of the one the path has by now.          *)
Add(w) ==
    /\ pc[w] = "add"
    /\ LET old == map[loc[w].path]
       IN  IF old # None /\ ~Used(old, w) THEN Destroy(old)
           ELSE UNCHANGED <<file, disk, current, signalled>>
    /\ map' = [map EXCEPT ![loc[w].path] = loc[w].object]
    /\ Use(w, loc[w].object)
    /\ UNCHANGED <<existing, ops, kept>>

(* Data for a stream that was closed meanwhile, that was opened to read or *)
(* that failed is lost.                                                    *)
Write(w) ==
    /\ pc[w] = "write"
    /\ LET o == loc[w].object
           ok == file[o].stream \in {"app", "trunc"} /\ ~file[o].failed
       IN  /\ file[o].mutex = Nobody
           /\ file' = [file EXCEPT ![o].mutex = w,
                                   ![o].unflushed = IF ok THEN Append(@, loc[w].number) ELSE @]
           /\ kept' = IF loc[w].alone THEN kept \cup {<<loc[w].path, loc[w].number>>} ELSE kept
    /\ Go(w, "finish", loc[w])
    /\ UNCHANGED <<map, current, signalled, disk, existing, ops>>

(* The end of write(): delayedClose, or close.                             *)
Finish(w) ==
    /\ pc[w] = "finish"
    /\ LET o == loc[w].object
           f == [file EXCEPT ![o].mutex = Nobody]
       IN  IF loc[w].later
             THEN /\ file' = [f EXCEPT ![o].armed = TRUE]
                  /\ UNCHANGED <<disk, current, signalled>>
             ELSE CloseFile(o, f)
    /\ Go(w, "end", loc[w])
    /\ UNCHANGED <<map, existing, ops, kept>>

Empty(w) ==
    /\ pc[w] = "empty"
    /\ CloseFile(loc[w].object, file)
    /\ Go(w, "open", loc[w])
    /\ UNCHANGED <<map, existing, ops, kept>>

Close(w) ==
    /\ pc[w] = "close"
    /\ LET o == loc[w].object
           success == loc[w].mode # "none"
       IN  CloseFile(o, IF loc[w].op = "read" /\ ReadCache
                        THEN [file EXCEPT ![o].cached = success] ELSE file)
    /\ Go(w, "end", loc[w])
    /\ UNCHANGED <<map, existing, ops, kept>>

(* The worker lets go of the object.                                       *)
End(w) ==
    /\ pc[w] = "end"
    /\ LET o == loc[w].object
       IN  IF map[loc[w].path] # o /\ ~Used(o, w) THEN Destroy(o)
           ELSE UNCHANGED <<file, disk, current, signalled>>
    /\ Go(w, "idle", Unused)
    /\ UNCHANGED <<map, existing, ops, kept>>

(* The timer ends, and its handler runs some time after.                   *)
Expire(o) ==
    /\ file[o].armed
    /\ file' = [file EXCEPT ![o].armed = FALSE, ![o].expired = @ + 1]
    /\ UNCHANGED <<map, current, signalled, disk, existing, pc, loc, ops, kept>>

(* Mutant: the handler closes only a file with data to flush.              *)
CloseLaterToFlush(o) ==
    /\ file[o].expired > 0
    /\ LET f == [file EXCEPT ![o].expired = @ - 1]
       IN  IF file[o].unflushed # <<>> THEN CloseFile(o, f)
           ELSE file' = f /\ UNCHANGED <<disk, current, signalled>>
    /\ UNCHANGED <<map, existing, pc, loc, ops, kept>>

CloseLater(o) ==
    /\ file[o].expired > 0
    /\ CloseFile(o, [file EXCEPT ![o].expired = @ - 1])
    /\ UNCHANGED <<map, existing, pc, loc, ops, kept>>

operation(w) ==
    \/ Get(w) \/ Add(w) \/ Open(w) \/ Wake(w) \/ Write(w)
    \/ Finish(w) \/ Empty(w) \/ Close(w) \/ End(w)

Next ==
    \/ \E w \in Workers : Start(w) \/ operation(w) \/ Spurious(w)
    \/ \E o \in Objects : Expire(o) \/ CloseLater(o)

Spec == Init /\ [][Next]_vars

(* Workers and the timers' thread run; a wakeup without cause may never    *)
(* come.                                                                   *)
FairSpec ==
    /\ Spec
    /\ \A w \in Workers : WF_vars(operation(w))
    /\ \A o \in Objects : WF_vars(Expire(o)) /\ WF_vars(CloseLater(o))

-----------------------------------------------------------------------------
(* "This class will blocks new open operations when that limit is reached, *)
(* to prevent file system errors" (SafeFile.hpp): never more streams are   *)
(* open than max_open_files_, whatever workers and timers do.              *)
LimitRespected == Cardinality(Opened) <= MaxOpen

(* A write on a path that no other operation and no pending timer touches  *)
(* is on the disk, or in the stream's buffer, until the path is emptied.   *)
UndisturbedWritesKept ==
    \A k \in kept :
      \/ \E i \in DOMAIN disk[k[1]] : disk[k[1]][i] = k[2]
      \/ \E o \in Objects : file[o].path = k[1] /\
           \E i \in DOMAIN file[o].unflushed : file[o].unflushed[i] = k[2]

(* A file that is open is closed in the end, by its operation, its timer   *)
(* or its destruction.                                                     *)
EveryFileClosed == \A o \in Objects : IsOpen(o) ~> ~IsOpen(o)

=============================================================================
