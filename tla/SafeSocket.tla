----------------------------- MODULE SafeSocket -----------------------------
(***************************************************************************)
(* SocketManager and its SafeSocket objects: the workers that write files  *)
(* also send datagrams to UDP sockets, at once or by a timer.              *)
(*                                                                         *)
(* A planned datagram refers to its object by a plain pointer.  Two        *)
(* workers that miss the same path make an object each, and the one that   *)
(* is replaced goes when its worker is done, planned or not.  What an      *)
(* object that is gone sends is then left to chance.                       *)
(***************************************************************************)
EXTENDS SafeFile

CONSTANTS
    SocketPaths,
    Datagrams     \* what is asked for: a path, and if it is sent later

ASSUME SocketAssumption == None \notin SocketPaths /\ Datagrams \subseteq [path: SocketPaths, later: BOOLEAN]

Numbers == 1..MaxOps  \* of the operations, and of the objects they make

VARIABLES
    socketOf,  \* SocketManager: the object of each path
    socket,    \* the objects: "none" yet, "open", "failed" to open or "gone"
    task,      \* what each worker does with sockets
    planned,   \* timers of delayed writes: the object and the datagram
    sent,      \* datagrams that were sent
    due        \* history: datagrams that nothing but a timer may hold up

socketVars == <<socketOf, socket, task, planned, sent, due>>
fileVars == <<map, file, current, signalled, disk, existing, pc, loc, kept>>
outputVars == <<vars, socketVars>>

NoTask == [stage |-> "idle", path |-> None, later |-> FALSE, object |-> None, number |-> 0, alone |-> FALSE]

SocketTypeOK ==
    /\ socketOf \in [SocketPaths -> Numbers \cup {None}]
    /\ socket \in [Numbers -> {"none", "open", "failed", "gone"}]
    /\ \A w \in Workers : task[w].stage \in {"idle", "get", "add", "write"}
    /\ planned \subseteq [object: Numbers, number: Numbers]
    /\ sent \subseteq Numbers /\ due \subseteq Numbers

OutputInit ==
    /\ Init
    /\ socketOf = [p \in SocketPaths |-> None] /\ socket = [o \in Numbers |-> "none"]
    /\ task = [w \in Workers |-> NoTask]
    /\ planned = {} /\ sent = {} /\ due = {}

-----------------------------------------------------------------------------
SocketUsed(o, w) == \E v \in Workers \ {w} : task[v].stage # "idle" /\ task[v].object = o
Gone(objects) == [o \in Numbers |-> IF o \in objects THEN "gone" ELSE socket[o]]

(* SocketManager::write begins; those that write to the path already are   *)
(* not alone any more.                                                     *)
SocketStart(w) ==
    /\ pc[w] = "idle" /\ task[w].stage = "idle"
    /\ ops < MaxOps /\ ops' = ops + 1
    /\ \E r \in Datagrams :
         LET others == {v \in Workers : task[v].path = r.path}
             mine == [NoTask EXCEPT !.stage = "get", !.path = r.path, !.later = r.later,
                                    !.number = ops + 1, !.alone = (others = {})]
         IN  task' = [v \in Workers |-> IF v = w THEN mine
                                        ELSE IF v \in others THEN [task[v] EXCEPT !.alone = FALSE]
                                        ELSE task[v]]
    /\ UNCHANGED <<fileVars, socketOf, socket, planned, sent, due>>

(* The object of the path, or a new one, whose constructor opens it.       *)
SocketGet(w) ==
    /\ task[w].stage = "get"
    /\ LET o == socketOf[task[w].path] IN
       IF o # None
         THEN /\ task' = [task EXCEPT ![w].stage = "write", ![w].object = o]
              /\ UNCHANGED socket
         ELSE /\ task' = [task EXCEPT ![w].stage = "add", ![w].object = task[w].number]
              /\ \E result \in {"open", "failed"} :
                   socket' = [socket EXCEPT ![task[w].number] = result]
    /\ UNCHANGED <<vars, socketOf, planned, sent, due>>

(* Mutant: the new object is used, but not kept.                           *)
SocketUnkept(w) ==
    /\ task[w].stage = "add"
    /\ task' = [task EXCEPT ![w].stage = "write"]
    /\ UNCHANGED <<vars, socketOf, socket, planned, sent, due>>

(* The new object takes the place of the one the path has by now.          *)
SocketAdd(w) ==
    /\ task[w].stage = "add"
    /\ LET old == socketOf[task[w].path]
       IN  socket' = IF old # None /\ ~SocketUsed(old, w) THEN Gone({old}) ELSE socket
    /\ socketOf' = [socketOf EXCEPT ![task[w].path] = task[w].object]
    /\ task' = [task EXCEPT ![w].stage = "write"]
    /\ UNCHANGED <<vars, planned, sent, due>>

(* sendto, whose result nobody looks at.                                   *)
Sendto(o, number) == sent' = IF socket[o] = "open" THEN sent \cup {number} ELSE sent

(* SafeSocket::write; then the worker lets go of the object.               *)
SocketWrite(w) ==
    LET t == task[w]
        o == t.object
    IN
    /\ t.stage = "write"
    /\ IF t.later
         THEN planned' = planned \cup {[object |-> o, number |-> t.number]} /\ UNCHANGED sent
         ELSE Sendto(o, t.number) /\ UNCHANGED planned
    /\ socket' = IF socketOf[t.path] # o /\ ~SocketUsed(o, w) THEN Gone({o}) ELSE socket
    /\ due' = IF t.alone /\ socket[o] = "open" THEN due \cup {t.number} ELSE due
    /\ task' = [task EXCEPT ![w] = NoTask]
    /\ UNCHANGED <<vars, socketOf>>

(* The timer's handler: undefined if the object is gone.                   *)
DelayedWrite(t) ==
    /\ planned' = planned \ {t}
    /\ IF socket[t.object] = "gone" THEN sent' \in {sent, sent \cup {t.number}}
       ELSE Sendto(t.object, t.number)
    /\ UNCHANGED <<vars, socketOf, socket, task, due>>

socketOperation(w) == SocketGet(w) \/ SocketAdd(w) \/ SocketWrite(w)
delayedWrites == \E t \in planned : DelayedWrite(t)

OutputNext ==
    \/ /\ \/ \E w \in Workers : \/ task[w].stage = "idle" /\ Start(w)
                                \/ operation(w) \/ Spurious(w)
          \/ \E o \in Objects : Expire(o) \/ CloseLater(o)
       /\ UNCHANGED socketVars
    \/ \E w \in Workers : SocketStart(w) \/ socketOperation(w)
    \/ delayedWrites

(* Workers and the timers' thread run.                                     *)
OutputSpec ==
    /\ OutputInit /\ [][OutputNext]_outputVars
    /\ \A w \in Workers : WF_vars(operation(w) /\ UNCHANGED socketVars) /\ WF_outputVars(socketOperation(w))
    /\ \A o \in Objects : WF_vars((Expire(o) \/ CloseLater(o)) /\ UNCHANGED socketVars)
    /\ WF_outputVars(delayedWrites)

-----------------------------------------------------------------------------
(* A write to a UDP socket that opened, and whose path no other worker     *)
(* used meanwhile, is sent in the end: the object that a planned write     *)
(* points to stays in SocketManager until the timer has ended.             *)
UndisturbedDatagramsSent == \A n \in Numbers : n \in due ~> n \in sent
=============================================================================
