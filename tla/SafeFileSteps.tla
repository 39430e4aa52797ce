--------------------------- MODULE SafeFileSteps ----------------------------
(***************************************************************************)
(* The inductive invariant of FileManager and SafeFile; what each step     *)
(* changes, as the invariant sees it; and that it keeps the types, the     *)
(* objects in their places, the course of an operation, and the objects    *)
(* that belong to one worker.                                              *)
(***************************************************************************)
EXTENDS SafeFile, TLAPS

(* Some leaves need more than the default time of the provers.             *)
USE SMTT(30), ZenonT(30)

Active(w) == pc[w] # "idle"
Holds(w) == pc[w] \notin {"idle", "get"}
Constructs(w) == pc[w] = "add" \/ (pc[w] \in {"open", "asleep"} /\ loc[w].next = "add")
Timed(o) == file[o].armed \/ file[o].expired > 0

(* CurrentOpenedFiles counts every stream that is open, and maybe more: a  *)
(* worker that finds the stream open after its wait counts it once again.  *)
Counted == Cardinality(Opened) <= current /\ current <= MaxOpen

(* The object of a path, or of a worker, is one of that path.              *)
Located ==
    /\ \A p \in Paths : map[p] # None => file[map[p]].path = p
    /\ \A w \in Workers : Active(w) =>
         loc[w].path \in Paths /\ 1 <= loc[w].number /\ loc[w].number <= ops
    /\ \A w \in Workers : Holds(w) =>
         loc[w].object \in Objects /\ file[loc[w].object].path = loc[w].path
    /\ \A v, w \in Workers : v # w /\ Active(v) /\ Active(w) => loc[v].number # loc[w].number

(* What no worker has constructed yet is untouched.                        *)
Fresh ==
    /\ \A o \in Objects : file[o].path = None =>
         file[o].stream = "closed" /\ file[o].unflushed = <<>> /\ ~Timed(o) /\ ~file[o].cached
    /\ \A n \in 1..MaxOps : n > ops => file[NumPaths + n].path = None
    /\ \A w \in Workers : pc[w] = "get" => file[NumPaths + loc[w].number].path = None

(* The course of an operation.                                             *)
Course ==
    \A w \in Workers :
      /\ loc[w].op = "write" => loc[w].mode = "app"
      /\ pc[w] \notin {"idle", "close", "end"} => loc[w].mode # "none"
      /\ pc[w] \in {"open", "asleep"} =>
           loc[w].next \in (IF loc[w].op = "write" THEN {"add", "write"} ELSE {"add", "close"})
      /\ pc[w] \in {"write", "finish"} => loc[w].op = "write"
      /\ pc[w] \in {"empty", "close"} => loc[w].op # "write"
      /\ pc[w] = "empty" => loc[w].next = "close"

(* An object belongs to the worker that constructs it until it is added.   *)
Private ==
    \A w \in Workers : Constructs(w) =>
      /\ map[loc[w].path] # loc[w].object /\ ~file[loc[w].object].cached
      /\ \A v \in Workers : v # w /\ Holds(v) => loc[v].object # loc[w].object

(* A stream that is open has a timer, or a worker that will close it.      *)
Watched(o) == \E w \in Workers : Holds(w) /\ pc[w] # "end" /\ loc[w].object = o
WillClose == \A o \in Objects : IsOpen(o) => Timed(o) \/ Watched(o)

(* What is meant by a worker that nobody disturbs.                         *)
Alone ==
    \A w \in Workers : Active(w) /\ loc[w].alone =>
      /\ \A v \in Workers : v # w /\ Active(v) => loc[v].path # loc[w].path
      /\ pc[w] # "end" => \A o \in Objects : file[o].path = loc[w].path => ~Timed(o)

(* Its stream is as it left it.                                            *)
Undisturbed ==
    \A w \in Workers : loc[w].alone /\ loc[w].op = "write" =>
      LET f == file[loc[w].object]
      IN  /\ pc[w] = "open" => f.stream = "closed" \/ (f.stream = "app" /\ ~f.failed)
          /\ pc[w] = "asleep" => f.stream = "closed"
          /\ pc[w] \in {"add", "write"} => f.stream = "app" /\ ~f.failed

Inv ==
    /\ TypeOK /\ Counted /\ Located /\ Fresh /\ Course /\ Private
    /\ WillClose /\ Alone /\ Undisturbed /\ UndisturbedWritesKept

-----------------------------------------------------------------------------
(* The steps of a worker concern that worker.                              *)
Moves(w, stage, r) ==
    /\ pc'[w] = stage /\ loc'[w] = r
    /\ \A v \in Workers : v # w => pc'[v] = pc[v] /\ loc'[v] = loc[v]

(* Go(w, stage, r) concerns w, and keeps the types.                        *)
LEMMA GoMoves ==
    ASSUME TypeOK, NEW w \in Workers, NEW stage \in Stages, NEW r \in Locals, Go(w, stage, r)
    PROVE  /\ pc' \in [Workers -> Stages] /\ loc' \in [Workers -> Locals]
           /\ Moves(w, stage, r)
<1>1. pc \in [Workers -> Stages] /\ loc \in [Workers -> Locals]
  BY DEF TypeOK
<1> QED BY <1>1 DEF Go, Moves

(* close() of an object: its data is on the disk.                          *)
Closes(o) ==
    /\ \A x \in Objects : x # o => file'[x] = file[x]
    /\ file'[o].path = file[o].path /\ file'[o].stream = "closed"
    /\ IF IsOpen(o)
         THEN /\ file'[o].unflushed = <<>> /\ current' = current - 1
              /\ disk' = [disk EXCEPT ![file[o].path] = @ \o file[o].unflushed]
         ELSE /\ file'[o].unflushed = file[o].unflushed /\ current' = current
              /\ disk' = disk

(* What most proofs need of Closes(o).                                     *)
LEMMA ClosesOne ==
    ASSUME NEW o, Closes(o)
    PROVE  /\ \A x \in Objects : x # o => file'[x] = file[x]
           /\ file'[o].path = file[o].path /\ file'[o].stream = "closed"
BY DEF Closes

(* notify_one() wakes up workers.                                          *)
LEMMA NotifyTypes ==
    ASSUME TypeOK, NotifyOne
    PROVE  signalled' \subseteq Workers
BY DEF NotifyOne, TypeOK

(* CloseFile closes the stream of o, whatever else f changes of o.         *)
LEMMA Closing ==
    ASSUME TypeOK, Fresh, NEW o \in Objects, NEW f \in [Objects -> Files],
           \A x \in Objects : x # o => f[x] = file[x],
           f[o].path = file[o].path, f[o].stream = file[o].stream,
           f[o].unflushed = file[o].unflushed, CloseFile(o, f)
    PROVE  /\ file' \in [Objects -> Files] /\ disk' \in [Paths -> Seq(Nat)] /\ current' \in Int
           /\ signalled' \subseteq Workers /\ Closes(o)
           /\ file'[o].armed = f[o].armed /\ file'[o].expired = f[o].expired
           /\ file'[o].cached = f[o].cached
<1>0. file \in [Objects -> Files] /\ disk \in [Paths -> Seq(Nat)] /\ current \in Int
  BY DEF TypeOK
<1>1. CASE ~IsOpen(o)
  <2>1. file' = f /\ UNCHANGED <<disk, current, signalled>>
    BY <1>1 DEF CloseFile
  <2> QED BY <1>0, <1>1, <2>1 DEF Closes, IsOpen, TypeOK
<1>2. CASE IsOpen(o)
  <2>1. /\ file' = [f EXCEPT ![o] = [f[o] EXCEPT !.stream = "closed", !.failed = FALSE,
                                                !.unflushed = <<>>]]
        /\ disk' = [disk EXCEPT ![file[o].path] = @ \o file[o].unflushed]
        /\ current' = current - 1 /\ NotifyOne
    BY <1>2, ZenonT(30) DEF CloseFile
  <2>2. f[o] \in Files /\ <<>> \in Seq(Nat)
    OBVIOUS
  <2> DEFINE r == [f[o] EXCEPT !.stream = "closed", !.failed = FALSE, !.unflushed = <<>>]
  <2>3. /\ r \in Files /\ r.stream = "closed" /\ r.unflushed = <<>> /\ r.path = f[o].path
        /\ r.armed = f[o].armed /\ r.expired = f[o].expired /\ r.cached = f[o].cached
    BY <2>2, ZenonT(30) DEF Files
  <2>4. file' = [f EXCEPT ![o] = r]
    BY <2>1
  <2> HIDE DEF r
  <2>5. file' \in [Objects -> Files] /\ file'[o] = r /\ \A x \in Objects : x # o => file'[x] = f[x]
    BY <2>3, <2>4
  <2>6. file[o].path \in Paths /\ file[o].unflushed \in Seq(Nat)
    BY <1>0, <1>2 DEF Fresh, IsOpen, Files
  <2>7. disk' \in [Paths -> Seq(Nat)]
    <3>1. disk[file[o].path] \o file[o].unflushed \in Seq(Nat)
      BY <1>0, <2>6
    <3> QED BY <1>0, <2>1, <2>6, <3>1
  <2>8. current' \in Int /\ signalled' \subseteq Workers
    BY <1>0, <2>1, NotifyTypes
  <2>9. Closes(o)
    BY <1>2, <2>1, <2>3, <2>5 DEF Closes
  <2> QED BY <2>3, <2>5, <2>7, <2>8, <2>9
<1> QED BY <1>1, <1>2

(* The destructor.                                                         *)
LEMMA Destroying ==
    ASSUME TypeOK, Fresh, NEW o \in Objects, Destroy(o)
    PROVE  /\ file' \in [Objects -> Files] /\ disk' \in [Paths -> Seq(Nat)] /\ current' \in Int
           /\ signalled' \subseteq Workers /\ Closes(o)
           /\ ~file'[o].armed /\ file'[o].expired = 0 /\ file'[o].cached = file[o].cached
<1> DEFINE r == [file[o] EXCEPT !.armed = FALSE, !.expired = 0]
           f == [file EXCEPT ![o] = r]
<1>0. file \in [Objects -> Files] /\ file[o] \in Files
  BY DEF TypeOK
<1>1. /\ r \in Files /\ ~r.armed /\ r.expired = 0 /\ r.cached = file[o].cached
      /\ r.path = file[o].path /\ r.stream = file[o].stream /\ r.unflushed = file[o].unflushed
  BY <1>0, ZenonT(30) DEF Files
<1>2. CloseFile(o, f)
  BY ZenonT(30) DEF Destroy
<1> HIDE DEF r
<1>3. f \in [Objects -> Files] /\ f[o] = r /\ \A x \in Objects : x # o => f[x] = file[x]
  BY <1>0, <1>1
<1> HIDE DEF f
<1> QED BY <1>1, <1>2, <1>3, Closing

-----------------------------------------------------------------------------
(* What each step does, as the invariants see it.                          *)
SameCall(w) ==
    /\ loc'[w].op = loc[w].op /\ loc'[w].path = loc[w].path
    /\ loc'[w].number = loc[w].number /\ loc'[w].alone = loc[w].alone
Others(w) == \A v \in Workers : v # w => pc'[v] = pc[v] /\ loc'[v] = loc[v]
FileTypes ==
    /\ file' \in [Objects -> Files] /\ disk' \in [Paths -> Seq(Nat)] /\ current' \in Int
    /\ signalled' \subseteq Workers
LocalTypes == pc' \in [Workers -> Stages] /\ loc' \in [Workers -> Locals]

(* A worker past getOrCreate holds an object of its path.                  *)
LEMMA Holding ==
    ASSUME Inv, NEW w \in Workers, Holds(w)
    PROVE  /\ loc[w].object \in Objects /\ loc[w].path \in Paths
           /\ file[loc[w].object].path = loc[w].path /\ file[loc[w].object] \in Files
           /\ loc[w] \in Locals
BY DEF Inv, Located, TypeOK, Holds, Active

Started(w, r) ==
    /\ pc'[w] = "get" /\ loc'[w].op = r.op /\ loc'[w].path = r.path
    /\ loc'[w].number = ops + 1 /\ loc'[w].mode = (IF r.op = "read" THEN "in" ELSE "app")
    /\ loc'[w].alone =>
         /\ \A v \in Workers : Active(v) => loc[v].path # r.path
         /\ \A o \in Objects : file[o].path = r.path => ~Timed(o)
    /\ \A v \in Workers : v # w =>
         /\ pc'[v] = pc[v] /\ loc'[v].op = loc[v].op /\ loc'[v].path = loc[v].path
         /\ loc'[v].number = loc[v].number /\ loc'[v].object = loc[v].object
         /\ loc'[v].mode = loc[v].mode /\ loc'[v].next = loc[v].next
         /\ loc'[v].alone => loc[v].alone /\ (Active(v) => loc[v].path # r.path)

(* An operation begins: nobody that it meets on its path is alone.         *)
LEMMA StartEffect ==
    ASSUME Inv, NEW w \in Workers, Start(w)
    PROVE  /\ LocalTypes /\ ops' = ops + 1 /\ ops' \in 0..MaxOps /\ pc[w] = "idle"
           /\ UNCHANGED <<map, file, current, signalled, disk, existing, kept>>
           /\ \E r \in Operations : Started(w, r)
<1>0. /\ pc \in [Workers -> Stages] /\ loc \in [Workers -> Locals] /\ ops \in 0..MaxOps
      /\ ops < MaxOps /\ MaxOps \in Nat
  BY FileAssumption, ZenonT(30) DEF Inv, TypeOK, Start
<1>1. PICK r \in Operations :
        LET others == {v \in Workers : pc[v] # "idle" /\ loc[v].path = r.path}
            timed == \E o \in Objects :
                       file[o].path = r.path /\ (file[o].armed \/ file[o].expired > 0)
            mine == [Unused EXCEPT !.op = r.op, !.path = r.path, !.number = ops + 1,
                                   !.later = r.later,
                                   !.mode = IF r.op = "read" THEN "in" ELSE "app",
                                   !.alone = (others = {} /\ ~timed)]
        IN  loc' = [v \in Workers |-> IF v = w THEN mine
                                      ELSE IF v \in others THEN [loc[v] EXCEPT !.alone = FALSE]
                                      ELSE loc[v]]
  BY ZenonT(30) DEF Start
<1>2. r.op \in {"write", "read", "empty"} /\ r.path \in Paths /\ r.later \in BOOLEAN
  BY InstanceAssumption
<1> DEFINE others == {v \in Workers : pc[v] # "idle" /\ loc[v].path = r.path}
           timed == \E o \in Objects :
                      file[o].path = r.path /\ (file[o].armed \/ file[o].expired > 0)
           mode == IF r.op = "read" THEN "in" ELSE "app"
           alone == others = {} /\ ~timed
           mine == [Unused EXCEPT !.op = r.op, !.path = r.path, !.number = ops + 1,
                                  !.later = r.later, !.mode = mode, !.alone = alone]
<1>3. alone \in BOOLEAN /\ mode \in {"in", "app"} /\ ops + 1 \in 0..MaxOps
  BY <1>0
<1>4. /\ mine \in Locals /\ mine.op = r.op /\ mine.path = r.path /\ mine.number = ops + 1
      /\ mine.mode = mode /\ mine.alone = alone
  <2> HIDE DEF alone, mode
  <2> QED BY <1>2, <1>3, ZenonT(30) DEF Unused, Locals
<1>5. loc' = [v \in Workers |-> IF v = w THEN mine
                                ELSE IF v \in others THEN [loc[v] EXCEPT !.alone = FALSE]
                                ELSE loc[v]]
  BY <1>1, ZenonT(30)
<1>6. alone =>
        /\ \A v \in Workers : Active(v) => loc[v].path # r.path
        /\ \A o \in Objects : file[o].path = r.path => ~Timed(o)
  BY DEF Active, Timed
<1> HIDE DEF mine, alone, timed
<1>7. pc'[w] = "get" /\ pc[w] = "idle" /\ pc' \in [Workers -> Stages]
      /\ \A v \in Workers : v # w => pc'[v] = pc[v]
  BY <1>0, ZenonT(30) DEF Start, Stages
<1>8. ASSUME NEW v \in Workers, v # w
      PROVE  /\ loc'[v] \in Locals /\ loc'[v].op = loc[v].op /\ loc'[v].path = loc[v].path
             /\ loc'[v].number = loc[v].number /\ loc'[v].object = loc[v].object
             /\ loc'[v].mode = loc[v].mode /\ loc'[v].next = loc[v].next
             /\ loc'[v].alone => loc[v].alone /\ (Active(v) => loc[v].path # r.path)
  <2>0. loc[v] \in Locals
    BY <1>0
  <2>1. CASE v \in others
    <3>1. loc'[v] = [loc[v] EXCEPT !.alone = FALSE]
      BY <1>5, <1>8, <2>1
    <3> QED BY <2>0, <3>1, ZenonT(30) DEF Locals
  <2>2. CASE v \notin others
    <3>1. loc'[v] = loc[v] /\ (Active(v) => loc[v].path # r.path)
      BY <1>5, <1>8, <2>2 DEF Active
    <3> QED BY <2>0, <3>1
  <2> QED BY <2>1, <2>2
<1>9. loc'[w] = mine
  BY <1>5
<1>10. loc' \in [Workers -> Locals]
  <2>1. \A v \in Workers : loc'[v] \in Locals
    BY <1>4, <1>8, <1>9
  <2> QED BY <1>5, <2>1
<1>11. Started(w, r)
  BY <1>4, <1>6, <1>7, <1>8, <1>9 DEF Started
<1>12. /\ ops' = ops + 1
       /\ UNCHANGED <<map, file, current, signalled, disk, existing, kept>>
  BY ZenonT(30) DEF Start
<1>13. ops' \in 0..MaxOps
  BY <1>0, <1>12
<1> QED BY <1>7, <1>10, <1>11, <1>12, <1>13 DEF LocalTypes

(* The stage that follows when the object is found.                        *)
Uses(w, o) ==
    /\ SameCall(w) /\ Others(w) /\ loc'[w].object = o
    /\ pc'[w] \in {"empty", "open", "end"} /\ (pc'[w] = "empty" => loc[w].op = "empty")
    /\ pc'[w] = "end" => loc[w].op = "read" /\ file[o].cached
    /\ loc'[w].next = (IF loc[w].op = "write" THEN "write" ELSE "close")
    /\ loc'[w].mode = (IF loc[w].op = "empty" THEN "trunc" ELSE loc[w].mode)

(* What is done next with the object that was found or added.              *)
LEMMA UseEffect ==
    ASSUME TypeOK, NEW w \in Workers, NEW o \in Objects, Use(w, o)
    PROVE  LocalTypes /\ Uses(w, o)
<1>0. loc[w] \in Locals
  BY DEF TypeOK
<1> DEFINE r == [loc[w] EXCEPT !.object = o,
                               !.next = IF loc[w].op = "write" THEN "write" ELSE "close",
                               !.mode = IF loc[w].op = "empty" THEN "trunc" ELSE @]
           stage == IF loc[w].op = "empty" THEN "empty"
                    ELSE IF loc[w].op = "read" /\ ReadCache /\ file[o].cached THEN "end"
                    ELSE "open"
<1>1. /\ r \in Locals /\ r.op = loc[w].op /\ r.path = loc[w].path /\ r.number = loc[w].number
      /\ r.alone = loc[w].alone /\ r.object = o
      /\ r.next = (IF loc[w].op = "write" THEN "write" ELSE "close")
      /\ r.mode = (IF loc[w].op = "empty" THEN "trunc" ELSE loc[w].mode)
  BY <1>0, ZenonT(30) DEF Locals
<1>2. Go(w, stage, r)
  BY DEF Use
<1>3. /\ stage \in {"empty", "open", "end"} /\ (stage = "empty" => loc[w].op = "empty")
      /\ stage = "end" => loc[w].op = "read" /\ file[o].cached
  OBVIOUS
<1> HIDE DEF r, stage
<1>4. stage \in Stages
  BY <1>3 DEF Stages
<1> QED BY <1>1, <1>2, <1>3, <1>4, GoMoves DEF LocalTypes, Uses, Moves, SameCall, Others

Creates(w, o) ==
    /\ pc'[w] = "open" /\ SameCall(w) /\ Others(w) /\ loc'[w].object = o
    /\ loc'[w].next = "add" /\ loc'[w].mode = loc[w].mode
    /\ file'[o] = File(loc[w].path, "closed", FALSE)
    /\ \A x \in Objects : x # o => file'[x] = file[x]

(* The object of the path is used, or a new one is constructed.            *)
LEMMA GetEffect ==
    ASSUME Inv, NEW w \in Workers, Get(w)
    PROVE  /\ LocalTypes /\ pc[w] = "get" /\ loc[w].path \in Paths
           /\ UNCHANGED <<map, current, signalled, disk, existing, ops, kept>>
           /\ \/ /\ map[loc[w].path] \in Objects /\ Uses(w, map[loc[w].path]) /\ file' = file
              \/ /\ map[loc[w].path] = None
                 /\ NumPaths + loc[w].number \in Objects /\ Creates(w, NumPaths + loc[w].number)
                 /\ file' \in [Objects -> Files]
<1>0. /\ TypeOK /\ loc[w] \in Locals /\ file \in [Objects -> Files] /\ pc[w] = "get"
      /\ loc[w].path \in Paths /\ 1 <= loc[w].number /\ loc[w].number \in 0..MaxOps
      /\ map[loc[w].path] \in Objects \cup {None}
      /\ UNCHANGED <<map, current, signalled, disk, existing, ops, kept>>
  BY DEF Inv, TypeOK, Located, Active, Get, Locals
<1>1. CASE map[loc[w].path] # None
  <2>1. Use(w, map[loc[w].path]) /\ file' = file
    BY <1>1 DEF Get
  <2> QED BY <1>0, <1>1, <2>1, UseEffect
<1>2. CASE map[loc[w].path] = None
  <2> DEFINE o == NumPaths + loc[w].number
             r == [loc[w] EXCEPT !.object = o, !.next = "add"]
             f == File(loc[w].path, "closed", FALSE)
  <2>1. Go(w, "open", r) /\ file' = [file EXCEPT ![o] = f]
    BY <1>2, ZenonT(30) DEF Get
  <2>2. o \in Objects
    BY <1>0, FileAssumption DEF Objects
  <2>3. f \in Files
    <3>1. <<>> \in Seq(Nat)
      OBVIOUS
    <3> QED BY <1>0, <3>1 DEF File, Files
  <2> HIDE DEF o, f
  <2>4. /\ r \in Locals /\ r.op = loc[w].op /\ r.path = loc[w].path /\ r.number = loc[w].number
        /\ r.alone = loc[w].alone /\ r.object = o /\ r.next = "add" /\ r.mode = loc[w].mode
    BY <1>0, <2>2, ZenonT(30) DEF Locals
  <2> HIDE DEF r
  <2>5. LocalTypes /\ Moves(w, "open", r)
    BY <1>0, <2>1, <2>4, GoMoves DEF LocalTypes, Stages
  <2>6. /\ file' \in [Objects -> Files] /\ file'[o] = f
        /\ \A x \in Objects : x # o => file'[x] = file[x]
    BY <1>0, <2>1, <2>2, <2>3
  <2>7. Creates(w, o)
    BY <2>4, <2>5, <2>6 DEF Creates, Moves, SameCall, Others, f
  <2> QED BY <1>0, <1>2, <2>2, <2>5, <2>6, <2>7 DEF o
<1> QED BY <1>1, <1>2

(* Either way the call stays and the other workers do.                     *)
LEMMA GetMoves ==
    ASSUME Inv, NEW w \in Workers, Get(w)
    PROVE  pc[w] = "get" /\ SameCall(w) /\ Others(w)
<1>1. pc[w] = "get"
  BY DEF Get
<1>2. Uses(w, map[loc[w].path]) \/ Creates(w, NumPaths + loc[w].number)
  BY GetEffect
<1>3. CASE Uses(w, map[loc[w].path])
  BY <1>1, <1>3 DEF Uses
<1>4. CASE Creates(w, NumPaths + loc[w].number)
  BY <1>1, <1>4 DEF Creates
<1> QED BY <1>2, <1>3, <1>4

(* open() leaves this of an object alone.                                  *)
Touches(o) ==
    /\ \A x \in Objects : x # o => file'[x] = file[x]
    /\ file'[o].path = file[o].path /\ file'[o].unflushed = file[o].unflushed
    /\ file'[o].armed = file[o].armed /\ file'[o].expired = file[o].expired
    /\ file'[o].cached = file[o].cached

(* What open() comes to: it waits, it finds the stream open or nothing to  *)
(* read, it opens what another worker opened, or it opens the stream.      *)
Waits(w) ==
    /\ UNCHANGED <<file, disk, current, kept>> /\ loc'[w] = loc[w]
    /\ pc'[w] = pc[w] \/ (pc'[w] = "asleep" /\ ~IsOpen(loc[w].object))
Passes(w) ==
    /\ UNCHANGED <<file, disk, current, kept>> /\ pc'[w] = loc[w].next
    /\ (pc[w] = "open" /\ IsOpen(loc[w].object)) \/ loc[w].mode = "in"
OpensAgain(w) ==
    /\ pc[w] = "asleep" /\ IsOpen(loc[w].object) /\ pc'[w] = loc[w].next
    /\ Touches(loc[w].object) /\ file'[loc[w].object].stream = file[loc[w].object].stream
    /\ current < MaxOpen /\ current' = current + 1 /\ UNCHANGED <<disk, kept>>
Opens(w) ==
    /\ ~IsOpen(loc[w].object) /\ pc'[w] = loc[w].next
    /\ Touches(loc[w].object) /\ file'[loc[w].object].stream = loc[w].mode
    /\ ~file'[loc[w].object].failed
    /\ current < MaxOpen /\ current' = current + 1
    /\ \/ UNCHANGED <<disk, kept>>
       \/ /\ disk' = [disk EXCEPT ![loc[w].path] = <<>>]
          /\ kept' = {k \in kept : k[1] # loc[w].path}

SameOpen(w) ==
    /\ SameCall(w) /\ Others(w) /\ loc'[w].object = loc[w].object /\ loc'[w].next = loc[w].next
    /\ loc'[w].mode = loc[w].mode \/ (loc'[w].mode = "none" /\ loc[w].next = "close")

(* Once the predicate holds, the stream is opened, or was opened by        *)
(* another worker during the wait, or cannot be opened to read.            *)
LEMMA DoOpenEffect ==
    ASSUME Inv, NEW w \in Workers, pc[w] \in {"open", "asleep"}, current < MaxOpen, DoOpen(w),
           IsOpen(loc[w].object) => pc[w] = "asleep"
    PROVE  /\ LocalTypes /\ SameOpen(w) /\ (Passes(w) \/ OpensAgain(w) \/ Opens(w))
           /\ file' \in [Objects -> Files] /\ disk' \in [Paths -> Seq(Nat)] /\ current' \in Int
           /\ existing' \subseteq Paths /\ kept' \subseteq kept
<1> DEFINE o == loc[w].object
<1>0. /\ TypeOK /\ loc[w] \in Locals /\ file \in [Objects -> Files] /\ o \in Objects
      /\ loc[w].path \in Paths /\ loc[w].next \in {"add", "write", "close"}
      /\ loc[w].mode \in {"app", "in", "trunc"} /\ file[o] \in Files
      /\ loc[w].mode = "in" => loc[w].next # "write"
      /\ disk \in [Paths -> Seq(Nat)] /\ current \in Int /\ existing \subseteq Paths
  <2>1. Holds(w)
    BY DEF Holds
  <2> QED BY <2>1, Holding DEF Inv, TypeOK, Course, Locals
<1>1. loc[w].next \in Stages
  BY <1>0 DEF Stages
<1>2. ASSUME Go(w, loc[w].next, loc[w])
      PROVE  LocalTypes /\ SameOpen(w) /\ pc'[w] = loc[w].next
  BY <1>0, <1>1, <1>2, GoMoves DEF LocalTypes, SameOpen, Moves, SameCall, Others
<1>3. CASE IsOpen(o)
  <2>1. /\ file' = [file EXCEPT ![o] = [file[o] EXCEPT !.failed = TRUE]]
        /\ current' = current + 1 /\ Go(w, loc[w].next, loc[w]) /\ UNCHANGED <<disk, existing, kept>>
    BY <1>3 DEF DoOpen
  <2> DEFINE f == [file[o] EXCEPT !.failed = TRUE]
  <2>2. /\ f \in Files /\ f.path = file[o].path /\ f.unflushed = file[o].unflushed
        /\ f.armed = file[o].armed /\ f.expired = file[o].expired /\ f.cached = file[o].cached
        /\ f.stream = file[o].stream
    BY <1>0, ZenonT(30) DEF Files
  <2> HIDE DEF f
  <2>3. /\ file' \in [Objects -> Files] /\ file'[o] = f
        /\ \A x \in Objects : x # o => file'[x] = file[x]
    BY <1>0, <2>1, <2>2, ZenonT(30) DEF f
  <2>4. OpensAgain(w)
    BY <1>2, <1>3, <2>1, <2>2, <2>3 DEF OpensAgain, Touches
  <2> QED BY <1>0, <1>2, <2>1, <2>3, <2>4
<1>4. CASE ~IsOpen(o) /\ loc[w].mode = "in" /\ loc[w].path \notin existing
  <2>1. /\ Go(w, loc[w].next, IF loc[w].next = "close" THEN [loc[w] EXCEPT !.mode = "none"] ELSE loc[w])
        /\ UNCHANGED <<file, current, disk, existing, kept>>
    BY <1>0, <1>4 DEF DoOpen
  <2> DEFINE r == IF loc[w].next = "close" THEN [loc[w] EXCEPT !.mode = "none"] ELSE loc[w]
  <2>2. /\ r \in Locals /\ r.op = loc[w].op /\ r.path = loc[w].path /\ r.number = loc[w].number
        /\ r.alone = loc[w].alone /\ r.object = o /\ r.next = loc[w].next
        /\ r.mode = loc[w].mode \/ (r.mode = "none" /\ loc[w].next = "close")
    BY <1>0, ZenonT(30) DEF Locals
  <2>3. Go(w, loc[w].next, r)
    BY <2>1
  <2> HIDE DEF r
  <2>4. LocalTypes /\ Moves(w, loc[w].next, r)
    BY <1>0, <1>1, <2>2, <2>3, GoMoves DEF LocalTypes
  <2>5. SameOpen(w) /\ Passes(w)
    BY <1>4, <2>1, <2>2, <2>4 DEF SameOpen, Moves, SameCall, Others, Passes
  <2> QED BY <1>0, <2>1, <2>4, <2>5
<1>5. CASE ~IsOpen(o) /\ ~(loc[w].mode = "in" /\ loc[w].path \notin existing)
  <2>1. /\ file' = [file EXCEPT ![o] = [file[o] EXCEPT !.stream = loc[w].mode, !.failed = FALSE]]
        /\ current' = current + 1 /\ existing' = existing \cup {loc[w].path}
        /\ disk' = IF loc[w].mode = "trunc" THEN [disk EXCEPT ![loc[w].path] = <<>>] ELSE disk
        /\ kept' = IF loc[w].mode = "trunc" THEN {k \in kept : k[1] # loc[w].path} ELSE kept
        /\ Go(w, loc[w].next, loc[w])
    BY <1>5, ZenonT(30) DEF DoOpen
  <2> DEFINE f == [file[o] EXCEPT !.stream = loc[w].mode, !.failed = FALSE]
  <2>2. /\ f \in Files /\ f.path = file[o].path /\ f.unflushed = file[o].unflushed
        /\ f.armed = file[o].armed /\ f.expired = file[o].expired /\ f.cached = file[o].cached
        /\ f.stream = loc[w].mode /\ ~f.failed
    BY <1>0, ZenonT(30) DEF Files
  <2> HIDE DEF f
  <2>3. /\ file' \in [Objects -> Files] /\ file'[o] = f
        /\ \A x \in Objects : x # o => file'[x] = file[x]
    BY <1>0, <2>1, <2>2, ZenonT(30) DEF f
  <2>4. Touches(o)
    BY <2>2, <2>3 DEF Touches
  <2>5. Opens(w)
    BY <1>2, <1>5, <2>1, <2>2, <2>3, <2>4 DEF Opens
  <2>6. disk' \in [Paths -> Seq(Nat)]
    <3>1. <<>> \in Seq(Nat)
      OBVIOUS
    <3> QED BY <1>0, <2>1, <3>1
  <2>7. existing' \subseteq Paths /\ kept' \subseteq kept /\ current' \in Int
    BY <1>0, <2>1
  <2> QED BY <1>2, <2>1, <2>3, <2>5, <2>6, <2>7
<1> QED BY <1>3, <1>4, <1>5

(* open() waits, passes, opens again or opens.                             *)
LEMMA OpenEffect ==
    ASSUME Inv, NEW w \in Workers, Open(w) \/ Wake(w) \/ Spurious(w)
    PROVE  /\ LocalTypes /\ FileTypes /\ pc[w] \in {"open", "asleep"} /\ SameOpen(w)
           /\ Waits(w) \/ Passes(w) \/ OpensAgain(w) \/ Opens(w)
           /\ existing' \subseteq Paths /\ kept' \subseteq kept /\ UNCHANGED <<map, ops>>
<1>0. /\ TypeOK /\ loc[w] \in Locals /\ pc \in [Workers -> Stages] /\ loc \in [Workers -> Locals]
      /\ loc[w].next \in Stages /\ pc[w] \in {"open", "asleep"} /\ "asleep" \in Stages
      /\ file \in [Objects -> Files] /\ disk \in [Paths -> Seq(Nat)] /\ current \in Int
      /\ existing \subseteq Paths /\ signalled \subseteq Workers
  BY ZenonT(30) DEF Inv, TypeOK, Course, Stages, Open, Wake, Spurious
<1>1. signalled' \subseteq Workers /\ UNCHANGED <<map, ops>>
  BY <1>0 DEF Open, Wake, Spurious
<1>2. CASE current < MaxOpen /\ DoOpen(w) /\ (IsOpen(loc[w].object) => pc[w] = "asleep")
  <2>1. /\ LocalTypes /\ SameOpen(w) /\ (Passes(w) \/ OpensAgain(w) \/ Opens(w))
        /\ file' \in [Objects -> Files] /\ disk' \in [Paths -> Seq(Nat)] /\ current' \in Int
        /\ existing' \subseteq Paths /\ kept' \subseteq kept
    BY <1>0, <1>2, DoOpenEffect
  <2> QED BY <1>0, <1>1, <2>1 DEF FileTypes
<1>3. CASE UNCHANGED <<file, current, disk, existing, kept, pc, loc>>
  <2>1. SameOpen(w) /\ Waits(w)
    BY <1>3 DEF SameOpen, SameCall, Others, Waits
  <2>2. LocalTypes /\ FileTypes
    BY <1>0, <1>1, <1>3 DEF LocalTypes, FileTypes
  <2> QED BY <1>0, <1>1, <1>3, <2>1, <2>2
<1>4. CASE /\ pc[w] = "open" /\ UNCHANGED <<file, current, disk, existing, kept>>
           /\ \/ IsOpen(loc[w].object) /\ Go(w, loc[w].next, loc[w])
              \/ ~IsOpen(loc[w].object) /\ Go(w, "asleep", loc[w])
  <2>1. LocalTypes /\ FileTypes
    BY <1>0, <1>1, <1>4, GoMoves DEF LocalTypes, FileTypes
  <2>2. \/ IsOpen(loc[w].object) /\ Moves(w, loc[w].next, loc[w])
        \/ ~IsOpen(loc[w].object) /\ Moves(w, "asleep", loc[w])
    BY <1>0, <1>4, GoMoves
  <2>3. SameOpen(w)
    BY <2>2 DEF SameOpen, SameCall, Others, Moves
  <2>4. Waits(w) \/ Passes(w)
    BY <1>4, <2>2 DEF Waits, Passes, Moves
  <2> QED BY <1>0, <1>1, <1>4, <2>1, <2>3, <2>4
<1> QED BY <1>2, <1>3, <1>4 DEF Open, Wake, Spurious

(* The other steps of a worker go on to a stage that is known.             *)
GoesTo(w, stage) ==
    /\ pc'[w] = stage /\ loc'[w] = loc[w] /\ SameCall(w) /\ Others(w)

(* A step that goes on to another stage leaves the call alone.             *)
LEMMA GoOn ==
    ASSUME TypeOK, NEW w \in Workers, NEW stage \in Stages, Go(w, stage, loc[w])
    PROVE  LocalTypes /\ GoesTo(w, stage)
<1>1. loc[w] \in Locals
  BY DEF TypeOK
<1> QED BY <1>1, GoMoves DEF LocalTypes, GoesTo, Moves, SameCall, Others

Destroys(o) == Closes(o) /\ ~file'[o].armed /\ file'[o].expired = 0 /\ file'[o].cached = file[o].cached

(* add() may destroy the object it replaces.                               *)
LEMMA AddEffect ==
    ASSUME Inv, NEW w \in Workers, Add(w)
    PROVE  /\ LocalTypes /\ FileTypes /\ pc[w] = "add" /\ Uses(w, loc[w].object)
           /\ map' = [map EXCEPT ![loc[w].path] = loc[w].object]
           /\ UNCHANGED <<existing, ops, kept>>
           /\ \/ UNCHANGED <<file, disk, current>>
              \/ LET old == map[loc[w].path]
                 IN  /\ old \in Objects /\ Destroys(old)
                     /\ \A v \in Workers : v # w /\ Active(v) => loc[v].object # old
<1>0. /\ TypeOK /\ Fresh /\ pc[w] = "add" /\ loc[w].object \in Objects /\ loc[w].path \in Paths
      /\ map[loc[w].path] \in Objects \cup {None} /\ Use(w, loc[w].object)
      /\ map' = [map EXCEPT ![loc[w].path] = loc[w].object]
      /\ UNCHANGED <<existing, ops, kept>>
  BY Holding DEF Inv, TypeOK, Add, Holds
<1>1. LocalTypes /\ Uses(w, loc[w].object)
  BY <1>0, UseEffect
<1>2. CASE UNCHANGED <<file, disk, current, signalled>>
  BY <1>0, <1>1, <1>2 DEF FileTypes, TypeOK
<1>3. CASE map[loc[w].path] # None /\ ~Used(map[loc[w].path], w) /\ Destroy(map[loc[w].path])
  <2> DEFINE old == map[loc[w].path]
  <2>1. old \in Objects
    BY <1>0, <1>3
  <2>2. FileTypes /\ Destroys(old)
    BY <1>0, <1>3, <2>1, Destroying DEF FileTypes, Destroys
  <2>3. \A v \in Workers : v # w /\ Active(v) => loc[v].object # old
    BY <1>3 DEF Used, Active
  <2> QED BY <1>0, <1>1, <2>1, <2>2, <2>3
<1> QED BY <1>2, <1>3 DEF Add

Writes(w, o) ==
    /\ \A x \in Objects : x # o => file'[x] = file[x]
    /\ file'[o].path = file[o].path /\ file'[o].stream = file[o].stream
    /\ file'[o].failed = file[o].failed /\ file'[o].armed = file[o].armed
    /\ file'[o].expired = file[o].expired /\ file'[o].cached = file[o].cached
    /\ file'[o].unflushed = IF file[o].stream \in {"app", "trunc"} /\ ~file[o].failed
                              THEN Append(file[o].unflushed, loc[w].number)
                              ELSE file[o].unflushed
    /\ kept' = IF loc[w].alone THEN kept \cup {<<loc[w].path, loc[w].number>>} ELSE kept

(* The data goes to the buffer if the stream takes it.                     *)
LEMMA WriteEffect ==
    ASSUME Inv, NEW w \in Workers, Write(w)
    PROVE  /\ LocalTypes /\ pc[w] = "write" /\ GoesTo(w, "finish")
           /\ file' \in [Objects -> Files] /\ kept' \subseteq Paths \X Nat
           /\ Writes(w, loc[w].object)
           /\ UNCHANGED <<map, current, signalled, disk, existing, ops>>
<1> DEFINE o == loc[w].object
<1>0. /\ TypeOK /\ pc[w] = "write" /\ o \in Objects /\ loc[w].path \in Paths
      /\ file[o] \in Files /\ file \in [Objects -> Files] /\ kept \subseteq Paths \X Nat
      /\ loc[w].number \in Nat /\ "finish" \in Stages
      /\ UNCHANGED <<map, current, signalled, disk, existing, ops>>
  <2>1. Holds(w) /\ pc[w] = "write" /\ UNCHANGED <<map, current, signalled, disk, existing, ops>>
    BY DEF Write, Holds
  <2>2. loc[w] \in Locals /\ o \in Objects /\ loc[w].path \in Paths /\ file[o] \in Files
    BY <2>1, Holding
  <2>3. loc[w].number \in Nat
    BY <2>2, FileAssumption DEF Locals
  <2> QED BY <2>1, <2>2, <2>3 DEF Inv, TypeOK, Stages
<1> DEFINE data == IF file[o].stream \in {"app", "trunc"} /\ ~file[o].failed
                     THEN Append(file[o].unflushed, loc[w].number) ELSE file[o].unflushed
           f == [file[o] EXCEPT !.mutex = w, !.unflushed = data]
<1>1. /\ file' = [file EXCEPT ![o] = f] /\ Go(w, "finish", loc[w])
      /\ kept' = IF loc[w].alone THEN kept \cup {<<loc[w].path, loc[w].number>>} ELSE kept
  BY ZenonT(30) DEF Write
<1>2. data \in Seq(Nat)
  <2>1. file[o].unflushed \in Seq(Nat)
    BY <1>0 DEF Files
  <2> QED BY <1>0, <2>1
<1> HIDE DEF data
<1>3. /\ f \in Files /\ f.path = file[o].path /\ f.stream = file[o].stream
      /\ f.failed = file[o].failed /\ f.armed = file[o].armed /\ f.expired = file[o].expired
      /\ f.cached = file[o].cached /\ f.unflushed = data
  BY <1>0, <1>2, ZenonT(30) DEF Files
<1> HIDE DEF f
<1>4. /\ file' \in [Objects -> Files] /\ file'[o] = f
      /\ \A x \in Objects : x # o => file'[x] = file[x]
  BY <1>0, <1>1, <1>3
<1>5. Writes(w, o)
  BY <1>1, <1>3, <1>4 DEF Writes, data
<1>6. kept' \subseteq Paths \X Nat
  BY <1>0, <1>1
<1> QED BY <1>0, <1>1, <1>4, <1>5, <1>6, GoOn

Rest == UNCHANGED <<map, existing, ops, kept>>
SameTimer(o) == file'[o].armed = file[o].armed /\ file'[o].expired = file[o].expired

(* The timer of an object is set, or ends.                                 *)
Times(o) ==
    /\ \A x \in Objects : x # o => file'[x] = file[x]
    /\ file'[o].path = file[o].path /\ file'[o].stream = file[o].stream
    /\ file'[o].failed = file[o].failed /\ file'[o].unflushed = file[o].unflushed
    /\ file'[o].cached = file[o].cached /\ (file'[o].armed \/ file'[o].expired > 0)
    /\ UNCHANGED <<disk, current>>

(* The timer is set, or the stream is closed.                              *)
LEMMA FinishEffect ==
    ASSUME Inv, NEW w \in Workers, Finish(w)
    PROVE  /\ LocalTypes /\ FileTypes /\ pc[w] = "finish" /\ GoesTo(w, "end") /\ Rest
           /\ \/ Times(loc[w].object)
              \/ /\ Closes(loc[w].object) /\ SameTimer(loc[w].object)
                 /\ file'[loc[w].object].cached = file[loc[w].object].cached
<1> DEFINE o == loc[w].object
           r == [file[o] EXCEPT !.mutex = Nobody]
           f == [file EXCEPT ![o] = r]
<1>0. /\ TypeOK /\ Fresh /\ pc[w] = "finish" /\ o \in Objects /\ file[o] \in Files
      /\ file \in [Objects -> Files] /\ "end" \in Stages /\ Rest /\ Go(w, "end", loc[w])
  BY Holding, ZenonT(30) DEF Inv, TypeOK, Finish, Holds, Stages, Rest
<1>1. LocalTypes /\ GoesTo(w, "end")
  BY <1>0, GoOn
<1>2. /\ r \in Files /\ r.path = file[o].path /\ r.stream = file[o].stream
      /\ r.failed = file[o].failed /\ r.unflushed = file[o].unflushed /\ r.cached = file[o].cached
      /\ r.armed = file[o].armed /\ r.expired = file[o].expired
  BY <1>0, ZenonT(30) DEF Files
<1>3. IF loc[w].later
        THEN /\ file' = [f EXCEPT ![o] = [f[o] EXCEPT !.armed = TRUE]]
             /\ UNCHANGED <<disk, current, signalled>>
        ELSE CloseFile(o, f)
  BY DEF Finish
<1> HIDE DEF r
<1>4. f \in [Objects -> Files] /\ f[o] = r /\ \A x \in Objects : x # o => f[x] = file[x]
  BY <1>0, <1>2
<1> HIDE DEF f
<1>5. CASE loc[w].later
  <2> DEFINE g == [f[o] EXCEPT !.armed = TRUE]
  <2>1. /\ g \in Files /\ g.path = file[o].path /\ g.stream = file[o].stream
        /\ g.failed = file[o].failed /\ g.unflushed = file[o].unflushed
        /\ g.cached = file[o].cached /\ g.armed
    BY <1>2, <1>4, ZenonT(30) DEF Files
  <2>2. file' = [f EXCEPT ![o] = g] /\ UNCHANGED <<disk, current, signalled>>
    BY <1>3, <1>5
  <2> HIDE DEF g
  <2>3. /\ file' \in [Objects -> Files] /\ file'[o] = g
        /\ \A x \in Objects : x # o => file'[x] = file[x]
    BY <1>0, <1>4, <2>1, <2>2
  <2>4. FileTypes
    BY <1>0, <2>2, <2>3 DEF FileTypes, TypeOK
  <2>5. Times(o)
    BY <2>1, <2>2, <2>3 DEF Times
  <2> QED BY <1>0, <1>1, <2>4, <2>5
<1>6. CASE ~loc[w].later
  <2>1. CloseFile(o, f)
    BY <1>3, <1>6
  <2>2. FileTypes /\ Closes(o) /\ SameTimer(o) /\ file'[o].cached = file[o].cached
    BY <1>0, <1>2, <1>4, <2>1, Closing DEF FileTypes, SameTimer
  <2> QED BY <1>0, <1>1, <2>2
<1> QED BY <1>5, <1>6

(* empty() closes the stream first.                                        *)
LEMMA EmptyEffect ==
    ASSUME Inv, NEW w \in Workers, Empty(w)
    PROVE  /\ LocalTypes /\ FileTypes /\ pc[w] = "empty" /\ GoesTo(w, "open") /\ Rest
           /\ Closes(loc[w].object) /\ SameTimer(loc[w].object)
           /\ file'[loc[w].object].cached = file[loc[w].object].cached
<1> DEFINE o == loc[w].object
<1>0. /\ TypeOK /\ Fresh /\ pc[w] = "empty" /\ o \in Objects
      /\ file \in [Objects -> Files] /\ "open" \in Stages /\ Rest /\ Go(w, "open", loc[w])
      /\ CloseFile(o, file)
  BY Holding, ZenonT(30) DEF Inv, TypeOK, Empty, Holds, Stages, Rest
<1>1. LocalTypes /\ GoesTo(w, "open")
  BY <1>0, GoOn
<1>2. FileTypes /\ Closes(o) /\ SameTimer(o) /\ file'[o].cached = file[o].cached
  BY <1>0, Closing DEF FileTypes, SameTimer
<1> QED BY <1>0, <1>1, <1>2

(* read() and empty() close the stream.                                    *)
LEMMA CloseEffect ==
    ASSUME Inv, NEW w \in Workers, Close(w)
    PROVE  /\ LocalTypes /\ FileTypes /\ pc[w] = "close" /\ GoesTo(w, "end") /\ Rest
           /\ Closes(loc[w].object) /\ SameTimer(loc[w].object)
<1> DEFINE o == loc[w].object
           success == loc[w].mode # "none"
           r == [file[o] EXCEPT !.cached = success]
           f == IF loc[w].op = "read" /\ ReadCache THEN [file EXCEPT ![o] = r] ELSE file
<1>0. /\ TypeOK /\ Fresh /\ pc[w] = "close" /\ o \in Objects /\ file[o] \in Files
      /\ file \in [Objects -> Files] /\ "end" \in Stages /\ Rest /\ Go(w, "end", loc[w])
  BY Holding, ZenonT(30) DEF Inv, TypeOK, Close, Holds, Stages, Rest
<1>1. LocalTypes /\ GoesTo(w, "end")
  BY <1>0, GoOn
<1>2. CloseFile(o, f)
  BY DEF Close
<1>3. success \in BOOLEAN
  OBVIOUS
<1> HIDE DEF success
<1>4. /\ r \in Files /\ r.path = file[o].path /\ r.stream = file[o].stream
      /\ r.unflushed = file[o].unflushed /\ r.armed = file[o].armed /\ r.expired = file[o].expired
  BY <1>0, <1>3, ZenonT(30) DEF Files
<1> HIDE DEF r
<1>5. /\ f \in [Objects -> Files] /\ \A x \in Objects : x # o => f[x] = file[x]
      /\ f[o].path = file[o].path /\ f[o].stream = file[o].stream
      /\ f[o].unflushed = file[o].unflushed /\ f[o].armed = file[o].armed
      /\ f[o].expired = file[o].expired
  BY <1>0, <1>4
<1> HIDE DEF f
<1>6. FileTypes /\ Closes(o) /\ SameTimer(o)
  BY <1>0, <1>2, <1>5, Closing DEF FileTypes, SameTimer
<1> QED BY <1>0, <1>1, <1>6

(* A worker without an operation.                                          *)
LEMMA UnusedType == Unused \in Locals
BY FileAssumption DEF Unused, Locals

(* The last one that holds a replaced object destroys it.                  *)
LEMMA EndEffect ==
    ASSUME Inv, NEW w \in Workers, End(w)
    PROVE  /\ LocalTypes /\ FileTypes /\ pc[w] = "end" /\ Moves(w, "idle", Unused) /\ Rest
           /\ \/ UNCHANGED <<file, disk, current>>
              \/ /\ Destroys(loc[w].object) /\ map[loc[w].path] # loc[w].object
                 /\ \A v \in Workers : v # w /\ Active(v) => loc[v].object # loc[w].object
<1> DEFINE o == loc[w].object
<1>0. /\ TypeOK /\ Fresh /\ pc[w] = "end" /\ o \in Objects /\ "idle" \in Stages /\ Rest
      /\ Go(w, "idle", Unused)
  BY Holding DEF Inv, End, Holds, Stages, Rest
<1>1. LocalTypes /\ Moves(w, "idle", Unused)
  BY <1>0, UnusedType, GoMoves DEF LocalTypes
<1>2. CASE UNCHANGED <<file, disk, current, signalled>>
  <2>1. FileTypes
    BY <1>0, <1>2 DEF FileTypes, TypeOK
  <2> QED BY <1>0, <1>1, <1>2, <2>1
<1>3. CASE map[loc[w].path] # o /\ ~Used(o, w) /\ Destroy(o)
  <2>1. FileTypes /\ Destroys(o)
    BY <1>0, <1>3, Destroying DEF FileTypes, Destroys
  <2>2. \A v \in Workers : v # w /\ Active(v) => loc[v].object # o
    BY <1>3 DEF Used, Active
  <2> QED BY <1>0, <1>1, <1>3, <2>1, <2>2
<1> QED BY <1>2, <1>3 DEF End

(* A timer ends.                                                           *)
LEMMA ExpireEffect ==
    ASSUME Inv, NEW o \in Objects, Expire(o)
    PROVE  /\ FileTypes /\ Rest /\ UNCHANGED <<pc, loc>>
           /\ file[o].armed /\ Times(o)
<1>0. /\ TypeOK /\ file[o] \in Files /\ file \in [Objects -> Files] /\ file[o].armed
      /\ Rest /\ UNCHANGED <<pc, loc, disk, current, signalled>>
  BY DEF Inv, TypeOK, Expire, Rest
<1> DEFINE r == [file[o] EXCEPT !.armed = FALSE, !.expired = file[o].expired + 1]
<1>1. file' = [file EXCEPT ![o] = r]
  BY ZenonT(30) DEF Expire
<1>2. /\ r \in Files /\ r.path = file[o].path /\ r.stream = file[o].stream
      /\ r.failed = file[o].failed /\ r.unflushed = file[o].unflushed /\ r.cached = file[o].cached
      /\ r.expired > 0
  <2>1. file[o].expired + 1 \in Nat /\ file[o].expired + 1 > 0
    BY <1>0 DEF Files
  <2> QED BY <1>0, <2>1, ZenonT(30) DEF Files
<1> HIDE DEF r
<1>3. /\ file' \in [Objects -> Files] /\ file'[o] = r
      /\ \A x \in Objects : x # o => file'[x] = file[x]
  BY <1>0, <1>1, <1>2
<1>4. FileTypes
  BY <1>0, <1>3 DEF FileTypes, TypeOK
<1> QED BY <1>0, <1>2, <1>3, <1>4 DEF Times

(* Its handler closes the stream.                                          *)
LEMMA CloseLaterEffect ==
    ASSUME Inv, NEW o \in Objects, CloseLater(o)
    PROVE  /\ FileTypes /\ Rest /\ UNCHANGED <<pc, loc>> /\ Timed(o)
           /\ Closes(o) /\ file'[o].cached = file[o].cached
<1>0. /\ TypeOK /\ Fresh /\ file[o] \in Files /\ file \in [Objects -> Files] /\ Timed(o)
      /\ Rest /\ UNCHANGED <<pc, loc>> /\ file[o].expired > 0
  BY DEF Inv, TypeOK, CloseLater, Rest, Timed
<1> DEFINE r == [file[o] EXCEPT !.expired = file[o].expired - 1]
           f == [file EXCEPT ![o] = r]
<1>1. CloseFile(o, f)
  BY DEF CloseLater
<1>2. file[o].expired - 1 \in Nat
  BY <1>0 DEF Files
<1>3. /\ r \in Files /\ r.path = file[o].path /\ r.stream = file[o].stream
      /\ r.unflushed = file[o].unflushed /\ r.cached = file[o].cached
  BY <1>0, <1>2, ZenonT(30) DEF Files
<1> HIDE DEF r
<1>4. f \in [Objects -> Files] /\ f[o] = r /\ \A x \in Objects : x # o => f[x] = file[x]
  BY <1>0, <1>3
<1> HIDE DEF f
<1> QED BY <1>0, <1>1, <1>3, <1>4, Closing DEF FileTypes

-----------------------------------------------------------------------------
Opening(w) == Open(w) \/ Wake(w) \/ Spurious(w)
Timer == \E o \in Objects : Expire(o) \/ CloseLater(o)

(* The steps, one by one.                                                  *)
LEMMA NextSplit ==
    ASSUME Next
    PROVE  \/ \E w \in Workers :
                \/ Start(w) \/ Get(w) \/ Opening(w) \/ Add(w) \/ Write(w)
                \/ Finish(w) \/ Empty(w) \/ Close(w) \/ End(w)
           \/ Timer
BY DEF Next, operation, Opening, Timer

(* Every step keeps the types.                                             *)
LEMMA TypesStep ==
    ASSUME Inv, Next
    PROVE  TypeOK'
<1>0. /\ TypeOK /\ map \in [Paths -> Objects \cup {None}] /\ kept \subseteq Paths \X Nat
      /\ existing \subseteq Paths /\ ops \in 0..MaxOps
  BY DEF Inv, TypeOK
<1>1. ASSUME FileTypes, LocalTypes, Rest
      PROVE  TypeOK'
  BY <1>0, <1>1 DEF FileTypes, LocalTypes, Rest, TypeOK
<1>2. ASSUME NEW w \in Workers, Start(w) PROVE TypeOK'
  BY <1>0, <1>2, StartEffect DEF LocalTypes, TypeOK
<1>3. ASSUME NEW w \in Workers, Get(w) PROVE TypeOK'
  BY <1>0, <1>3, GetEffect DEF LocalTypes, TypeOK
<1>4. ASSUME NEW w \in Workers, Opening(w) PROVE TypeOK'
  BY <1>0, <1>4, OpenEffect DEF Opening, LocalTypes, FileTypes, TypeOK
<1>5. ASSUME NEW w \in Workers, Add(w) PROVE TypeOK'
  <2>1. loc[w].object \in Objects
    BY <1>5, AddEffect, Holding DEF Holds
  <2>2. map' \in [Paths -> Objects \cup {None}]
    BY <1>0, <1>5, <2>1, AddEffect
  <2> QED BY <1>0, <1>5, <2>2, AddEffect DEF LocalTypes, FileTypes, TypeOK
<1>6. ASSUME NEW w \in Workers, Write(w) PROVE TypeOK'
  BY <1>0, <1>6, WriteEffect DEF LocalTypes, TypeOK
<1>7. ASSUME NEW w \in Workers, Finish(w) \/ Empty(w) \/ Close(w) \/ End(w) PROVE TypeOK'
  BY <1>1, <1>7, FinishEffect, EmptyEffect, CloseEffect, EndEffect
<1>8. CASE Timer
  BY <1>0, <1>1, <1>8, ExpireEffect, CloseLaterEffect DEF Timer, LocalTypes, TypeOK
<1> QED BY <1>2, <1>3, <1>4, <1>5, <1>6, <1>7, <1>8, NextSplit

(* The count of the open streams.                                          *)

-----------------------------------------------------------------------------
(* Paths and untouched objects: only the creation of an object gives it a  *)
(* path.                                                                   *)
KeepsNew ==
    \A x \in Objects :
      file'[x].path = file[x].path /\ (file[x].path = None => file'[x] = file[x])

(* A step that changes one object which has a path already.                *)
LEMMA KeepsOne ==
    ASSUME NEW o \in Objects, file[o].path # None, file'[o].path = file[o].path,
           \A x \in Objects : x # o => file'[x] = file[x]
    PROVE  KeepsNew
BY DEF KeepsNew

(* A close is such a step.                                                 *)
LEMMA ClosesKeeps ==
    ASSUME NEW o \in Objects, file[o].path # None, Closes(o)
    PROVE  KeepsNew
<1>1. file'[o].path = file[o].path /\ \A x \in Objects : x # o => file'[x] = file[x]
  BY DEF Closes
<1> QED BY <1>1, KeepsOne

(* No path is the missing one.                                             *)
LEMMA NotNone == ASSUME NEW p \in Paths PROVE p # None
BY DEF Paths, None

(* The object of a worker has a path.                                      *)
LEMMA HeldNotNone ==
    ASSUME Inv, NEW w \in Workers, Holds(w)
    PROVE  loc[w].object \in Objects /\ file[loc[w].object].path # None
BY Holding, NotNone

(* No step but Get touches an object without a path.                       *)
LEMMA KeepsNewStep ==
    ASSUME Inv
    PROVE  /\ \A w \in Workers : Start(w) \/ Opening(w) \/ Add(w) \/ Write(w)
                                 \/ Finish(w) \/ Empty(w) \/ Close(w) \/ End(w) => KeepsNew
           /\ Timer => KeepsNew
<1>1. ASSUME file' = file PROVE KeepsNew
  BY <1>1 DEF KeepsNew
<1>2. ASSUME NEW w \in Workers, Start(w) PROVE KeepsNew
  BY <1>1, <1>2, StartEffect
<1>3. ASSUME NEW w \in Workers, Opening(w) PROVE KeepsNew
  <2>1. loc[w].object \in Objects /\ file[loc[w].object].path # None
    BY <1>3, OpenEffect, HeldNotNone DEF Opening, Holds
  <2>2. CASE Waits(w) \/ Passes(w)
    BY <1>1, <2>2 DEF Waits, Passes
  <2>3. CASE OpensAgain(w) \/ Opens(w)
    BY <2>1, <2>3, KeepsOne, ZenonT(30) DEF OpensAgain, Opens, Touches
  <2> QED BY <1>3, <2>2, <2>3, OpenEffect DEF Opening
<1>4. ASSUME NEW w \in Workers, Add(w) PROVE KeepsNew
  <2>1. loc[w].path \in Paths
    BY <1>4, AddEffect, Holding DEF Holds
  <2>2. ASSUME map[loc[w].path] \in Objects PROVE file[map[loc[w].path]].path # None
    BY <2>1, <2>2, NotNone DEF Inv, Located, Objects, None
  <2>3. ASSUME NEW o \in Objects, o = map[loc[w].path], Destroys(o) PROVE KeepsNew
    BY <2>2, <2>3, ClosesKeeps DEF Destroys
  <2> QED BY <1>1, <1>4, <2>3, AddEffect
<1>5. ASSUME NEW w \in Workers, Write(w) PROVE KeepsNew
  BY <1>5, WriteEffect, HeldNotNone, KeepsOne DEF Holds, Writes
<1>6. ASSUME NEW w \in Workers, Finish(w) \/ Empty(w) \/ Close(w) \/ End(w) PROVE KeepsNew
  <2>1. PICK o \in Objects : o = loc[w].object /\ file[o].path # None
    BY <1>6, FinishEffect, EmptyEffect, CloseEffect, EndEffect, HeldNotNone, ZenonT(30) DEF Holds
  <2>2. CASE Closes(o)
    BY <2>1, <2>2, ClosesKeeps
  <2>3. CASE Times(o)
    BY <2>1, <2>3, KeepsOne DEF Times
  <2>4. Closes(o) \/ Times(o) \/ file' = file
    BY <1>6, <2>1, FinishEffect, EmptyEffect, CloseEffect, EndEffect DEF Destroys
  <2> QED BY <1>1, <2>2, <2>3, <2>4
<1>7. ASSUME Timer PROVE KeepsNew
  <2>1. PICK o \in Objects : Expire(o) \/ CloseLater(o)
    BY <1>7 DEF Timer
  <2>2. file[o].path # None
    BY <2>1, ExpireEffect, CloseLaterEffect DEF Inv, Fresh, Timed
  <2>3. Closes(o) \/ Times(o)
    BY <2>1, ExpireEffect, CloseLaterEffect
  <2> QED BY <2>2, <2>3, KeepsOne, ClosesKeeps DEF Times
<1> QED BY <1>2, <1>3, <1>4, <1>5, <1>6, <1>7

(* A worker that holds its object goes on with it.                         *)
Continues(w) == SameCall(w) /\ Others(w) /\ loc'[w].object = loc[w].object

(* The steps between Get and End keep the worker's call and object.        *)
LEMMA ContinuesStep ==
    ASSUME Inv, NEW w \in Workers,
           Opening(w) \/ Add(w) \/ Write(w) \/ Finish(w) \/ Empty(w) \/ Close(w)
    PROVE  Continues(w) /\ Holds(w) /\ Holds(w)' /\ ops' = ops /\ (map' = map \/ Add(w))
<1>1. CASE Opening(w)
  <2>1. pc[w] \in {"open", "asleep"} => loc[w].next \in {"add", "write", "close"}
    BY DEF Inv, Course
  <2>2. Holds(w) /\ Continues(w) /\ ops' = ops /\ map' = map
    BY <1>1, OpenEffect DEF Opening, SameOpen, Continues, Holds
  <2>3. Holds(w)'
    BY <1>1, <2>1, OpenEffect, ZenonT(30) DEF Opening, Holds, Waits, Passes, OpensAgain, Opens
  <2> QED BY <2>2, <2>3
<1>2. CASE Add(w)
  BY <1>2, AddEffect, ZenonT(30) DEF Uses, Holds, Continues
<1>3. CASE Write(w)
  BY <1>3, WriteEffect, ZenonT(30) DEF GoesTo, Holds, Continues
<1>4. CASE Finish(w) \/ Empty(w) \/ Close(w)
  BY <1>4, FinishEffect, EmptyEffect, CloseEffect, ZenonT(30) DEF GoesTo, Holds, Continues, Rest
<1> QED BY <1>1, <1>2, <1>3, <1>4

(* The object a worker constructs was nobody's before.                     *)
LEMMA CreatesNew ==
    ASSUME Inv, NEW w \in Workers, Get(w), Creates(w, NumPaths + loc[w].number)
    PROVE  \E o \in Objects :
             /\ o = NumPaths + loc[w].number /\ file[o].path = None
             /\ file'[o].path = loc[w].path /\ file'[o].stream = "closed"
             /\ ~file'[o].armed /\ file'[o].expired = 0 /\ ~file'[o].cached
             /\ file[o].unflushed = <<>> /\ file'[o].unflushed = <<>>
             /\ \A x \in Objects : x # o => file'[x] = file[x]
             /\ \A p \in Paths : map[p] # o
             /\ \A v \in Workers : Holds(v) => loc[v].object # o
             /\ loc'[w].object = o
<1>1. PICK o \in Objects : o = NumPaths + loc[w].number
  BY GetEffect, FileAssumption DEF Inv, TypeOK, Located, Active, Locals, Objects
<1>2. file[o].path = None /\ pc[w] = "get"
  BY <1>1, GetEffect, ZenonT(30) DEF Inv, Fresh
<1>3. file[o].unflushed = <<>>
  BY <1>2 DEF Inv, Fresh
<1>4. /\ file'[o].path = loc[w].path /\ file'[o].stream = "closed"
      /\ ~file'[o].armed /\ file'[o].expired = 0 /\ ~file'[o].cached
      /\ file'[o].unflushed = <<>> /\ loc'[w].object = o
      /\ \A x \in Objects : x # o => file'[x] = file[x]
  BY <1>1 DEF Creates, File
<1>5. \A p \in Paths : map[p] # o
  BY <1>2, NotNone DEF Inv, Located, Objects, None
<1>6. \A v \in Workers : Holds(v) => loc[v].object # o
  BY <1>2, HeldNotNone
<1> QED BY <1>1, <1>2, <1>3, <1>4, <1>5, <1>6

(* Every step keeps the objects where their paths and workers look for     *)
(* them.                                                                   *)
LEMMA LocatedStep ==
    ASSUME Inv, Next
    PROVE  Located'
<1>0. Located /\ map \in [Paths -> Objects \cup {None}] /\ ops \in Nat
  BY FileAssumption DEF Inv, TypeOK
<1>1. ASSUME NEW w \in Workers,
             Opening(w) \/ Add(w) \/ Write(w) \/ Finish(w) \/ Empty(w) \/ Close(w)
      PROVE  Located'
  <2>1. KeepsNew /\ Continues(w) /\ Holds(w) /\ Holds(w)' /\ ops' = ops
    BY <1>1, KeepsNewStep, ContinuesStep
  <2>2. \A v \in Workers : /\ Active(v)' = Active(v) /\ Holds(v)' = Holds(v)
                           /\ loc'[v].path = loc[v].path /\ loc'[v].number = loc[v].number
                           /\ loc'[v].object = loc[v].object
    BY <2>1 DEF Continues, Others, SameCall, Active, Holds
  <2>3. \A p \in Paths : map'[p] # None => file'[map'[p]].path = p
    <3>1. CASE map' = map
      BY <1>0, <2>1, <3>1 DEF KeepsNew, Located
    <3>2. CASE Add(w)
      <4>1. /\ map' = [map EXCEPT ![loc[w].path] = loc[w].object]
            /\ loc[w].object \in Objects /\ file[loc[w].object].path = loc[w].path
        BY <2>1, <3>2, AddEffect, Holding
      <4> QED BY <1>0, <2>1, <4>1 DEF KeepsNew, Located
    <3> QED BY <1>1, <3>1, <3>2, ContinuesStep
  <2>4. \A v \in Workers : Active(v)' =>
          loc'[v].path \in Paths /\ 1 <= loc'[v].number /\ loc'[v].number <= ops'
    BY <1>0, <2>1, <2>2 DEF Located
  <2>5. \A v \in Workers : Holds(v)' =>
          loc'[v].object \in Objects /\ file'[loc'[v].object].path = loc'[v].path
    BY <1>0, <2>1, <2>2 DEF Located, KeepsNew
  <2>6. \A u, v \in Workers : u # v /\ Active(u)' /\ Active(v)' => loc'[u].number # loc'[v].number
    BY <1>0, <2>2 DEF Located
  <2> QED BY <2>3, <2>4, <2>5, <2>6 DEF Located
<1>2. ASSUME NEW w \in Workers, Start(w) PROVE Located'
  <2>1. PICK r \in Operations : Started(w, r)
    BY <1>2, StartEffect
  <2>2. /\ r.path \in Paths /\ ops' = ops + 1 /\ pc[w] = "idle" /\ UNCHANGED <<map, file>>
    BY <1>2, StartEffect, InstanceAssumption
  <2>3. \A v \in Workers : v # w =>
          /\ Active(v)' = Active(v) /\ Holds(v)' = Holds(v)
          /\ loc'[v].path = loc[v].path /\ loc'[v].number = loc[v].number
          /\ loc'[v].object = loc[v].object
    BY <2>1 DEF Started, Active, Holds
  <2>4. ~Holds(w)' /\ loc'[w].path = r.path /\ loc'[w].number = ops + 1
    BY <2>1 DEF Started, Holds
  <2>5. \A v \in Workers : Active(v) => loc[v].number <= ops /\ loc[v].number \in Nat
    BY <1>0, FileAssumption DEF Located, Inv, TypeOK, Locals
  <2>6. \A u, v \in Workers : u # v /\ Active(u)' /\ Active(v)' => loc'[u].number # loc'[v].number
    BY <1>0, <2>3, <2>4, <2>5 DEF Located
  <2>7. \A v \in Workers : Active(v)' =>
          loc'[v].path \in Paths /\ 1 <= loc'[v].number /\ loc'[v].number <= ops'
    BY <1>0, <2>2, <2>3, <2>4, <2>5 DEF Located
  <2> QED BY <1>0, <2>2, <2>3, <2>4, <2>6, <2>7, ZenonT(30) DEF Located
<1>3. ASSUME NEW w \in Workers, Get(w) PROVE Located'
  <2>0. UNCHANGED <<map, ops>> /\ pc[w] = "get" /\ loc[w].path \in Paths
    BY <1>3, GetEffect
  <2>1. CASE map[loc[w].path] \in Objects /\ Uses(w, map[loc[w].path]) /\ file' = file
    <3>1. /\ loc'[w].path = loc[w].path /\ loc'[w].number = loc[w].number
          /\ loc'[w].object = map[loc[w].path] /\ Others(w) /\ Active(w)' /\ Active(w)
      BY <2>0, <2>1, ZenonT(30) DEF Uses, SameCall, Active
    <3>2. map[loc[w].path] # None
      BY <2>1 DEF Objects, None
    <3> QED BY <1>0, <2>0, <2>1, <3>1, <3>2 DEF Located, Others, Active, Holds
  <2>2. CASE Creates(w, NumPaths + loc[w].number)
    <3>1. PICK o \in Objects :
             /\ file'[o].path = loc[w].path /\ loc'[w].object = o
             /\ \A x \in Objects : x # o => file'[x] = file[x]
             /\ \A p \in Paths : map[p] # o
             /\ \A v \in Workers : Holds(v) => loc[v].object # o
      BY <1>3, <2>2, CreatesNew
    <3>2. /\ loc'[w].path = loc[w].path /\ loc'[w].number = loc[w].number
          /\ Others(w) /\ Active(w)' /\ Active(w)
      BY <2>0, <2>2 DEF Creates, SameCall, Active
    <3>3. \A p \in Paths : map'[p] # None => file'[map'[p]].path = p
      BY <1>0, <2>0, <3>1 DEF Located
    <3>4. \A v \in Workers : Active(v)' =>
            Active(v) /\ loc'[v].path = loc[v].path /\ loc'[v].number = loc[v].number
      BY <3>2 DEF Others, Active
    <3>5. \A v \in Workers : Holds(v)' =>
            loc'[v].object \in Objects /\ file'[loc'[v].object].path = loc'[v].path
      BY <1>0, <3>1, <3>2 DEF Located, Others, Holds
    <3> QED BY <1>0, <2>0, <3>3, <3>4, <3>5 DEF Located
  <2> QED BY <1>3, <2>1, <2>2, GetEffect, ZenonT(30)
<1>4. ASSUME NEW w \in Workers, End(w) PROVE Located'
  <2>1. KeepsNew /\ Moves(w, "idle", Unused) /\ UNCHANGED <<map, ops>>
    BY <1>4, KeepsNewStep, EndEffect DEF Rest
  <2>2. \A v \in Workers : /\ Active(v)' => Active(v) /\ loc'[v] = loc[v]
                           /\ Holds(v)' => Holds(v) /\ loc'[v] = loc[v]
    BY <2>1 DEF Moves, Active, Holds
  <2> QED BY <1>0, <2>1, <2>2 DEF Located, KeepsNew
<1>5. CASE Timer
  <2>1. KeepsNew /\ UNCHANGED <<pc, loc, map, ops>>
    BY <1>5, KeepsNewStep, ExpireEffect, CloseLaterEffect DEF Timer, Rest
  <2> QED BY <1>0, <2>1 DEF Located, KeepsNew, Active, Holds
<1> QED BY <1>1, <1>2, <1>3, <1>4, <1>5, NextSplit

(* Every step keeps what is not constructed yet untouched.                 *)
LEMMA FreshStep ==
    ASSUME Inv, Next
    PROVE  Fresh'
<1>0. Fresh /\ Located /\ ops \in Nat /\ ops \in 0..MaxOps /\ MaxOps \in Nat /\ NumPaths \in Nat
  BY FileAssumption DEF Inv, TypeOK
<1>1. \A n \in 1..MaxOps : NumPaths + n \in Objects
  BY <1>0 DEF Objects
<1>2. \A w \in Workers : Active(w) => loc[w].number \in 1..MaxOps /\ loc[w].number <= ops
  BY <1>0 DEF Located, Inv, TypeOK, Locals
<1>3. ASSUME KeepsNew, ops' = ops, \A v \in Workers : pc'[v] = "get" => pc[v] = "get" /\ loc'[v] = loc[v]
      PROVE  Fresh'
  <2>1. \A o \in Objects : file'[o].path = None =>
          /\ file'[o].stream = "closed" /\ file'[o].unflushed = <<>>
          /\ ~file'[o].armed /\ ~(file'[o].expired > 0) /\ ~file'[o].cached
    BY <1>0, <1>3 DEF Fresh, KeepsNew, Timed
  <2>2. \A n \in 1..MaxOps : n > ops' => file'[NumPaths + n].path = None
    <3>1. ASSUME NEW n \in 1..MaxOps, n > ops' PROVE file'[NumPaths + n].path = None
      <4>1. NumPaths + n \in Objects /\ n > ops
        BY <1>1, <1>3, <3>1
      <4>2. file[NumPaths + n].path = None
        <5>1. \A m \in 1..MaxOps : m > ops => file[NumPaths + m].path = None
          BY <1>0 DEF Fresh
        <5> QED BY <3>1, <4>1, <5>1
      <4> QED BY <1>3, <4>1, <4>2 DEF KeepsNew
    <3> QED BY <3>1
  <2>3. \A w \in Workers : pc'[w] = "get" => file'[NumPaths + loc'[w].number].path = None
    <3>1. ASSUME NEW w \in Workers, pc'[w] = "get" PROVE file'[NumPaths + loc'[w].number].path = None
      <4>1. pc[w] = "get" /\ loc'[w] = loc[w]
        BY <1>3, <3>1
      <4>2. NumPaths + loc[w].number \in Objects
        BY <1>1, <1>2, <4>1 DEF Active
      <4>3. file[NumPaths + loc[w].number].path = None
        BY <1>0, <4>1 DEF Fresh
      <4> QED BY <1>3, <4>1, <4>2, <4>3 DEF KeepsNew
    <3> QED BY <3>1
  <2> QED BY <2>1, <2>2, <2>3 DEF Fresh, Timed
<1>4. ASSUME NEW w \in Workers,
             Opening(w) \/ Add(w) \/ Write(w) \/ Finish(w) \/ Empty(w) \/ Close(w)
      PROVE  Fresh'
  <2>1. KeepsNew /\ Continues(w) /\ Holds(w)' /\ ops' = ops
    BY <1>4, KeepsNewStep, ContinuesStep
  <2> QED BY <1>3, <2>1 DEF Continues, Others, Holds
<1>5. ASSUME NEW w \in Workers, Start(w) PROVE Fresh'
  <2>1. PICK r \in Operations : Started(w, r)
    BY <1>5, StartEffect
  <2>2. ops' = ops + 1 /\ ops' \in 0..MaxOps /\ pc[w] = "idle" /\ file' = file
    BY <1>5, StartEffect
  <2>3. file[NumPaths + (ops + 1)].path = None
    <3>1. ops + 1 \in 1..MaxOps /\ ops + 1 > ops
      BY <1>0, <2>2
    <3> QED BY <1>0, <3>1 DEF Fresh
  <2>4. \A v \in Workers : pc'[v] = "get" => file'[NumPaths + loc'[v].number].path = None
    BY <1>0, <2>1, <2>2, <2>3 DEF Fresh, Started
  <2>5. \A n \in 1..MaxOps : n > ops' => file'[NumPaths + n].path = None
    BY <1>0, <2>2 DEF Fresh
  <2> QED BY <1>0, <2>2, <2>4, <2>5 DEF Fresh, Timed
<1>6. ASSUME NEW w \in Workers, Get(w) PROVE Fresh'
  <2>0. ops' = ops /\ pc[w] = "get"
    BY <1>6, GetEffect, ZenonT(30)
  <2>1. CASE map[loc[w].path] \in Objects /\ Uses(w, map[loc[w].path]) /\ file' = file
    <3>1. KeepsNew
      BY <2>1 DEF KeepsNew
    <3> QED BY <1>3, <2>0, <2>1, <3>1, ZenonT(30) DEF Uses, Others
  <2>2. CASE Creates(w, NumPaths + loc[w].number)
    <3>1. PICK o \in Objects :
             /\ o = NumPaths + loc[w].number /\ file'[o].path = loc[w].path
             /\ \A x \in Objects : x # o => file'[x] = file[x]
      BY <1>6, <2>2, CreatesNew
    <3>2. loc[w].path # None /\ Active(w) /\ pc'[w] # "get" /\ Others(w)
      <4>1. loc[w].path # None
        BY <1>6, GetEffect, NotNone
      <4> QED BY <2>0, <2>2, <4>1 DEF Active, Creates
    <3>3. \A x \in Objects : file'[x].path = None =>
            /\ file'[x].stream = "closed" /\ file'[x].unflushed = <<>>
            /\ ~file'[x].armed /\ ~(file'[x].expired > 0) /\ ~file'[x].cached
      BY <1>0, <3>1, <3>2 DEF Fresh, Timed
    <3>4. \A n \in 1..MaxOps : n > ops' => file'[NumPaths + n].path = None
      <4>1. ASSUME NEW n \in 1..MaxOps, n > ops' PROVE NumPaths + n # o
        BY <1>0, <1>2, <2>0, <3>1, <3>2, <4>1
      <4> QED BY <1>0, <1>1, <2>0, <3>1, <4>1, ZenonT(30) DEF Fresh
    <3>5. ASSUME NEW v \in Workers, pc'[v] = "get"
          PROVE  file'[NumPaths + loc'[v].number].path = None
      <4>1. v # w /\ pc[v] = "get" /\ loc'[v] = loc[v] /\ Active(v)
        BY <3>2, <3>5 DEF Others, Active
      <4>2. loc[v].number # loc[w].number /\ loc[v].number \in Nat /\ loc[w].number \in Nat
        BY <1>0, <1>2, <3>2, <4>1 DEF Located
      <4>3. NumPaths + loc[v].number # o /\ NumPaths + loc[v].number \in Objects
        BY <1>0, <1>1, <1>2, <3>1, <4>1, <4>2
      <4> QED BY <1>0, <3>1, <4>1, <4>3 DEF Fresh
    <3> QED BY <3>3, <3>4, <3>5 DEF Fresh, Timed
  <2> QED BY <1>6, <2>1, <2>2, GetEffect, ZenonT(30)
<1>7. ASSUME NEW w \in Workers, End(w) PROVE Fresh'
  <2>1. KeepsNew /\ Moves(w, "idle", Unused) /\ ops' = ops
    BY <1>7, KeepsNewStep, EndEffect DEF Rest
  <2> QED BY <1>3, <2>1 DEF Moves
<1>8. CASE Timer
  <2>1. KeepsNew /\ UNCHANGED <<pc, loc, ops>>
    BY <1>8, KeepsNewStep, ExpireEffect, CloseLaterEffect DEF Timer, Rest
  <2> QED BY <1>3, <2>1
<1> QED BY <1>4, <1>5, <1>6, <1>7, <1>8, NextSplit

-----------------------------------------------------------------------------
(* What Course says of one worker.                                         *)
CourseOf(stage, l) ==
    /\ l.op = "write" => l.mode = "app"
    /\ stage \notin {"idle", "close", "end"} => l.mode # "none"
    /\ stage \in {"open", "asleep"} =>
         l.next \in (IF l.op = "write" THEN {"add", "write"} ELSE {"add", "close"})
    /\ stage \in {"write", "finish"} => l.op = "write"
    /\ stage \in {"empty", "close"} => l.op # "write"
    /\ stage = "empty" => l.next = "close"

(* Every step follows the course of its operation.                         *)
LEMMA CourseStep ==
    ASSUME Inv, Next
    PROVE  Course'
<1>0. \A w \in Workers : CourseOf(pc[w], loc[w])
  BY DEF Inv, Course, CourseOf
<1>1. ASSUME NEW w \in Workers, Others(w), CourseOf(pc'[w], loc'[w])
      PROVE  Course'
  <2>1. \A v \in Workers : CourseOf(pc'[v], loc'[v])
    BY <1>0, <1>1 DEF Others
  <2> QED BY <2>1 DEF Course, CourseOf
<1>2. ASSUME NEW w \in Workers, Start(w) PROVE Course'
  <2>1. PICK r \in Operations : Started(w, r)
    BY <1>2, StartEffect
  <2>2. CourseOf(pc'[w], loc'[w])
    BY <2>1 DEF Started, CourseOf
  <2>3. \A v \in Workers : v # w => CourseOf(pc'[v], loc'[v])
    BY <1>0, <2>1 DEF Started, CourseOf
  <2> QED BY <2>2, <2>3 DEF Course, CourseOf
<1>3. ASSUME NEW w \in Workers, Get(w) PROVE Course'
  <2>1. pc[w] = "get" /\ CourseOf(pc[w], loc[w])
    BY <1>0, <1>3, GetEffect
  <2>2. CASE Uses(w, map[loc[w].path])
    BY <1>1, <2>1, <2>2 DEF Uses, SameCall, CourseOf
  <2>3. CASE Creates(w, NumPaths + loc[w].number)
    BY <1>1, <2>1, <2>3 DEF Creates, SameCall, CourseOf
  <2> QED BY <1>3, <2>2, <2>3, GetEffect
<1>4. ASSUME NEW w \in Workers, Opening(w) PROVE Course'
  <2>1. pc[w] \in {"open", "asleep"} /\ CourseOf(pc[w], loc[w]) /\ SameOpen(w)
    BY <1>0, <1>4, OpenEffect, ZenonT(30) DEF Opening
  <2>2. pc'[w] \in {pc[w], "asleep", loc[w].next}
    BY <1>4, OpenEffect, ZenonT(30) DEF Opening, Waits, Passes, OpensAgain, Opens
  <2>3. pc'[w] \in {pc[w], "asleep"} => loc'[w].mode = loc[w].mode
    BY <1>4, <2>1, OpenEffect, ZenonT(30) DEF Opening, Waits, Passes, OpensAgain, Opens, SameOpen, CourseOf
  <2>4. CourseOf(pc'[w], loc'[w])
    BY <2>1, <2>2, <2>3, ZenonT(30) DEF SameOpen, SameCall, CourseOf
  <2> QED BY <1>1, <2>1, <2>4 DEF SameOpen
<1>5. ASSUME NEW w \in Workers, Add(w) PROVE Course'
  <2>1. Uses(w, loc[w].object) /\ CourseOf(pc[w], loc[w]) /\ pc[w] = "add"
    BY <1>0, <1>5, AddEffect, ZenonT(30)
  <2>2. CourseOf(pc'[w], loc'[w])
    BY <2>1, ZenonT(30) DEF Uses, SameCall, CourseOf
  <2> QED BY <1>1, <2>1, <2>2, ZenonT(30) DEF Uses
<1>6. ASSUME NEW w \in Workers, Write(w) \/ Finish(w) \/ Empty(w) \/ Close(w) PROVE Course'
  <2>1. /\ loc'[w] = loc[w] /\ Others(w) /\ CourseOf(pc[w], loc[w])
        /\ \/ pc[w] = "write" /\ pc'[w] = "finish"
           \/ pc'[w] = "end"
           \/ pc[w] = "empty" /\ pc'[w] = "open" /\ Empty(w)
    BY <1>0, <1>6, WriteEffect, FinishEffect, EmptyEffect, CloseEffect, ZenonT(30) DEF GoesTo
  <2> QED BY <1>1, <2>1, ZenonT(30) DEF CourseOf
<1>7. ASSUME NEW w \in Workers, End(w) PROVE Course'
  <2>1. pc'[w] = "idle" /\ loc'[w] = Unused /\ Others(w)
    BY <1>7, EndEffect DEF Moves, Others
  <2>2. CourseOf("idle", Unused)
    BY DEF Unused, CourseOf
  <2> QED BY <1>1, <2>1, <2>2, ZenonT(30)
<1>8. CASE Timer
  <2>1. UNCHANGED <<pc, loc>>
    BY <1>8, ExpireEffect, CloseLaterEffect, ZenonT(30) DEF Timer
  <2> QED BY <1>0, <2>1 DEF Course, CourseOf
<1> QED BY <1>2, <1>3, <1>4, <1>5, <1>6, <1>7, <1>8, NextSplit

(* No step but a close of its own object sets read_cached_.                *)
LEMMA CachedKept ==
    ASSUME Inv
    PROVE  /\ \A w \in Workers : Start(w) \/ Opening(w) \/ Add(w) \/ Write(w)
                                 \/ Finish(w) \/ Empty(w) \/ End(w) =>
                \A x \in Objects : file'[x].cached = file[x].cached
           /\ \A w \in Workers : Close(w) =>
                \A x \in Objects : x # loc[w].object => file'[x].cached = file[x].cached
           /\ Timer => \A x \in Objects : file'[x].cached = file[x].cached
<1>1. ASSUME NEW w \in Workers, Start(w) PROVE \A x \in Objects : file'[x].cached = file[x].cached
  BY <1>1, StartEffect
<1>2. ASSUME NEW w \in Workers, Opening(w) PROVE \A x \in Objects : file'[x].cached = file[x].cached
  <2>1. file' = file \/ Touches(loc[w].object)
    BY <1>2, OpenEffect, ZenonT(30) DEF Opening, Waits, Passes, OpensAgain, Opens
  <2> QED BY <2>1 DEF Touches
<1>3. ASSUME NEW w \in Workers, Add(w) PROVE \A x \in Objects : file'[x].cached = file[x].cached
  <2>1. file' = file \/ Destroys(map[loc[w].path])
    BY <1>3, AddEffect
  <2> QED BY <2>1, ClosesOne DEF Destroys
<1>4. ASSUME NEW w \in Workers, Write(w) PROVE \A x \in Objects : file'[x].cached = file[x].cached
  BY <1>4, WriteEffect, ZenonT(30) DEF Writes
<1>5. ASSUME NEW w \in Workers, Finish(w) PROVE \A x \in Objects : file'[x].cached = file[x].cached
  <2>1. \/ Times(loc[w].object)
        \/ /\ Closes(loc[w].object)
           /\ file'[loc[w].object].cached = file[loc[w].object].cached
    BY <1>5, FinishEffect, ZenonT(30)
  <2> QED BY <2>1, ClosesOne, ZenonT(30) DEF Times
<1>6. ASSUME NEW w \in Workers, Empty(w) PROVE \A x \in Objects : file'[x].cached = file[x].cached
  BY <1>6, EmptyEffect, ClosesOne
<1>7. ASSUME NEW w \in Workers, End(w) PROVE \A x \in Objects : file'[x].cached = file[x].cached
  <2>1. file' = file \/ Destroys(loc[w].object)
    BY <1>7, EndEffect
  <2> QED BY <2>1, ClosesOne DEF Destroys
<1>8. ASSUME NEW w \in Workers, Close(w)
      PROVE  \A x \in Objects : x # loc[w].object => file'[x].cached = file[x].cached
  BY <1>8, CloseEffect, ClosesOne
<1>9. ASSUME Timer PROVE \A x \in Objects : file'[x].cached = file[x].cached
  <2>1. PICK o \in Objects : Expire(o) \/ CloseLater(o)
    BY <1>9 DEF Timer
  <2>2. Times(o) \/ (Closes(o) /\ file'[o].cached = file[o].cached)
    BY <2>1, ExpireEffect, CloseLaterEffect
  <2> QED BY <2>2, ClosesOne DEF Times
<1> QED BY <1>1, <1>2, <1>3, <1>4, <1>5, <1>6, <1>7, <1>8, <1>9, ZenonT(30)

(* Every step leaves an object to the worker that constructs it.           *)
LEMMA PrivateStep ==
    ASSUME Inv, Next
    PROVE  Private'
<1>0. Private /\ Located /\ map \in [Paths -> Objects \cup {None}]
  BY DEF Inv, TypeOK
<1>1. \A v \in Workers : Constructs(v) =>
        Holds(v) /\ loc[v].object \in Objects /\ loc[v].path \in Paths
        /\ file[loc[v].object].path = loc[v].path
  BY Holding DEF Constructs, Holds
<1>2. ASSUME NEW w \in Workers, Continues(w), Holds(w), map' = map, Constructs(w)' => Constructs(w),
             \A x \in Objects : x = loc[w].object \/ file'[x].cached = file[x].cached,
             Constructs(w)' => file'[loc[w].object].cached = file[loc[w].object].cached
      PROVE  Private'
  <2>1. ASSUME NEW v \in Workers, Constructs(v)'
        PROVE  /\ map'[loc'[v].path] # loc'[v].object /\ ~file'[loc'[v].object].cached
               /\ \A u \in Workers : u # v /\ Holds(u)' => loc'[u].object # loc'[v].object
    <3>1. Constructs(v) /\ loc'[v].path = loc[v].path /\ loc'[v].object = loc[v].object
      BY <1>2, <2>1 DEF Continues, SameCall, Others, Constructs
    <3>2. /\ map[loc[v].path] # loc[v].object /\ ~file[loc[v].object].cached
          /\ \A u \in Workers : u # v /\ Holds(u) => loc[u].object # loc[v].object
      BY <1>0, <3>1, ZenonT(30) DEF Private
    <3>3. \A u \in Workers : Holds(u)' => Holds(u) /\ loc'[u].object = loc[u].object
      BY <1>2, ZenonT(30) DEF Continues, Others, Holds
    <3>4. file'[loc[v].object].cached = file[loc[v].object].cached
      <4>1. CASE v = w
        BY <1>2, <2>1, <4>1
      <4>2. CASE v # w
        BY <1>1, <1>2, <3>1, <3>2, <4>2, ZenonT(30)
      <4> QED BY <4>1, <4>2
    <3> QED BY <1>2, <3>1, <3>2, <3>3, <3>4, ZenonT(30)
  <2> QED BY <2>1 DEF Private
<1>3. ASSUME NEW w \in Workers, Opening(w) \/ Write(w) \/ Finish(w) \/ Empty(w) \/ Close(w)
      PROVE  Private'
  <2>1. Continues(w) /\ Holds(w) /\ (map' = map \/ Add(w))
    BY <1>3, ContinuesStep
  <2>2. map' = map
    BY <1>3, OpenEffect, WriteEffect, FinishEffect, EmptyEffect, CloseEffect, ZenonT(30) DEF Opening, Rest
  <2>3. Constructs(w)' => Constructs(w)
    <3>1. CASE Opening(w)
      <4>1. /\ pc[w] \in {"open", "asleep"} /\ loc'[w].next = loc[w].next
            /\ pc'[w] \in {pc[w], "asleep", loc[w].next}
        BY <3>1, OpenEffect, ZenonT(30) DEF Opening, SameOpen, Waits, Passes, OpensAgain, Opens
      <4> QED BY <4>1 DEF Constructs
    <3>2. CASE Write(w) \/ Finish(w) \/ Close(w)
      BY <3>2, WriteEffect, FinishEffect, CloseEffect, ZenonT(30) DEF GoesTo, Constructs
    <3>3. CASE Empty(w)
      BY <3>3, EmptyEffect, ZenonT(30) DEF GoesTo, Constructs, Inv, Course
    <3> QED BY <1>3, <3>1, <3>2, <3>3
  <2>4. /\ \A x \in Objects : x = loc[w].object \/ file'[x].cached = file[x].cached
        /\ Constructs(w)' => file'[loc[w].object].cached = file[loc[w].object].cached
    <3>1. loc[w].object \in Objects
      BY <2>1, Holding
    <3>2. CASE Opening(w) \/ Write(w) \/ Finish(w) \/ Empty(w)
      BY <3>1, <3>2, CachedKept, ZenonT(30)
    <3>3. CASE Close(w)
      BY <3>3, CachedKept, CloseEffect, ZenonT(30) DEF GoesTo, Constructs
    <3> QED BY <1>3, <3>2, <3>3, ZenonT(30)
  <2> QED BY <1>2, <2>1, <2>2, <2>3, <2>4
<1>4. ASSUME NEW w \in Workers, Add(w) PROVE Private'
  <2>1. /\ map' = [map EXCEPT ![loc[w].path] = loc[w].object] /\ pc[w] = "add"
        /\ Uses(w, loc[w].object) /\ Holds(w) /\ \A x \in Objects : file'[x].cached = file[x].cached
    BY <1>4, AddEffect, CachedKept, ZenonT(30) DEF Holds
  <2>2. ~Constructs(w)'
    BY <2>1, ZenonT(30) DEF Uses, Constructs
  <2>3. ASSUME NEW v \in Workers, Constructs(v)'
        PROVE  /\ map'[loc'[v].path] # loc'[v].object /\ ~file'[loc'[v].object].cached
               /\ \A u \in Workers : u # v /\ Holds(u)' => loc'[u].object # loc'[v].object
    <3>1. v # w /\ Constructs(v) /\ loc'[v] = loc[v]
      BY <2>1, <2>2, <2>3, ZenonT(30) DEF Uses, Others, Constructs
    <3>2. /\ map[loc[v].path] # loc[v].object /\ ~file[loc[v].object].cached
          /\ \A u \in Workers : u # v /\ Holds(u) => loc[u].object # loc[v].object
      BY <1>0, <3>1 DEF Private
    <3>3. \A u \in Workers : Holds(u)' => Holds(u) /\ loc'[u].object = loc[u].object
      BY <2>1 DEF Uses, Others, Holds
    <3>4. map'[loc[v].path] # loc[v].object
      BY <1>0, <1>1, <2>1, <3>1, <3>2
    <3> QED BY <1>1, <2>1, <3>1, <3>2, <3>3, <3>4, ZenonT(30)
  <2> QED BY <2>3 DEF Private
<1>5. ASSUME NEW w \in Workers, Start(w) PROVE Private'
  <2>1. PICK r \in Operations : Started(w, r)
    BY <1>5, StartEffect
  <2>2. pc[w] = "idle" /\ UNCHANGED <<map, file>>
    BY <1>5, StartEffect
  <2>3. \A v \in Workers : Constructs(v)' =>
          v # w /\ Constructs(v) /\ loc'[v].path = loc[v].path /\ loc'[v].object = loc[v].object
    BY <2>1 DEF Started, Constructs
  <2>4. \A v \in Workers : Holds(v)' => Holds(v) /\ loc'[v].object = loc[v].object
    BY <2>1 DEF Started, Holds
  <2> QED BY <1>0, <2>2, <2>3, <2>4, ZenonT(30) DEF Private
<1>6. ASSUME NEW w \in Workers, Get(w) PROVE Private'
  <2>0. map' = map /\ pc[w] = "get" /\ loc[w].path \in Paths
    BY <1>6, GetEffect
  <2>1. CASE map[loc[w].path] \in Objects /\ Uses(w, map[loc[w].path]) /\ file' = file
    <3>1. /\ ~Constructs(w)' /\ Others(w) /\ loc'[w].object = map[loc[w].path]
      BY <2>1 DEF Uses, Constructs
    <3>2. \A v \in Workers : Constructs(v)' => v # w /\ Constructs(v) /\ loc'[v] = loc[v]
      BY <3>1 DEF Others, Constructs
    <3>3. map[loc[w].path] # None /\ file[map[loc[w].path]].path = loc[w].path
      BY <1>0, <2>0, <2>1 DEF Located, Objects, None
    <3>4. \A v \in Workers : Constructs(v) => loc[v].object # map[loc[w].path]
      BY <1>0, <1>1, <3>3 DEF Private
    <3>5. \A u \in Workers : u # w => Holds(u)' = Holds(u) /\ loc'[u] = loc[u]
      BY <3>1 DEF Others, Holds
    <3> QED BY <1>0, <2>0, <2>1, <3>1, <3>2, <3>4, <3>5, ZenonT(30) DEF Private
  <2>2. CASE Creates(w, NumPaths + loc[w].number) /\ map[loc[w].path] = None
    <3>1. PICK o \in Objects :
             /\ ~file'[o].cached /\ loc'[w].object = o
             /\ \A x \in Objects : x # o => file'[x] = file[x]
             /\ \A v \in Workers : Holds(v) => loc[v].object # o
      BY <1>6, <2>2, CreatesNew
    <3>2. loc'[w].path = loc[w].path /\ Others(w)
      BY <2>2 DEF Creates, SameCall
    <3>3. \A v \in Workers : v # w =>
            /\ Constructs(v)' = Constructs(v) /\ Holds(v)' = Holds(v) /\ loc'[v] = loc[v]
      BY <3>2 DEF Others, Constructs, Holds
    <3>4. None # o
      BY DEF None, Objects
    <3>5. ASSUME NEW v \in Workers, Constructs(v)'
          PROVE  /\ map'[loc'[v].path] # loc'[v].object /\ ~file'[loc'[v].object].cached
                 /\ \A u \in Workers : u # v /\ Holds(u)' => loc'[u].object # loc'[v].object
      <4>1. CASE v = w
        BY <2>0, <2>2, <3>1, <3>2, <3>3, <3>4, <4>1
      <4>2. CASE v # w
        <5>1. Constructs(v) /\ Holds(v) /\ loc'[v] = loc[v] /\ loc[v].object \in Objects
          BY <1>1, <3>3, <3>5, <4>2
        <5>2. loc[v].object # o /\ file'[loc[v].object] = file[loc[v].object]
          BY <3>1, <5>1
        <5>3. /\ map[loc[v].path] # loc[v].object /\ ~file[loc[v].object].cached
              /\ \A u \in Workers : u # v /\ Holds(u) => loc[u].object # loc[v].object
          BY <1>0, <5>1 DEF Private
        <5>4. \A u \in Workers : u # v /\ Holds(u)' => loc'[u].object # loc[v].object
          BY <3>1, <3>3, <5>2, <5>3, ZenonT(30)
        <5> QED BY <2>0, <5>1, <5>2, <5>3, <5>4, ZenonT(30)
      <4> QED BY <4>1, <4>2
    <3> QED BY <3>5 DEF Private
  <2> QED BY <1>6, <2>1, <2>2, GetEffect
<1>7. ASSUME NEW w \in Workers, End(w) PROVE Private'
  <2>1. /\ Moves(w, "idle", Unused) /\ map' = map
        /\ \A x \in Objects : file'[x].cached = file[x].cached
    BY <1>7, EndEffect, CachedKept, ZenonT(30) DEF Rest
  <2>2. \A v \in Workers : /\ Constructs(v)' => Constructs(v) /\ loc'[v] = loc[v]
                           /\ Holds(v)' => Holds(v) /\ loc'[v] = loc[v]
    BY <2>1 DEF Moves, Constructs, Holds
  <2> QED BY <1>0, <1>1, <2>1, <2>2, ZenonT(30) DEF Private
<1>8. CASE Timer
  <2>1. UNCHANGED <<pc, loc, map>> /\ \A x \in Objects : file'[x].cached = file[x].cached
    BY <1>8, ExpireEffect, CloseLaterEffect, CachedKept, ZenonT(30) DEF Timer, Rest
  <2> QED BY <1>0, <1>1, <2>1 DEF Private, Constructs, Holds
<1> QED BY <1>3, <1>4, <1>5, <1>6, <1>7, <1>8, NextSplit
=============================================================================
