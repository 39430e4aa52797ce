--------------------------- MODULE SafeFileProofs ---------------------------
(***************************************************************************)
(* That the limit of open files is respected and that a write nobody       *)
(* disturbs is kept, for every set of workers, paths and operations, for   *)
(* every limit, and with the sockets that the same workers write to.       *)
(***************************************************************************)
EXTENDS SafeSocket, SafeFileSteps

(* Some leaves need more than the default time of the provers.             *)
USE SMTT(30), ZenonT(30)

-----------------------------------------------------------------------------
(* Every step leaves somebody to close a stream that is open.              *)
LEMMA WillCloseStep ==
    ASSUME Inv, Next
    PROVE  WillClose'
<1>0. WillClose
  BY DEF Inv
<1>1. ASSUME NEW w \in Workers, Continues(w), Holds(w)'
      PROVE  \A x \in Objects : Watched(x) /\ (pc'[w] # "end" \/ x # loc[w].object) => Watched(x)'
  <2>1. ASSUME NEW x \in Objects, NEW v \in Workers, Holds(v), pc[v] # "end", loc[v].object = x,
               pc'[w] # "end" \/ x # loc[w].object
        PROVE  Holds(v)' /\ pc'[v] # "end" /\ loc'[v].object = x
    BY <1>1, <2>1 DEF Continues, Others, Holds
  <2> QED BY <2>1 DEF Watched
<1>2. ASSUME \A x \in Objects : file'[x].stream # "closed" =>
               \/ file'[x].armed \/ file'[x].expired > 0 \/ Watched(x)'
               \/ file[x].stream # "closed" /\ (Watched(x) => Watched(x)')
                  /\ file'[x].armed = file[x].armed /\ file'[x].expired = file[x].expired
      PROVE  WillClose'
  BY <1>0, <1>2 DEF WillClose, IsOpen, Timed
<1>3. ASSUME NEW w \in Workers, Opening(w) PROVE WillClose'
  <2>1. Continues(w) /\ Holds(w)'
    BY <1>3, ContinuesStep
  <2>2. pc'[w] # "end" /\ pc[w] \in {"open", "asleep"}
    BY <1>3, OpenEffect, ZenonT(30) DEF Opening, Waits, Passes, OpensAgain, Opens, Inv, Course
  <2>3. \A x \in Objects : Watched(x) => Watched(x)'
    BY <1>1, <2>1, <2>2, ZenonT(30)
  <2>4. CASE file' = file
    BY <1>2, <2>3, <2>4
  <2>5. CASE OpensAgain(w)
    BY <1>2, <2>3, <2>5, ZenonT(30) DEF OpensAgain, Touches
  <2>6. CASE Opens(w)
    <3>1. PICK o \in Objects : o = loc[w].object
      BY <1>3, OpenEffect, Holding DEF Opening, Holds
    <3>2. Watched(o)'
      BY <2>1, <2>2, <3>1 DEF Watched, Continues
    <3>3. \A x \in Objects : x # o => file'[x] = file[x]
      BY <2>6, <3>1 DEF Opens, Touches
    <3> QED BY <1>2, <2>3, <3>2, <3>3
  <2> QED BY <1>3, <2>4, <2>5, <2>6, OpenEffect DEF Opening, Waits, Passes
<1>4. ASSUME NEW w \in Workers, Add(w) PROVE WillClose'
  <2>1. Continues(w) /\ Holds(w)' /\ Uses(w, loc[w].object) /\ pc[w] = "add"
    BY <1>4, ContinuesStep, AddEffect, ZenonT(30)
  <2>2. pc'[w] # "end"
    BY <2>1, ZenonT(30) DEF Uses, Inv, Private, Constructs
  <2>3. \A x \in Objects : Watched(x) => Watched(x)'
    BY <1>1, <2>1, <2>2
  <2>4. CASE file' = file
    BY <1>2, <2>3, <2>4
  <2>5. CASE Destroys(map[loc[w].path])
    <3>1. \A x \in Objects : file'[x].stream = "closed" \/ file'[x] = file[x]
      BY <2>5, ClosesOne DEF Destroys
    <3> QED BY <1>2, <2>3, <3>1
  <2> QED BY <1>4, <2>4, <2>5, AddEffect
<1>5. ASSUME NEW w \in Workers, Write(w) PROVE WillClose'
  <2>1. Continues(w) /\ Holds(w)' /\ pc'[w] # "end"
    BY <1>5, ContinuesStep, WriteEffect, ZenonT(30) DEF GoesTo
  <2>2. \A x \in Objects : Watched(x) => Watched(x)'
    BY <1>1, <2>1
  <2> QED BY <1>2, <1>5, <2>2, WriteEffect, ZenonT(30) DEF Writes
<1>6. ASSUME NEW w \in Workers, Finish(w) \/ Empty(w) \/ Close(w) PROVE WillClose'
  <2>1. Continues(w) /\ Holds(w)'
    BY <1>6, ContinuesStep
  <2>2. PICK o \in Objects : o = loc[w].object
    BY <1>6, ContinuesStep, Holding, ZenonT(30)
  <2>3. \A x \in Objects : x # o => (Watched(x) => Watched(x)')
    BY <1>1, <2>1, <2>2
  <2>4. CASE Closes(o)
    <3>1. file'[o].stream = "closed" /\ \A x \in Objects : x # o => file'[x] = file[x]
      BY <2>4, ClosesOne
    <3> QED BY <1>2, <2>3, <3>1
  <2>5. CASE Times(o)
    <3>1. /\ file'[o].armed \/ file'[o].expired > 0
          /\ \A x \in Objects : x # o => file'[x] = file[x]
      BY <2>5 DEF Times
    <3> QED BY <1>2, <2>3, <3>1
  <2> QED BY <1>6, <2>2, <2>4, <2>5, FinishEffect, EmptyEffect, CloseEffect, ZenonT(30)
<1>7. ASSUME NEW w \in Workers, End(w) PROVE WillClose'
  <2>1. pc[w] = "end" /\ Moves(w, "idle", Unused)
    BY <1>7, EndEffect
  <2>2. \A x \in Objects : Watched(x) => Watched(x)'
    <3>1. \A v \in Workers : Holds(v) /\ pc[v] # "end" =>
            Holds(v)' /\ pc'[v] = pc[v] /\ loc'[v] = loc[v]
      BY <2>1 DEF Moves, Holds
    <3> QED BY <3>1 DEF Watched
  <2>3. \A x \in Objects : file'[x].stream = "closed" \/ file'[x] = file[x]
    BY <1>7, EndEffect, ClosesOne DEF Destroys
  <2> QED BY <1>2, <2>2, <2>3
<1>8. ASSUME NEW w \in Workers, Start(w) \/ Get(w) PROVE WillClose'
  <2>1. \A v \in Workers : Holds(v) =>
          Holds(v)' /\ pc'[v] = pc[v] /\ loc'[v].object = loc[v].object
    <3>1. CASE Start(w)
      <4>1. pc[w] = "idle" /\ \E r \in Operations : Started(w, r)
        BY <3>1, StartEffect
      <4> QED BY <4>1 DEF Started, Holds
    <3>2. CASE Get(w)
      <4>1. pc[w] = "get" /\ Others(w)
        BY <3>2, GetMoves
      <4> QED BY <4>1 DEF Others, Holds
    <3> QED BY <1>8, <3>1, <3>2
  <2>2. \A x \in Objects : Watched(x) => Watched(x)'
    BY <2>1 DEF Watched
  <2>3. CASE file' = file
    BY <1>2, <2>2, <2>3
  <2>4. CASE Get(w) /\ Creates(w, NumPaths + loc[w].number)
    <3>1. \A x \in Objects : file'[x].stream = "closed" \/ file'[x] = file[x]
      BY <2>4, CreatesNew
    <3> QED BY <1>2, <2>2, <3>1
  <2> QED BY <1>8, <2>3, <2>4, StartEffect, GetEffect, ZenonT(30)
<1>9. CASE Timer
  <2>1. PICK o \in Objects : Expire(o) \/ CloseLater(o)
    BY <1>9 DEF Timer
  <2>2. UNCHANGED <<pc, loc>> /\ (Times(o) \/ Closes(o))
    BY <2>1, ExpireEffect, CloseLaterEffect
  <2>3. \A x \in Objects : Watched(x) => Watched(x)'
    BY <2>2 DEF Watched, Holds
  <2>4. \A x \in Objects : \/ file'[x].stream = "closed" \/ file'[x] = file[x]
                           \/ file'[x].armed \/ file'[x].expired > 0
    BY <2>2, ClosesOne DEF Times
  <2> QED BY <1>2, <2>3, <2>4
<1> QED BY <1>3, <1>4, <1>5, <1>6, <1>7, <1>8, <1>9, NextSplit

(* A worker changes no object but those of its path, and plans to close    *)
(* only at the end of a write.                                             *)
LEMMA TouchesOwnPath ==
    ASSUME Inv, NEW w \in Workers, Next,
           \/ Start(w) \/ Get(w) \/ Opening(w) \/ Add(w) \/ Write(w)
           \/ Finish(w) \/ Empty(w) \/ Close(w) \/ End(w)
    PROVE  \A x \in Objects : file'[x] = file[x] \/ file[x].path \in {None, loc[w].path}
<1>1. CASE Start(w)
  BY <1>1, StartEffect
<1>2. CASE Get(w)
  <2>1. CASE Creates(w, NumPaths + loc[w].number)
    BY <1>2, <2>1, CreatesNew
  <2> QED BY <1>2, <2>1, GetEffect
<1>3. CASE Add(w)
  <2>1. CASE Destroys(map[loc[w].path]) /\ map[loc[w].path] \in Objects
    <3>1. loc[w].path \in Paths
      BY <1>3, AddEffect, Holding DEF Holds
    <3>2. file[map[loc[w].path]].path = loc[w].path
      BY <2>1, <3>1 DEF Inv, Located, Objects, None
    <3> QED BY <2>1, <3>2, ClosesOne DEF Destroys
  <2> QED BY <1>3, <2>1, AddEffect
<1>4. CASE Opening(w) \/ Write(w) \/ Finish(w) \/ Empty(w) \/ Close(w) \/ End(w)
  <2>1. PICK o \in Objects : o = loc[w].object /\ file[o].path = loc[w].path
    BY <1>4, ContinuesStep, EndEffect, Holding DEF Holds
  <2>2. CASE Closes(o)
    BY <2>1, <2>2, ClosesOne
  <2>3. CASE Touches(o)
    BY <2>1, <2>3 DEF Touches
  <2>4. CASE Times(o)
    BY <2>1, <2>4 DEF Times
  <2>5. CASE Writes(w, o)
    BY <2>1, <2>5 DEF Writes
  <2>6. CASE Opening(w)
    BY <2>1, <2>3, <2>6, OpenEffect, ZenonT(30) DEF Opening, Waits, Passes, OpensAgain, Opens
  <2>7. CASE Write(w) \/ Finish(w) \/ Empty(w) \/ Close(w) \/ End(w)
    BY <2>1, <2>2, <2>4, <2>5, <2>7, WriteEffect, FinishEffect, EmptyEffect, CloseEffect, EndEffect, ZenonT(30)
       DEF Destroys
  <2> QED BY <1>4, <2>6, <2>7
<1> QED BY <1>1, <1>2, <1>3, <1>4

TimersKept ==
    \A x \in Objects : file'[x].armed \/ file'[x].expired > 0 =>
      Timed(x) /\ file'[x].path = file[x].path

(* Only Finish sets a timer.                                               *)
LEMMA TimersKeptStep ==
    ASSUME Inv, NEW w \in Workers,
           \/ Start(w) \/ Get(w) \/ Opening(w) \/ Add(w) \/ Write(w)
           \/ Empty(w) \/ Close(w) \/ End(w)
    PROVE  TimersKept
<1>1. CASE file' = file
  BY <1>1 DEF TimersKept, Timed
<1>2. CASE Get(w) /\ Creates(w, NumPaths + loc[w].number)
  <2>1. PICK o \in Objects : /\ ~file'[o].armed /\ file'[o].expired = 0
                             /\ \A x \in Objects : x # o => file'[x] = file[x]
    BY <1>2, CreatesNew
  <2> QED BY <2>1 DEF TimersKept, Timed
<1>3. ASSUME NEW o, Destroys(o) PROVE TimersKept
  <2>1. /\ ~file'[o].armed /\ file'[o].expired = 0
        /\ \A x \in Objects : x # o => file'[x] = file[x]
    BY <1>3, ClosesOne DEF Destroys
  <2> QED BY <2>1 DEF TimersKept, Timed
<1>4. ASSUME NEW o, Touches(o) PROVE TimersKept
  BY <1>4 DEF TimersKept, Touches, Timed
<1>5. ASSUME NEW o, Closes(o), SameTimer(o) PROVE TimersKept
  BY <1>5, ClosesOne DEF TimersKept, SameTimer, Timed
<1>6. CASE Opening(w)
  BY <1>1, <1>4, <1>6, OpenEffect DEF Opening, Waits, Passes, OpensAgain, Opens
<1>7. CASE Write(w)
  BY <1>7, WriteEffect DEF Writes, TimersKept, Timed
<1>8. CASE Add(w) \/ End(w)
  BY <1>1, <1>3, <1>8, AddEffect, EndEffect, ZenonT(30)
<1>9. CASE Empty(w) \/ Close(w)
  BY <1>5, <1>9, EmptyEffect, CloseEffect, ZenonT(30)
<1>10. CASE Start(w) \/ Get(w)
  BY <1>1, <1>2, <1>10, StartEffect, GetEffect
<1> QED BY <1>6, <1>7, <1>8, <1>9, <1>10

(* Every step leaves a worker alone, or takes note that it is not.         *)
LEMMA AloneStep ==
    ASSUME Inv, Next
    PROVE  Alone'
<1>0. Alone
  BY DEF Inv
<1>1. ASSUME TimersKept,
             \A v \in Workers : Active(v)' =>
               /\ Active(v) /\ loc'[v].path = loc[v].path /\ loc'[v].alone = loc[v].alone
               /\ pc'[v] # "end" => pc[v] # "end"
      PROVE  Alone'
  <2>1. ASSUME NEW v \in Workers, Active(v)', loc'[v].alone
        PROVE  /\ \A u \in Workers : u # v /\ Active(u)' => loc'[u].path # loc'[v].path
               /\ pc'[v] # "end" =>
                    \A o \in Objects : file'[o].path = loc'[v].path =>
                      ~(file'[o].armed \/ file'[o].expired > 0)
    BY <1>0, <1>1, <2>1 DEF Alone, TimersKept
  <2> QED BY <2>1 DEF Alone, Timed
<1>2. ASSUME NEW w \in Workers, Opening(w) \/ Add(w) \/ Write(w) \/ Empty(w) \/ Close(w)
      PROVE  Alone'
  <2>1. TimersKept /\ Continues(w) /\ Holds(w)
    BY <1>2, TimersKeptStep, ContinuesStep
  <2>2. pc[w] # "end"
    BY <1>2, OpenEffect, AddEffect, WriteEffect, EmptyEffect, CloseEffect, ZenonT(30) DEF Opening
  <2> QED BY <1>1, <2>1, <2>2 DEF Continues, Others, SameCall, Active, Holds
<1>3. ASSUME NEW w \in Workers, Finish(w) PROVE Alone'
  <2>1. /\ Continues(w) /\ Holds(w) /\ pc'[w] = "end" /\ loc[w].object \in Objects
        /\ file[loc[w].object].path = loc[w].path
    BY <1>3, ContinuesStep, FinishEffect, Holding, ZenonT(30) DEF GoesTo
  <2>2. /\ \A x \in Objects : x # loc[w].object => file'[x] = file[x]
        /\ file'[loc[w].object].path = file[loc[w].object].path
    BY <1>3, FinishEffect, ClosesOne DEF Times
  <2>3. ASSUME NEW v \in Workers, Active(v)', loc'[v].alone
        PROVE  /\ \A u \in Workers : u # v /\ Active(u)' => loc'[u].path # loc'[v].path
               /\ pc'[v] # "end" =>
                    \A o \in Objects : file'[o].path = loc'[v].path => ~Timed(o)'
    <3>1. \A u \in Workers : Active(u)' => Active(u) /\ loc'[u].path = loc[u].path
      BY <2>1 DEF Continues, Others, SameCall, Active, Holds
    <3>2. Active(v) /\ loc[v].alone /\ loc'[v].path = loc[v].path
      BY <2>1, <2>3 DEF Continues, Others, SameCall, Active, Holds
    <3>3. \A u \in Workers : u # v /\ Active(u) => loc[u].path # loc[v].path
      BY <1>0, <3>2 DEF Alone
    <3>4. ASSUME pc'[v] # "end", NEW o \in Objects, file'[o].path = loc'[v].path
          PROVE  ~Timed(o)'
      <4>1. v # w /\ pc[v] # "end" /\ loc[w].path # loc[v].path
        BY <2>1, <3>3, <3>4 DEF Continues, Others, Active, Holds
      <4>2. file'[o] = file[o] /\ file[o].path = loc[v].path
        BY <2>1, <2>2, <3>2, <3>4, <4>1
      <4> QED BY <1>0, <3>2, <4>1, <4>2 DEF Alone, Timed
    <3> QED BY <3>1, <3>2, <3>3, <3>4
  <2> QED BY <2>3 DEF Alone
<1>4. ASSUME NEW w \in Workers, Get(w) PROVE Alone'
  <2>1. TimersKept /\ pc[w] = "get" /\ SameCall(w) /\ Others(w)
    BY <1>4, TimersKeptStep, GetMoves
  <2> QED BY <1>1, <2>1 DEF Others, SameCall, Active
<1>5. ASSUME NEW w \in Workers, End(w) PROVE Alone'
  <2>1. TimersKept /\ Moves(w, "idle", Unused)
    BY <1>5, TimersKeptStep, EndEffect
  <2> QED BY <1>1, <2>1 DEF Moves, Active
<1>6. ASSUME NEW w \in Workers, Start(w) PROVE Alone'
  <2>1. PICK r \in Operations : Started(w, r)
    BY <1>6, StartEffect
  <2>2. file' = file /\ pc[w] = "idle"
    BY <1>6, StartEffect
  <2>3. ASSUME NEW v \in Workers, Active(v)', loc'[v].alone
        PROVE  /\ \A u \in Workers : u # v /\ Active(u)' => loc'[u].path # loc'[v].path
               /\ pc'[v] # "end" =>
                    \A o \in Objects : file'[o].path = loc'[v].path => ~Timed(o)'
    <3>1. CASE v = w
      BY <2>1, <2>2, <2>3, <3>1 DEF Started, Active, Timed
    <3>2. CASE v # w
      <4>1. /\ Active(v) /\ loc[v].alone /\ loc'[v].path = loc[v].path /\ pc'[v] = pc[v]
            /\ loc[v].path # r.path
        BY <2>1, <2>3, <3>2 DEF Started, Active
      <4>2. \A u \in Workers : u # v /\ Active(u)' => loc'[u].path # loc[v].path
        BY <1>0, <2>1, <4>1 DEF Started, Active, Alone
      <4>3. pc[v] # "end" => \A o \in Objects : file[o].path = loc[v].path => ~Timed(o)
        BY <1>0, <4>1 DEF Alone
      <4> QED BY <2>2, <4>1, <4>2, <4>3 DEF Timed
    <3> QED BY <3>1, <3>2
  <2> QED BY <2>3 DEF Alone
<1>7. CASE Timer
  <2>1. PICK o \in Objects : Expire(o) \/ CloseLater(o)
    BY <1>7 DEF Timer
  <2>2. /\ UNCHANGED <<pc, loc>> /\ Timed(o) /\ file'[o].path = file[o].path
        /\ \A x \in Objects : x # o => file'[x] = file[x]
    BY <2>1, ExpireEffect, CloseLaterEffect, ClosesOne DEF Times, Timed
  <2>3. TimersKept
    BY <2>2 DEF TimersKept, Timed
  <2> QED BY <1>1, <2>2, <2>3 DEF Active
<1> QED BY <1>2, <1>3, <1>4, <1>5, <1>6, <1>7, NextSplit

(* What Undisturbed says of one worker and its object.                     *)
UndisturbedOf(stage, l, stream, failed) ==
    l.alone /\ l.op = "write" =>
      /\ stage = "open" => stream = "closed" \/ (stream = "app" /\ ~failed)
      /\ stage = "asleep" => stream = "closed"
      /\ stage \in {"add", "write"} => stream = "app" /\ ~failed

UndisturbedNow(v) ==
    UndisturbedOf(pc[v], loc[v], file[loc[v].object].stream, file[loc[v].object].failed)

(* Undisturbed, worker by worker.                                          *)
LEMMA UndisturbedAll ==
    /\ Undisturbed <=> \A v \in Workers : UndisturbedNow(v)
    /\ Undisturbed' <=> \A v \in Workers : UndisturbedNow(v)'
BY DEF Undisturbed, UndisturbedNow, UndisturbedOf

(* The object of a worker that is alone is not touched by another.         *)
LEMMA OthersUndisturbed ==
    ASSUME Inv, NEW v \in Workers, pc'[v] = pc[v], loc'[v].op = loc[v].op,
           loc'[v].object = loc[v].object, loc'[v].alone => loc[v].alone,
           Holds(v) /\ loc[v].alone /\ pc[v] # "end" => file'[loc[v].object] = file[loc[v].object]
    PROVE  UndisturbedNow(v)'
<1>1. UndisturbedNow(v)
  BY UndisturbedAll DEF Inv
<1>2. CASE ~(Holds(v) /\ loc[v].alone /\ pc[v] # "end")
  BY <1>2 DEF UndisturbedNow, UndisturbedOf, Holds
<1>3. CASE Holds(v) /\ loc[v].alone /\ pc[v] # "end"
  BY <1>1, <1>3 DEF UndisturbedNow, UndisturbedOf
<1> QED BY <1>2, <1>3

(* A worker's step does not disturb another that is alone.                 *)
LEMMA OthersOfStep ==
    ASSUME Inv, Next, NEW w \in Workers, NEW v \in Workers, v # w,
           \/ Start(w) \/ Get(w) \/ Opening(w) \/ Add(w) \/ Write(w)
           \/ Finish(w) \/ Empty(w) \/ Close(w) \/ End(w)
    PROVE  UndisturbedNow(v)'
<1>1. /\ pc'[v] = pc[v] /\ loc'[v].op = loc[v].op
      /\ loc'[v].object = loc[v].object /\ (loc'[v].alone => loc[v].alone)
  <2>1. CASE Start(w)
    <3>1. PICK r \in Operations : Started(w, r)
      BY <2>1, StartEffect
    <3> QED BY <3>1 DEF Started
  <2>2. ASSUME Others(w)
        PROVE  pc'[v] = pc[v] /\ loc'[v] = loc[v]
    BY <2>2 DEF Others
  <2>3. CASE Get(w)
    BY <2>2, <2>3, GetMoves, ZenonT(30)
  <2>4. CASE End(w)
    <3>1. Moves(w, "idle", Unused)
      BY <2>4, EndEffect, ZenonT(30)
    <3> QED BY <3>1 DEF Moves
  <2>5. CASE Opening(w) \/ Add(w) \/ Write(w) \/ Finish(w) \/ Empty(w) \/ Close(w)
    <3>1. Others(w)
      BY <2>5, ContinuesStep DEF Continues
    <3> QED BY <2>2, <3>1
  <2> QED BY <2>1, <2>3, <2>4, <2>5
<1>2. ASSUME Holds(v), loc[v].alone, pc[v] # "end"
      PROVE  file'[loc[v].object] = file[loc[v].object]
  <2>1. loc[v].object \in Objects /\ file[loc[v].object].path = loc[v].path /\ loc[v].path # None
    BY <1>2, Holding, NotNone
  <2>2. CASE Start(w)
    BY <2>2, StartEffect
  <2>3. CASE ~Start(w)
    <3>1. Active(w) /\ Active(v)
      BY <1>2, <2>3, GetMoves, ContinuesStep, EndEffect DEF Active, Holds
    <3>2. loc[w].path # loc[v].path
      BY <1>2, <3>1 DEF Inv, Alone
    <3> QED BY <2>1, <3>2, TouchesOwnPath
  <2> QED BY <2>2, <2>3
<1> QED BY <1>1, <1>2, OthersUndisturbed

(* Every step leaves the stream of a worker that is alone as that worker   *)
(* left it.                                                                *)
LEMMA UndisturbedStep ==
    ASSUME Inv, Next
    PROVE  Undisturbed'
<1>0. \A v \in Workers : UndisturbedNow(v)
  BY UndisturbedAll DEF Inv
<1>1. ASSUME NEW w \in Workers, UndisturbedNow(w)',
             \/ Start(w) \/ Get(w) \/ Opening(w) \/ Add(w) \/ Write(w)
             \/ Finish(w) \/ Empty(w) \/ Close(w) \/ End(w)
      PROVE  Undisturbed'
  BY <1>1, OthersOfStep, UndisturbedAll
<1>2. ASSUME NEW w \in Workers, pc'[w] \notin {"open", "asleep", "add", "write"}
      PROVE  UndisturbedNow(w)'
  BY <1>2 DEF UndisturbedNow, UndisturbedOf
<1>3. ASSUME NEW w \in Workers, loc'[w].op # "write" \/ ~loc'[w].alone
      PROVE  UndisturbedNow(w)'
  BY <1>3 DEF UndisturbedNow, UndisturbedOf
<1>4. ASSUME NEW w \in Workers, Get(w) PROVE Undisturbed'
  <2>0. pc[w] = "get" /\ loc[w].path \in Paths /\ loc'[w].op = loc[w].op /\ loc'[w].alone = loc[w].alone
    BY <1>4, GetEffect, GetMoves DEF SameCall
  <2>1. CASE map[loc[w].path] \in Objects /\ Uses(w, map[loc[w].path]) /\ file' = file
    <3>1. CASE loc[w].op = "write" /\ loc[w].alone
      <4>1. PICK o \in Objects : o = map[loc[w].path] /\ file[o].path = loc[w].path
        BY <2>0, <2>1 DEF Inv, Located, Objects, None
      <4>2. ~Timed(o)
        BY <2>0, <3>1, <4>1 DEF Inv, Alone, Active
      <4>3. ~Watched(o)
        <5>1. ASSUME NEW v \in Workers, Holds(v), loc[v].object = o PROVE FALSE
          <6>1. v # w /\ Active(v) /\ Active(w)
            BY <2>0, <5>1 DEF Holds, Active
          <6>2. loc[v].path = loc[w].path
            BY <4>1, <5>1, Holding
          <6> QED BY <3>1, <6>1, <6>2 DEF Inv, Alone
        <5> QED BY <5>1 DEF Watched
      <4>4. file[o].stream = "closed"
        BY <4>2, <4>3 DEF Inv, WillClose, IsOpen
      <4>5. pc'[w] \in {"empty", "open", "end"} /\ loc'[w].object = o
        BY <2>1, <4>1 DEF Uses
      <4>6. UndisturbedNow(w)'
        BY <2>1, <4>4, <4>5 DEF UndisturbedNow, UndisturbedOf
      <4> QED BY <1>1, <1>4, <4>6
    <3> QED BY <1>1, <1>3, <1>4, <2>0, <3>1
  <2>2. CASE Creates(w, NumPaths + loc[w].number)
    <3>1. file'[loc'[w].object].stream = "closed"
      BY <1>4, <2>2, CreatesNew
    <3>2. pc'[w] = "open"
      BY <2>2 DEF Creates
    <3>3. UndisturbedNow(w)'
      BY <3>1, <3>2 DEF UndisturbedNow, UndisturbedOf
    <3> QED BY <1>1, <1>4, <3>3
  <2> QED BY <1>4, <2>1, <2>2, GetEffect
<1>5. ASSUME NEW w \in Workers, Opening(w) PROVE Undisturbed'
  <2>0. /\ pc[w] \in {"open", "asleep"} /\ loc'[w].op = loc[w].op /\ loc'[w].alone = loc[w].alone
        /\ loc'[w].object = loc[w].object
    BY <1>5, OpenEffect DEF Opening, SameOpen, SameCall
  <2>1. CASE loc[w].op = "write" /\ loc[w].alone
    <3>1. /\ loc[w].mode = "app" /\ loc[w].next \in {"add", "write"} /\ UndisturbedNow(w)
      BY <1>0, <2>0, <2>1 DEF Inv, Course
    <3> DEFINE f == file[loc[w].object]
    <3>2. /\ pc[w] = "open" => f.stream = "closed" \/ (f.stream = "app" /\ ~f.failed)
          /\ pc[w] = "asleep" => f.stream = "closed"
      BY <2>1, <3>1 DEF UndisturbedNow, UndisturbedOf
    <3>3. CASE Waits(w)
      <4>1. /\ file'[loc'[w].object] = file[loc[w].object]
            /\ pc'[w] = pc[w] \/ (pc'[w] = "asleep" /\ f.stream = "closed")
        BY <2>0, <3>3 DEF Waits, IsOpen
      <4>2. UndisturbedNow(w)'
        BY <2>0, <2>1, <3>2, <4>1 DEF UndisturbedNow, UndisturbedOf
      <4> QED BY <1>1, <1>5, <4>2
    <3>4. CASE Passes(w)
      <4>1. file' = file /\ pc'[w] = loc[w].next /\ f.stream = "app" /\ ~f.failed
        BY <3>1, <3>2, <3>4 DEF Passes, IsOpen
      <4> QED BY <1>1, <1>5, <2>0, <3>1, <4>1 DEF UndisturbedNow, UndisturbedOf
    <3>5. CASE OpensAgain(w)
      BY <3>2, <3>5 DEF OpensAgain, IsOpen
    <3>6. CASE Opens(w)
      <4>1. /\ pc'[w] = loc[w].next /\ file'[loc[w].object].stream = "app"
            /\ ~file'[loc[w].object].failed
        BY <3>1, <3>6 DEF Opens
      <4> QED BY <1>1, <1>5, <2>0, <3>1, <4>1 DEF UndisturbedNow, UndisturbedOf
    <3> QED BY <1>5, <3>3, <3>4, <3>5, <3>6, OpenEffect DEF Opening
  <2> QED BY <1>1, <1>3, <1>5, <2>0, <2>1
<1>6. ASSUME NEW w \in Workers, Add(w) PROVE Undisturbed'
  <2>1. /\ pc[w] = "add" /\ loc[w].object \in Objects /\ map[loc[w].path] # loc[w].object
        /\ Uses(w, loc[w].object)
    BY <1>6, AddEffect, Holding, ZenonT(30) DEF Holds, Inv, Private, Constructs
  <2>2. file'[loc[w].object] = file[loc[w].object]
    BY <1>6, <2>1, AddEffect, ClosesOne DEF Destroys
  <2>3. /\ loc'[w].op = loc[w].op /\ loc'[w].alone = loc[w].alone /\ loc'[w].object = loc[w].object
        /\ pc'[w] \in {"empty", "open", "end"}
    BY <2>1 DEF Uses, SameCall
  <2>4. loc[w].alone /\ loc[w].op = "write" =>
          file[loc[w].object].stream = "app" /\ ~file[loc[w].object].failed
    BY <1>0, <2>1 DEF UndisturbedNow, UndisturbedOf
  <2>5. file'[loc'[w].object] = file[loc[w].object]
    BY <2>2, <2>3
  <2>6. UndisturbedNow(w)'
    BY <2>3, <2>4, <2>5 DEF UndisturbedNow, UndisturbedOf
  <2> QED BY <1>1, <1>6, <2>6
<1>7. ASSUME NEW w \in Workers, Write(w) \/ Finish(w) \/ Close(w) \/ End(w) \/ Start(w)
      PROVE  Undisturbed'
  <2>1. pc'[w] \in {"finish", "end", "idle", "get"}
    BY <1>7, WriteEffect, FinishEffect, CloseEffect, EndEffect, StartEffect DEF GoesTo, Moves, Started
  <2> QED BY <1>1, <1>2, <1>7, <2>1
<1>8. ASSUME NEW w \in Workers, Empty(w) PROVE Undisturbed'
  <2>1. loc'[w].op # "write"
    BY <1>8, EmptyEffect, ZenonT(30) DEF GoesTo, Inv, Course
  <2> QED BY <1>1, <1>3, <1>8, <2>1
<1>9. CASE Timer
  <2>1. PICK o \in Objects : Expire(o) \/ CloseLater(o)
    BY <1>9 DEF Timer
  <2>2. /\ UNCHANGED <<pc, loc>> /\ Timed(o) /\ \A x \in Objects : x # o => file'[x] = file[x]
    BY <2>1, ExpireEffect, CloseLaterEffect, ClosesOne DEF Times, Timed
  <2>3. ASSUME NEW v \in Workers, Holds(v), loc[v].alone, pc[v] # "end"
        PROVE  file'[loc[v].object] = file[loc[v].object]
    <3>1. loc[v].object \in Objects /\ file[loc[v].object].path = loc[v].path
      BY <2>3, Holding
    <3>2. ~Timed(loc[v].object)
      BY <2>3, <3>1 DEF Inv, Alone, Active, Holds
    <3> QED BY <2>2, <3>1, <3>2
  <2> QED BY <2>2, <2>3, OthersUndisturbed, UndisturbedAll
<1> QED BY <1>4, <1>5, <1>6, <1>7, <1>8, <1>9, NextSplit

-----------------------------------------------------------------------------
(* The data that is kept.                                                  *)
Has(s, n) == \E i \in DOMAIN s : s[i] = n

(* A concatenation has what both sequences have.                           *)
LEMMA HasConcat ==
    ASSUME NEW s \in Seq(Nat), NEW t \in Seq(Nat), NEW n, Has(s, n) \/ Has(t, n)
    PROVE  Has(s \o t, n)
<1>1. ASSUME NEW i \in 1..Len(s), s[i] = n PROVE Has(s \o t, n)
  <2>1. i \in 1..Len(s \o t) /\ (s \o t)[i] = n
    BY <1>1
  <2> QED BY <2>1 DEF Has
<1>2. ASSUME NEW i \in 1..Len(t), t[i] = n PROVE Has(s \o t, n)
  <2>1. Len(s) + i \in 1..Len(s \o t) /\ (s \o t)[Len(s) + i] = n
    BY <1>2
  <2> QED BY <2>1 DEF Has
<1>3. DOMAIN s = 1..Len(s) /\ DOMAIN t = 1..Len(t)
  OBVIOUS
<1> QED BY <1>1, <1>2, <1>3 DEF Has

(* So has a sequence with one more element, and that element.              *)
LEMMA HasAppend ==
    ASSUME NEW s \in Seq(Nat), NEW m \in Nat
    PROVE  Has(Append(s, m), m) /\ \A n : Has(s, n) => Has(Append(s, m), n)
<1>1. Has(Append(s, m), m)
  <2>1. Len(s) + 1 \in 1..Len(Append(s, m)) /\ Append(s, m)[Len(s) + 1] = m
    OBVIOUS
  <2> QED BY <2>1 DEF Has
<1>2. ASSUME NEW n, NEW i \in 1..Len(s), s[i] = n PROVE Has(Append(s, m), n)
  <2>1. i \in 1..Len(Append(s, m)) /\ Append(s, m)[i] = n
    BY <1>2
  <2> QED BY <2>1 DEF Has
<1> QED BY <1>1, <1>2 DEF Has

(* The empty sequence has nothing.                                         *)
LEMMA HasNothing == \A n : ~Has(<<>>, n)
BY DEF Has

(* Where the data k of a write is.                                         *)
Buffered(k, o) == file[o].path = k[1] /\ Has(file[o].unflushed, k[2])
Kept(k) == Has(disk[k[1]], k[2]) \/ \E o \in Objects : Buffered(k, o)

(* The property, datum by datum.                                           *)
LEMMA KeptAll ==
    /\ UndisturbedWritesKept <=> \A k \in kept : Kept(k)
    /\ (\A k \in kept' : \/ Has(disk'[k[1]], k[2])
                          \/ \E o \in Objects : file'[o].path = k[1] /\ Has(file'[o].unflushed, k[2]))
         => UndisturbedWritesKept'
BY DEF UndisturbedWritesKept, Kept, Buffered, Has

(* The buffers and the disk stay.                                          *)
LEMMA KeptSame ==
    ASSUME Inv, kept' \subseteq kept, \A k \in kept' : disk'[k[1]] = disk[k[1]],
           \A x \in Objects :
             \/ file'[x].path = file[x].path /\ file'[x].unflushed = file[x].unflushed
             \/ file[x].unflushed = <<>>
    PROVE  UndisturbedWritesKept'
<1>1. ASSUME NEW k \in kept'
      PROVE  \/ Has(disk'[k[1]], k[2])
             \/ \E o \in Objects : file'[o].path = k[1] /\ Has(file'[o].unflushed, k[2])
  <2>1. k \in kept /\ disk'[k[1]] = disk[k[1]] /\ Kept(k)
    BY <1>1, KeptAll DEF Inv
  <2>2. ASSUME NEW o \in Objects, Buffered(k, o)
        PROVE  file'[o].path = k[1] /\ Has(file'[o].unflushed, k[2])
    BY <2>2, HasNothing DEF Buffered
  <2> QED BY <2>1, <2>2 DEF Kept
<1> QED BY <1>1, KeptAll

(* What was in the buffer of a stream that is closed is on the disk.       *)
LEMMA KeptCloses ==
    ASSUME Inv, NEW o \in Objects, Closes(o), kept' = kept
    PROVE  UndisturbedWritesKept'
<1>1. CASE ~IsOpen(o)
  <2>1. /\ disk' = disk /\ file'[o].path = file[o].path /\ file'[o].unflushed = file[o].unflushed
        /\ \A x \in Objects : x # o => file'[x] = file[x]
    BY <1>1 DEF Closes
  <2> QED BY <2>1, KeptSame
<1>2. CASE IsOpen(o)
  <2> DEFINE p == file[o].path
             flushed == disk[p] \o file[o].unflushed
  <2>0. \A x \in Objects : x # o => file'[x] = file[x]
    BY ClosesOne
  <2>a. disk' = [disk EXCEPT ![p] = flushed]
    BY <1>2, ZenonT(30) DEF Closes
  <2>1. /\ disk \in [Paths -> Seq(Nat)] /\ file[o].unflushed \in Seq(Nat) /\ file[o].path \in Paths
        /\ kept \subseteq Paths \X Nat
    BY <1>2 DEF Inv, TypeOK, Files, Fresh, IsOpen
  <2>2. ASSUME NEW k \in kept'
        PROVE  \/ Has(disk'[k[1]], k[2])
               \/ \E x \in Objects : file'[x].path = k[1] /\ Has(file'[x].unflushed, k[2])
    <3>1. k \in kept /\ k[1] \in Paths /\ Kept(k)
      BY <2>1, <2>2, KeptAll DEF Inv
    <3>2. CASE k[1] = file[o].path /\ (Has(disk[k[1]], k[2]) \/ Buffered(k, o))
      <4>1. disk'[p] = flushed
        <5> HIDE DEF flushed
        <5> QED BY <2>1, <2>a
      <4>2. Has(disk[k[1]] \o file[o].unflushed, k[2])
        BY <2>1, <3>1, <3>2, HasConcat DEF Buffered
      <4> QED BY <3>2, <4>1, <4>2
    <3>3. CASE k[1] # file[o].path /\ Has(disk[k[1]], k[2])
      <4>1. disk'[k[1]] = disk[k[1]]
        BY <2>a, <2>1, <3>1, <3>3
      <4> QED BY <3>3, <4>1
    <3>4. ASSUME NEW x \in Objects, x # o, Buffered(k, x)
          PROVE  file'[x].path = k[1] /\ Has(file'[x].unflushed, k[2])
      BY <2>0, <3>4 DEF Buffered
    <3> QED BY <3>1, <3>2, <3>3, <3>4 DEF Kept, Buffered
  <2> QED BY <2>2, KeptAll
<1> QED BY <1>1, <1>2

(* A write by a worker nobody disturbs finds the stream open for it.       *)
LEMMA KeptWrite ==
    ASSUME Inv, NEW w \in Workers, Write(w)
    PROVE  UndisturbedWritesKept'
<1>1. PICK o \in Objects : o = loc[w].object /\ file[o].path = loc[w].path /\ file[o] \in Files
  BY Holding DEF Holds, Write
<1>2. /\ pc[w] = "write" /\ disk' = disk /\ Writes(w, o) /\ loc[w].number \in Nat
      /\ file[o].unflushed \in Seq(Nat) /\ loc[w].op = "write"
  <2>1. pc[w] = "write" /\ disk' = disk /\ Writes(w, o)
    BY <1>1, WriteEffect
  <2>2. loc[w].number \in Nat /\ file[o].unflushed \in Seq(Nat)
    BY <1>1 DEF Inv, TypeOK, Files, Locals
  <2> QED BY <2>1, <2>2 DEF Inv, Course
<1>3. loc[w].alone => Has(file'[o].unflushed, loc[w].number)
  <2>1. loc[w].alone => file[o].stream = "app" /\ ~file[o].failed
    BY <1>1, <1>2 DEF Inv, Undisturbed
  <2> QED BY <1>2, <2>1, HasAppend DEF Writes
<1>4. \A n : Has(file[o].unflushed, n) => Has(file'[o].unflushed, n)
  BY <1>2, HasAppend DEF Writes
<1>5. /\ \A x \in Objects : x # o => file'[x] = file[x]
      /\ file'[o].path = file[o].path
      /\ kept' = IF loc[w].alone THEN kept \cup {<<loc[w].path, loc[w].number>>} ELSE kept
  BY <1>2 DEF Writes
<1>6. ASSUME NEW k \in kept'
      PROVE  \/ Has(disk'[k[1]], k[2])
             \/ \E x \in Objects : file'[x].path = k[1] /\ Has(file'[x].unflushed, k[2])
  <2>1. CASE k \in kept
    <3>1. Kept(k)
      BY <2>1, KeptAll DEF Inv
    <3>2. ASSUME NEW x \in Objects, Buffered(k, x)
          PROVE  file'[x].path = k[1] /\ Has(file'[x].unflushed, k[2])
      BY <1>4, <1>5, <3>2 DEF Buffered
    <3> QED BY <1>2, <3>1, <3>2 DEF Kept
  <2>2. CASE loc[w].alone /\ k = <<loc[w].path, loc[w].number>>
    BY <1>1, <1>3, <1>5, <2>2
  <2> QED BY <1>5, <1>6, <2>1, <2>2
<1> QED BY <1>6, KeptAll

(* Every step keeps the data of undisturbed writes.                        *)
LEMMA KeptStep ==
    ASSUME Inv, Next
    PROVE  UndisturbedWritesKept'
<1>1. ASSUME NEW w \in Workers, Get(w) PROVE UndisturbedWritesKept'
  <2>1. disk' = disk /\ kept' = kept
    BY <1>1, GetEffect
  <2>2. CASE file' = file
    BY <2>1, <2>2, KeptSame
  <2>3. CASE Creates(w, NumPaths + loc[w].number)
    <3>1. PICK o \in Objects : /\ file[o].unflushed = <<>>
                              /\ \A x \in Objects : x # o => file'[x] = file[x]
      BY <1>1, <2>3, CreatesNew
    <3> QED BY <2>1, <3>1, KeptSame
  <2> QED BY <1>1, <2>2, <2>3, GetEffect
<1>2. ASSUME NEW w \in Workers, Opening(w) PROVE UndisturbedWritesKept'
  <2>0. loc[w].object \in Objects
    BY <1>2, OpenEffect, Holding DEF Opening, Holds
  <2>1. CASE Waits(w) \/ Passes(w)
    BY <2>1, KeptSame DEF Waits, Passes
  <2>2. ASSUME Touches(loc[w].object)
        PROVE  \A x \in Objects :
                 file'[x].path = file[x].path /\ file'[x].unflushed = file[x].unflushed
    BY <2>0, <2>2 DEF Touches
  <2>3. CASE Touches(loc[w].object) /\ UNCHANGED <<disk, kept>>
    BY <2>2, <2>3, KeptSame
  <2>4. CASE /\ Touches(loc[w].object) /\ disk' = [disk EXCEPT ![loc[w].path] = <<>>]
             /\ kept' = {k \in kept : k[1] # loc[w].path}
    <3>1. kept' \subseteq kept /\ kept \subseteq Paths \X Nat /\ disk \in [Paths -> Seq(Nat)]
      BY <2>4 DEF Inv, TypeOK
    <3>2. ASSUME NEW k \in kept' PROVE disk'[k[1]] = disk[k[1]]
      <4>1. k[1] \in Paths /\ k[1] # loc[w].path
        BY <2>4, <3>1, <3>2
      <4> QED BY <2>4, <3>1, <4>1
    <3> QED BY <2>2, <2>4, <3>1, <3>2, KeptSame
  <2> QED BY <1>2, <2>1, <2>3, <2>4, OpenEffect DEF Opening, OpensAgain, Opens
<1>3. ASSUME NEW w \in Workers, Add(w) PROVE UndisturbedWritesKept'
  <2>1. CASE UNCHANGED <<file, disk, kept>>
    BY <2>1, KeptSame
  <2>2. CASE kept' = kept /\ map[loc[w].path] \in Objects /\ Closes(map[loc[w].path])
    BY <2>2, KeptCloses
  <2> QED BY <1>3, <2>1, <2>2, AddEffect DEF Destroys
<1>4. ASSUME NEW w \in Workers, Finish(w) \/ Empty(w) \/ Close(w) \/ End(w)
      PROVE  UndisturbedWritesKept'
  <2>1. loc[w].object \in Objects
    BY <1>4, FinishEffect, EmptyEffect, CloseEffect, EndEffect, Holding, ZenonT(30) DEF Holds
  <2>2. CASE kept' = kept /\ Closes(loc[w].object)
    BY <2>1, <2>2, KeptCloses
  <2>3. CASE kept' = kept /\ Times(loc[w].object)
    <3>1. /\ disk' = disk
          /\ \A x \in Objects :
               file'[x].path = file[x].path /\ file'[x].unflushed = file[x].unflushed
      BY <2>1, <2>3 DEF Times
    <3> QED BY <2>3, <3>1, KeptSame, ZenonT(30)
  <2>4. CASE UNCHANGED <<file, disk, kept>>
    BY <2>4, KeptSame
  <2> QED BY <1>4, <2>2, <2>3, <2>4, FinishEffect, EmptyEffect, CloseEffect, EndEffect, ZenonT(30) DEF Rest, Destroys
<1>5. ASSUME NEW w \in Workers, Start(w) PROVE UndisturbedWritesKept'
  BY <1>5, StartEffect, KeptSame
<1>6. CASE Timer
  <2>1. PICK o \in Objects : Expire(o) \/ CloseLater(o)
    BY <1>6 DEF Timer
  <2>2. CASE Expire(o)
    <3>1. /\ disk' = disk /\ kept' = kept
          /\ \A x \in Objects :
               file'[x].path = file[x].path /\ file'[x].unflushed = file[x].unflushed
      BY <2>2, ExpireEffect DEF Times, Rest
    <3> QED BY <3>1, KeptSame
  <2>3. CASE CloseLater(o)
    BY <2>3, CloseLaterEffect, KeptCloses DEF Rest
  <2> QED BY <2>1, <2>2, <2>3
<1> QED BY <1>1, <1>2, <1>3, <1>4, <1>5, <1>6, KeptWrite, NextSplit

-----------------------------------------------------------------------------
(* The start, and the steps of the sockets.                                *)
InitFile(was, o) ==
    IF o \in Paths /\ was[o] # "none" THEN File(o, was[o], was[o] = "app") ELSE File(None, "closed", FALSE)

(* The objects at the start.                                               *)
LEMMA InitFiles ==
    ASSUME NEW was \in Before, NEW o \in Objects
    PROVE  /\ InitFile(was, o) \in Files /\ InitFile(was, o).unflushed = <<>>
           /\ InitFile(was, o).expired = 0 /\ ~InitFile(was, o).cached
           /\ InitFile(was, o).path = (IF o \in Paths /\ was[o] # "none" THEN o ELSE None)
           /\ InitFile(was, o).stream # "closed" => InitFile(was, o).armed
           /\ ~(o \in Paths /\ was[o] # "none") =>
                InitFile(was, o).stream = "closed" /\ ~InitFile(was, o).armed
<1>0. <<>> \in Seq(Nat) /\ 0 \in Nat
  OBVIOUS
<1>1. o \in Paths => was[o] \in {"none", "closed", "app"}
  BY InstanceAssumption
<1>2. CASE o \in Paths /\ was[o] = "closed"
  <2>1. InitFile(was, o) = File(o, "closed", FALSE)
    BY <1>2, ZenonT(30) DEF InitFile
  <2>2. File(o, "closed", FALSE) \in Files
    BY <1>0, <1>2, ZenonT(30) DEF File, Files
  <2> QED BY <1>2, <2>1, <2>2 DEF File
<1>3. CASE o \in Paths /\ was[o] = "app"
  <2>1. InitFile(was, o) = File(o, "app", TRUE)
    BY <1>3, ZenonT(30) DEF InitFile
  <2>2. File(o, "app", TRUE) \in Files
    BY <1>0, <1>3 DEF File, Files
  <2> QED BY <1>3, <2>1, <2>2 DEF File
<1>4. CASE ~(o \in Paths /\ was[o] # "none")
  <2>1. InitFile(was, o) = File(None, "closed", FALSE)
    BY <1>4, ZenonT(30) DEF InitFile
  <2>2. File(None, "closed", FALSE) \in Files
    BY <1>0 DEF File, Files
  <2> QED BY <1>4, <2>1, <2>2 DEF File
<1> QED BY <1>1, <1>2, <1>3, <1>4

(* The invariant holds at the start.                                       *)
LEMMA InitInv ==
    ASSUME Init, current \in Nat
    PROVE  Inv
<1>1. PICK was \in Before :
        /\ file = [o \in Objects |-> InitFile(was, o)]
        /\ map = [p \in Paths |-> IF was[p] = "none" THEN None ELSE p]
        /\ existing = {p \in Paths : was[p] # "none"}
  BY ZenonT(30) DEF Init, InitFile
<1>2. /\ current = Cardinality(Opened) /\ current <= MaxOpen /\ signalled = {}
      /\ disk = [p \in Paths |-> <<>>]
      /\ pc = [w \in Workers |-> "idle"] /\ loc = [w \in Workers |-> Unused]
      /\ ops = 0 /\ kept = {}
  BY DEF Init
<1>3. Paths \subseteq Objects /\ 0 \in 0..MaxOps /\ MaxOps \in Nat /\ NumPaths \in Nat
  BY FileAssumption DEF Paths, Objects
<1>4. \A o \in Objects : file[o] = InitFile(was, o)
  BY <1>1
<1>5. TypeOK
  <2>1. map \in [Paths -> Objects \cup {None}] /\ existing \subseteq Paths
    BY <1>1, <1>3
  <2>2. file \in [Objects -> Files]
    BY <1>1, InitFiles
  <2>3. disk \in [Paths -> Seq(Nat)]
    <3>1. <<>> \in Seq(Nat)
      OBVIOUS
    <3> QED BY <1>2, <3>1
  <2>4. pc \in [Workers -> Stages] /\ loc \in [Workers -> Locals]
    BY <1>2, UnusedType DEF Stages
  <2> QED BY <1>2, <1>3, <2>1, <2>2, <2>3, <2>4 DEF TypeOK
<1>6. Counted
  BY <1>2 DEF Counted
<1>7. \A w \in Workers : pc[w] = "idle" /\ loc[w].op = "none" /\ ~loc[w].alone
  BY <1>2 DEF Unused
<1>8. Located
  <2>1. ASSUME NEW p \in Paths, map[p] # None PROVE file[map[p]].path = p
    <3>1. map[p] = p /\ was[p] # "none" /\ p \in Objects
      BY <1>1, <1>3, <2>1
    <3> QED BY <1>4, <2>1, <3>1, InitFiles
  <2> QED BY <1>7, <2>1 DEF Located, Active, Holds
<1>9. Fresh
  <2>1. ASSUME NEW o \in Objects, file[o].path = None
        PROVE  file[o].stream = "closed" /\ file[o].unflushed = <<>> /\ ~Timed(o) /\ ~file[o].cached
    <3>1. ~(o \in Paths /\ was[o] # "none")
      <4>1. None \notin Paths
        BY <1>3 DEF None, Paths
      <4> QED BY <1>4, <2>1, <4>1, InitFiles
    <3>2. /\ file[o].stream = "closed" /\ file[o].unflushed = <<>> /\ ~file[o].armed
          /\ file[o].expired = 0 /\ ~file[o].cached
      BY <1>4, <3>1, InitFiles
    <3> QED BY <3>2 DEF Timed
  <2>2. ASSUME NEW n \in 1..MaxOps PROVE file[NumPaths + n].path = None
    <3>1. PICK o \in Objects : o = NumPaths + n /\ o \notin Paths
      BY <1>3 DEF Objects, Paths
    <3>2. file[o].path = None
      BY <1>4, <3>1, InitFiles
    <3> QED BY <3>1, <3>2
  <2> QED BY <1>7, <2>1, <2>2 DEF Fresh
<1>10. Course
  BY <1>7 DEF Course
<1>11. Private
  BY <1>7 DEF Private, Constructs
<1>12. WillClose
  <2>1. ASSUME NEW o \in Objects, IsOpen(o) PROVE Timed(o)
    <3>1. file[o] = InitFile(was, o) /\ file[o].stream # "closed"
      BY <1>4, <2>1 DEF IsOpen
    <3>2. file[o].armed
      BY <3>1, InitFiles
    <3> QED BY <3>2 DEF Timed
  <2> QED BY <2>1 DEF WillClose
<1>13. Alone
  BY <1>7 DEF Alone
<1>14. Undisturbed
  BY <1>7 DEF Undisturbed
<1>15. UndisturbedWritesKept
  BY <1>2 DEF UndisturbedWritesKept
<1> QED BY <1>5, <1>6, <1>8, <1>9, <1>10, <1>11, <1>12, <1>13, <1>14, <1>15 DEF Inv

(* Nothing of the files changes, but an operation may have been counted.   *)
LEMMA SocketStep ==
    ASSUME Inv, UNCHANGED fileVars, ops' \in ops..MaxOps
    PROVE  Inv'
<1>0. /\ TypeOK /\ ops \in 0..MaxOps /\ MaxOps \in Nat
      /\ \A w \in Workers : loc[w].number \in 0..MaxOps
  BY FileAssumption DEF Inv, TypeOK, Locals
<1>1. TypeOK'
  BY <1>0 DEF TypeOK, fileVars
<1>2. Counted'
  BY DEF Inv, Counted, Opened, IsOpen, fileVars
<1>3. Located'
  BY <1>0 DEF Inv, Located, Active, Holds, fileVars
<1>4. Fresh'
  BY <1>0 DEF Inv, Fresh, Timed, fileVars
<1>5. Course' /\ Private'
  BY DEF Inv, Course, Private, Constructs, Holds, fileVars
<1>6. WillClose' /\ Alone'
  BY ZenonT(30) DEF Inv, WillClose, Watched, Timed, IsOpen, Holds, Alone, Active, fileVars
<1>7. Undisturbed' /\ UndisturbedWritesKept'
  BY ZenonT(30) DEF Inv, Undisturbed, UndisturbedWritesKept, fileVars
<1> QED BY <1>1, <1>2, <1>3, <1>4, <1>5, <1>6, <1>7 DEF Inv

-----------------------------------------------------------------------------
(* What a proof must know of finite sets is cited from here on only.       *)
INSTANCE FiniteSetTheorems

(* The open streams can be counted.                                        *)
LEMMA OpenedFinite ==
    ASSUME TypeOK
    PROVE  IsFiniteSet(Opened) /\ Cardinality(Opened) \in Nat
<1>1. NumPaths + MaxOps \in Int /\ 1 \in Int
  BY FileAssumption
<1>2. IsFiniteSet(Objects)
  BY <1>1, FS_Interval DEF Objects
<1>3. Opened \subseteq Objects
  BY DEF Opened
<1> QED BY <1>2, <1>3, FS_Subset, FS_CardinalityType

(* No stream is opened or closed.                                          *)
LEMMA CountedKeeps ==
    ASSUME Inv, Opened' \subseteq Opened, current' = current
    PROVE  Counted'
<1>1. Cardinality(Opened') <= Cardinality(Opened) /\ Cardinality(Opened') \in Nat
  BY OpenedFinite, FS_Subset, FS_CardinalityType DEF Inv
<1> QED BY <1>1, OpenedFinite DEF Inv, Counted, TypeOK

(* A stream is closed, and counted once less.                              *)
LEMMA CountedCloses ==
    ASSUME Inv, NEW o \in Objects, Closes(o)
    PROVE  Counted'
<1>0. TypeOK /\ Counted /\ current \in Int /\ MaxOpen \in Nat
  BY FileAssumption DEF Inv, TypeOK
<1>1. CASE IsOpen(o)
  <2>1. Opened' = Opened \ {o} /\ o \in Opened /\ current' = current - 1
    BY <1>1 DEF Closes, Opened, IsOpen
  <2>2. Cardinality(Opened') = Cardinality(Opened) - 1
    BY <1>0, <2>1, OpenedFinite, FS_RemoveElement
  <2> QED BY <1>0, <2>1, <2>2, OpenedFinite DEF Counted
<1>2. CASE ~IsOpen(o)
  BY <1>2, CountedKeeps DEF Closes, Opened, IsOpen
<1> QED BY <1>1, <1>2

(* A stream is opened, and counted once more, below the limit.             *)
LEMMA CountedOpens ==
    ASSUME Inv, NEW o \in Objects, \A x \in Objects : x # o => file'[x] = file[x],
           current < MaxOpen, current' = current + 1
    PROVE  Counted'
<1>0. TypeOK /\ Counted /\ current \in Int /\ MaxOpen \in Nat
  BY FileAssumption DEF Inv, TypeOK
<1>1. Opened' \subseteq Opened \cup {o}
  BY DEF Opened, IsOpen
<1>2. IsFiniteSet(Opened \cup {o}) /\ Cardinality(Opened \cup {o}) <= Cardinality(Opened) + 1
      /\ Cardinality(Opened \cup {o}) \in Nat
  BY <1>0, OpenedFinite, FS_AddElement, FS_CardinalityType
<1>3. Cardinality(Opened') <= Cardinality(Opened \cup {o}) /\ Cardinality(Opened') \in Nat
  BY <1>1, <1>2, FS_Subset, FS_CardinalityType
<1> QED BY <1>0, <1>2, <1>3, OpenedFinite DEF Counted

(* Every step counts at least the open streams, and never beyond the       *)
(* limit.                                                                  *)
LEMMA CountedStep ==
    ASSUME Inv, Next
    PROVE  Counted'
<1>0. ASSUME \A x \in Objects : file'[x].stream # "closed" => file[x].stream # "closed",
             current' = current
      PROVE  Counted'
  BY <1>0, CountedKeeps DEF Opened, IsOpen
<1>1. ASSUME NEW w \in Workers, Start(w) PROVE Counted'
  BY <1>0, <1>1, StartEffect
<1>2. ASSUME NEW w \in Workers, Get(w) PROVE Counted'
  <2>1. CASE file' = file
    BY <1>0, <1>2, <2>1, GetEffect
  <2>2. CASE Creates(w, NumPaths + loc[w].number)
    <3>1. \A x \in Objects : file'[x].stream = "closed" \/ file'[x] = file[x]
      BY <2>2 DEF Creates, File
    <3> QED BY <1>0, <1>2, <3>1, GetEffect
  <2> QED BY <1>2, <2>1, <2>2, GetEffect
<1>3. ASSUME NEW w \in Workers, Opening(w) PROVE Counted'
  <2>1. loc[w].object \in Objects
    BY <1>3, OpenEffect, Holding DEF Opening, Holds
  <2>2. CASE Waits(w) \/ Passes(w)
    BY <1>0, <2>2 DEF Waits, Passes
  <2>3. CASE OpensAgain(w) \/ Opens(w)
    BY <2>1, <2>3, CountedOpens, ZenonT(30) DEF OpensAgain, Opens, Touches
  <2> QED BY <1>3, <2>2, <2>3, OpenEffect DEF Opening
<1>4. ASSUME NEW w \in Workers, Add(w) PROVE Counted'
  BY <1>0, <1>4, AddEffect, CountedCloses, ZenonT(30) DEF Destroys
<1>5. ASSUME NEW w \in Workers, Write(w) PROVE Counted'
  BY <1>0, <1>5, WriteEffect, Holding, ZenonT(30) DEF Writes, Holds
<1>6. ASSUME NEW w \in Workers, Finish(w) \/ Empty(w) \/ Close(w) \/ End(w) PROVE Counted'
  <2>1. loc[w].object \in Objects
    BY <1>6, FinishEffect, EmptyEffect, CloseEffect, EndEffect, Holding, ZenonT(30) DEF Holds
  <2>2. CASE Closes(loc[w].object)
    BY <2>1, <2>2, CountedCloses
  <2>3. CASE Times(loc[w].object) \/ UNCHANGED <<file, disk, current>>
    BY <1>0, <2>1, <2>3, ZenonT(30) DEF Times
  <2> QED BY <1>6, <2>2, <2>3, FinishEffect, EmptyEffect, CloseEffect, EndEffect, ZenonT(30) DEF Destroys
<1>7. CASE Timer
  <2>1. PICK o \in Objects : Expire(o) \/ CloseLater(o)
    BY <1>7 DEF Timer
  <2> QED BY <1>0, <2>1, ExpireEffect, CloseLaterEffect, CountedCloses DEF Times
<1> QED BY <1>1, <1>2, <1>3, <1>4, <1>5, <1>6, <1>7, NextSplit

(* The initial streams are counted.                                        *)
LEMMA InitCount ==
    ASSUME Init
    PROVE  current \in Nat
<1>1. NumPaths + MaxOps \in Int /\ 1 \in Int /\ current = Cardinality(Opened)
  BY FileAssumption DEF Init
<1>2. IsFiniteSet(Objects)
  BY <1>1, FS_Interval DEF Objects
<1>3. IsFiniteSet(Opened)
  BY <1>2, FS_Subset DEF Opened
<1> QED BY <1>1, <1>3, FS_CardinalityType

-----------------------------------------------------------------------------
(* Every step of the files keeps the invariant.                            *)
LEMMA FileStep ==
    ASSUME Inv, Next
    PROVE  Inv'
BY TypesStep, CountedStep, LocatedStep, FreshStep, CourseStep, PrivateStep, WillCloseStep,
   AloneStep, UndisturbedStep, KeptStep DEF Inv

(* So does every step of files and sockets.                                *)
LEMMA OutputStep ==
    ASSUME Inv, [OutputNext]_outputVars
    PROVE  Inv'
<1>0. ops \in 0..MaxOps /\ MaxOps \in Nat
  BY FileAssumption DEF Inv, TypeOK
<1>1. CASE Next
  BY <1>1, FileStep
<1>2. CASE UNCHANGED vars
  BY <1>0, <1>2, SocketStep DEF vars, fileVars
<1>3. ASSUME NEW w \in Workers, SocketStart(w) PROVE Inv'
  <2>1. UNCHANGED fileVars /\ ops < MaxOps /\ ops' = ops + 1
    BY <1>3, ZenonT(30) DEF SocketStart
  <2>2. ops' \in ops..MaxOps
    BY <1>0, <2>1
  <2> QED BY <2>1, <2>2, SocketStep
<1>4. ASSUME NEW w \in Workers, socketOperation(w) PROVE UNCHANGED vars
  BY <1>4 DEF socketOperation, SocketGet, SocketAdd, SocketWrite
<1>5. ASSUME delayedWrites PROVE UNCHANGED vars
  BY <1>5 DEF delayedWrites, DelayedWrite
<1>6. ASSUME UNCHANGED outputVars PROVE UNCHANGED vars
  BY <1>6 DEF outputVars
<1>7. Next \/ UNCHANGED vars \/ \E w \in Workers : SocketStart(w)
  BY <1>4, <1>5, <1>6 DEF OutputNext, Next
<1> QED BY <1>1, <1>2, <1>3, <1>7

(* The invariant of the files holds in every behaviour of the workers that *)
(* write files and sockets.                                                *)
THEOREM Invariance == OutputSpec => []Inv
<1>1. OutputInit => Inv
  BY InitInv, InitCount DEF OutputInit
<1>2. Inv /\ [OutputNext]_outputVars => Inv'
  BY OutputStep
<1> QED BY <1>1, <1>2, PTL DEF OutputSpec

(* Never more streams are open than max_open_files_, for every number of   *)
(* workers, paths, timers and operations: CurrentOpenedFiles is never less *)
(* than the streams that are open.                                         *)
THEOREM LimitIsRespected == OutputSpec => []LimitRespected
<1>1. Inv => LimitRespected
  <2>1. TypeOK /\ Counted => LimitRespected
    BY OpenedFinite, FS_CardinalityType, FileAssumption DEF TypeOK, Counted, LimitRespected
  <2> QED BY <2>1 DEF Inv
<1> QED BY <1>1, Invariance, PTL

(* What a worker writes to a path that no other operation and no pending   *)
(* timer touches is on the disk or in the buffer of an object of the path, *)
(* until the path is emptied.                                              *)
THEOREM UndisturbedWritesAreKept == OutputSpec => []UndisturbedWritesKept
<1>1. Inv => UndisturbedWritesKept
  BY DEF Inv
<1> QED BY <1>1, Invariance, PTL
=============================================================================
