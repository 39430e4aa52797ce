------------------------ MODULE TrafficServerSteps --------------------------
(***************************************************************************)
(* What the steps of the traffic server do to the map, the histories and   *)
(* the threads, as far as the proofs of TrafficServerProofs need it: the   *)
(* invariant, the effect of each step, that a step with such an effect     *)
(* keeps the invariant, and what the step changes of the visible store.    *)
(*                                                                         *)
(* A thread reaches a history through the map, or has made it and nobody   *)
(* else knows it yet.  Under Exclusive a key's history is only reached by  *)
(* the thread that works on the key, so what the thread looked up is what  *)
(* the map still has when the thread uses it.                              *)
(***************************************************************************)
EXTENDS TrafficServer, TLAPS

(* Some leaves need more than the default time of the provers.             *)
USE SMTT(30), ZenonT(30)

(* The keys a thread works on: its own and the foreign one of its match.   *)
Works(t, k) == k \in {loc[t].key, loc[t].foreign}

(* The stages of a thread that loads, and of one that removes, an event.   *)
Loading == {"get", "push", "add", "last"}
Removing == {"rmevent", "rmsize", "rmkey"}

(* No two threads work on one key.                                         *)
Apart == \A s, t \in Threads : \A k \in Keys : Works(s, k) /\ Works(t, k) => s = t

(* What a thread has at a stage.                                           *)
ShapeOf(stage, l) ==
    /\ stage = "idle" => l = Unused
    /\ stage # "idle" => l.key \in Keys
    /\ stage \notin Removing \cup {"idle"} => l.recv # 0
    /\ l.target \in {NoKey, l.key, l.foreign}
    /\ stage \in Loading => l.target \in Keys
    /\ stage \notin Dereferencing => l.ref = NoHistory

Shape == \A t \in Threads : ShapeOf(pc[t], loc[t])

(* A history is in the map where it was looked up; a new one is not there  *)
(* yet, and has nothing, or the one event of its thread.                   *)
PointsOf(stage, l, m, h) ==
    /\ stage \in {"state", "vars", "storeset"} \cup Removing => l.ref = m[l.key]
    /\ stage = "last" => l.ref = m[l.target]
    /\ stage = "push" => IF l.maiden THEN m[l.target] = NoHistory /\ h[l.ref] = NewHistory
                                     ELSE l.ref = m[l.target]
    /\ stage = "add" =>
         /\ m[l.target] = NoHistory
         /\ \E e \in Events : e.recv = l.recv /\ h[l.ref] = [evs |-> <<e>>, chain |-> 0]

Points == \A t \in Threads : PointsOf(pc[t], loc[t], map, hist)

(* A new history is its thread's alone.                                    *)
New(t) == pc[t] = "add" \/ (pc[t] = "push" /\ loc[t].maiden)

NewApart ==
    \A t \in Threads : New(t) =>
      /\ \A k \in Keys : map[k] # loc[t].ref
      /\ \A s \in Threads : s # t => loc[s].ref # loc[t].ref

(* No history belongs to two keys.                                         *)
Injective == \A j, k \in Keys : j # k => map[j] = NoHistory \/ map[j] # map[k]

(* A history in the map has an event, or is about to leave the map.        *)
Filled ==
    \A k \in Keys : map[k] # NoHistory =>
      \/ hist[map[k]].evs # <<>>
      \/ \E t \in Threads : pc[t] \in {"rmsize", "rmkey"} /\ loc[t].key = k

(* The inductive invariant.                                                *)
Inv == TypeOK /\ Apart /\ Shape /\ Points /\ NewApart /\ Injective /\ Filled

-----------------------------------------------------------------------------
(* What the map or a thread refers to.                                     *)
Known(h) == (\E k \in Keys : map[k] = h) \/ (\E t \in Threads : loc[t].ref = h)

-----------------------------------------------------------------------------
(* A step of t is a step of no other thread.                               *)
Moves(t) ==
    /\ pc' \in [Threads -> Stages] /\ loc' \in [Threads -> Locals]
    /\ \A s \in Threads : s # t => pc'[s] = pc[s] /\ loc'[s] = loc[s]

(* t takes a key that nobody works on, or none.                            *)
Claims(t) == \A k \in Keys : Works(t, k)' => Works(t, k) \/ Free(k)

(* t changes the map under its keys, and its own history or one that is    *)
(* new; what it puts into the map was new.                                 *)
Frame(t) ==
    /\ \A k \in Keys : ~Works(t, k) => map'[k] = map[k]
    /\ \A k \in Keys : map'[k] # map[k] =>
         map'[k] = NoHistory \/ (New(t) /\ k = loc[t].target /\ map'[k] = loc[t].ref)
    /\ \A h \in HistoryIds : h # loc[t].ref /\ Known(h) => hist'[h] = hist[h]

(* t refers to what it found in the map, or to what nobody refers to.      *)
Refers(t) ==
    /\ \/ loc'[t].ref \in {NoHistory, loc[t].ref}
       \/ \E k \in Keys : loc'[t].ref = map[k]
       \/ ~Known(loc'[t].ref)
    /\ New(t)' => /\ map' = map
                  /\ \/ New(t) /\ loc'[t].ref = loc[t].ref
                     \/ ~Known(loc'[t].ref) /\ loc'[t].ref # NoHistory

(* t leaves no empty history in the map unless it is going to remove it.   *)
Fills(t) ==
    \A k \in Keys :
      (map'[k] # NoHistory /\ (\/ map'[k] # map[k]
                               \/ map[k] = loc[t].ref
                               \/ pc[t] \in {"rmsize", "rmkey"} /\ loc[t].key = k))
        => \/ hist'[map'[k]].evs # <<>>
           \/ pc'[t] \in {"rmsize", "rmkey"} /\ loc'[t].key = k

(* All that a step of a thread may do.                                     *)
Effect(t) ==
    /\ Moves(t) /\ Claims(t) /\ Frame(t) /\ Refers(t) /\ Fills(t)
    /\ ShapeOf(pc'[t], loc'[t]) /\ PointsOf(pc'[t], loc'[t], map', hist')

(* Going on to another stage is such a step.                               *)
LEMMA GoMoves ==
    ASSUME TypeOK, NEW t \in Threads, NEW stage \in Stages, NEW l \in Locals, Go(t, stage, l)
    PROVE  Moves(t) /\ pc'[t] = stage /\ loc'[t] = l
BY DEF TypeOK, Go, Moves

(* A thread without a request.                                             *)
LEMMA UnusedType == Unused \in Locals
BY TrafficAssumption DEF Unused, Locals, States, NoHistory

(* An unused record names no key, no history and no request.               *)
LEMMA UnusedFields ==
    /\ Unused.key = NoKey /\ Unused.foreign = NoKey /\ Unused.target = NoKey
    /\ Unused.ref = NoHistory /\ Unused.recv = 0 /\ Unused.keep = TRUE
BY DEF Unused

(* It is nowhere in the store.                                             *)
LEMMA UnusedPlace ==
    /\ ShapeOf("idle", Unused)
    /\ \A m, h : PointsOf("idle", Unused, m, h)
<1>1. ShapeOf("idle", Unused)
  BY UnusedFields DEF ShapeOf, Loading, Removing, Dereferencing
<1>2. ASSUME NEW m, NEW h PROVE PointsOf("idle", Unused, m, h)
  BY DEF PointsOf, Removing
<1> QED BY <1>1, <1>2

(* The values of the locals.                                               *)
LEMMA LocalTypes ==
    ASSUME TypeOK, NEW t \in Threads
    PROVE  /\ loc[t] \in Locals /\ pc[t] \in Stages
           /\ loc[t].recv \in 0 .. MaxRecv /\ loc[t].key \in Keys \cup {NoKey}
           /\ loc[t].foreign \in Keys \cup {NoKey} /\ loc[t].target \in Keys \cup {NoKey}
           /\ loc[t].in \in States /\ loc[t].out \in States /\ loc[t].own \in States
           /\ loc[t].chain \in 0 .. MaxRecv /\ loc[t].ref \in HistoryIds \cup {NoHistory}
           /\ loc[t].maiden \in BOOLEAN /\ loc[t].keep \in BOOLEAN
           /\ NoHistory \notin HistoryIds
BY DEF TypeOK, Locals, HistoryIds, NoHistory

(* What the invariant says of one thread.                                  *)
LEMMA Here ==
    ASSUME Inv, NEW t \in Threads
    PROVE  /\ TypeOK /\ ShapeOf(pc[t], loc[t]) /\ PointsOf(pc[t], loc[t], map, hist)
           /\ pc[t] \in Dereferencing => loc[t].ref \in HistoryIds
BY DEF Inv, Shape, Points, TypeOK

(* receive() ends: the thread works on nothing any more.                   *)
LEMMA AnswerEffect ==
    ASSUME Inv, NEW w \in Threads, Answer(w), pc[w] \notin Removing \cup {"idle"}
    PROVE  /\ Moves(w) /\ pc'[w] = "idle" /\ loc'[w] = Unused
           /\ open' \subseteq 1 .. MaxRecv /\ Claims(w)
           /\ ShapeOf(pc'[w], loc'[w]) /\ PointsOf(pc'[w], loc'[w], map', hist')
<1>1. Moves(w) /\ pc'[w] = "idle" /\ loc'[w] = Unused
  BY UnusedType, GoMoves DEF Inv, Answer, Stages
<1>2. loc[w].recv \in 1 .. MaxRecv
  <2>1. loc[w].recv \in 0 .. MaxRecv /\ loc[w].recv # 0
    BY Here, LocalTypes DEF ShapeOf
  <2> QED BY <2>1, TrafficAssumption
<1>3. open' \subseteq 1 .. MaxRecv
  BY <1>2, ZenonT(30) DEF Inv, TypeOK, Answer
<1>4. Claims(w)
  <2>1. NoKey \notin Keys
    BY TrafficAssumption
  <2>2. loc'[w].key = NoKey /\ loc'[w].foreign = NoKey
    BY <1>1, UnusedFields
  <2> QED BY <2>1, <2>2 DEF Claims, Works
<1>5. ShapeOf(pc'[w], loc'[w]) /\ PointsOf(pc'[w], loc'[w], map', hist')
  BY <1>1, UnusedPlace
<1> QED BY <1>1, <1>3, <1>4, <1>5

(* A step that leaves the store alone.                                     *)
LEMMA QuietEffect ==
    ASSUME Inv, NEW t \in Threads, UNCHANGED <<map, hist>>, Moves(t), Claims(t), ~New(t)',
           ShapeOf(pc'[t], loc'[t]), PointsOf(pc'[t], loc'[t], map', hist'),
           loc'[t].ref \in {NoHistory, loc[t].ref} \/ \E k \in Keys : loc'[t].ref = map[k],
           pc[t] \notin {"push", "add", "rmsize", "rmkey"}
    PROVE  Effect(t)
<1>1. Frame(t) /\ Refers(t)
  BY DEF Frame, Refers
<1>2. Fills(t)
  <2> SUFFICES ASSUME NEW k \in Keys, map[k] # NoHistory, map[k] = loc[t].ref
               PROVE  hist[map[k]].evs # <<>>
    BY DEF Fills
  <2>1. Works(t, k)
    <3>1. pc[t] \in Dereferencing
      BY Here DEF ShapeOf
    <3>2. \E j \in Keys : loc[t].ref = map[j] /\ Works(t, j)
      <4>1. CASE pc[t] = "last"
        BY <4>1, Here, TrafficAssumption DEF ShapeOf, PointsOf, Loading, Works
      <4>2. CASE pc[t] \in {"state", "vars", "storeset"} \cup Removing
        BY <4>2, Here DEF ShapeOf, PointsOf, Works, Removing
      <4> QED BY <3>1, <4>1, <4>2 DEF Dereferencing, Removing
    <3> QED BY <3>2 DEF Inv, Injective
  <2>2. \A s \in Threads : loc[s].key = k => s = t
    BY <2>1 DEF Inv, Apart, Works
  <2> QED BY <2>2 DEF Inv, Filled
<1> QED BY <1>1, <1>2 DEF Effect

-----------------------------------------------------------------------------
(* The type invariant in parts.                                            *)
StoreTypes ==
    /\ map \in [Keys -> HistoryIds \cup {NoHistory}]
    /\ hist \in [HistoryIds -> [evs: Seq(Events), chain: 0 .. MaxRecv]]

OtherTypes ==
    /\ lastLoaded \in Events
    /\ pending \in [1 .. MaxRecv -> Events]
    /\ conf \in [data: BOOLEAN, history: BOOLEAN, purge: BOOLEAN]
    /\ received \in 0 .. MaxRecv
    /\ open \subseteq 1 .. MaxRecv
    /\ stored \subseteq Keys \X (0 .. MaxRecv)
    /\ latest \in [Keys -> 0 .. MaxRecv]

Typed(t) ==
    /\ StoreTypes' /\ OtherTypes'
    /\ pc'[t] \in Dereferencing => loc'[t].ref \in HistoryIds

(* The variables of the store, and the others.                             *)
LEMMA Types ==
    ASSUME TypeOK
    PROVE  StoreTypes /\ OtherTypes
BY DEF TypeOK, StoreTypes, OtherTypes

(* What is stored is an event.                                             *)
LEMMA EventType ==
    ASSUME NEW r \in 0 .. MaxRecv, NEW s \in States
    PROVE  Event(r, s) \in Events /\ Event(r, s).recv = r
BY DEF Event, BaseEvent, Events

(* The default event is one.                                               *)
LEMMA NoEventType == NoEvent \in Events
<1>1. 0 \in 0 .. MaxRecv /\ "" \in States
  BY TrafficAssumption DEF States
<1> QED BY <1>1, EventType, ZenonT(30) DEF NoEvent

(* The values that need no thread.                                         *)
LEMMA Values == {"", "initial"} \subseteq States /\ 0 \in 0 .. MaxRecv /\ NoKey \notin Keys
BY TrafficAssumption DEF States

(* A request is taken.                                                     *)
LEMMA ReceiveEffect ==
    ASSUME Inv, NEW w \in Workers, Receive(w)
    PROVE  Effect(w) /\ Typed(w)
<1>0. w \in Threads /\ TypeOK
  BY DEF Threads, Inv
<1>1. PICK k \in Keys : Free(k) /\ Go(w, "find", [Unused EXCEPT !.recv = received', !.key = k])
  BY ZenonT(30) DEF Receive
<1> DEFINE l == [Unused EXCEPT !.recv = received', !.key = k]
<1>2. received' \in 0 .. MaxRecv /\ received' # 0
  BY <1>0, TrafficAssumption DEF Receive, TypeOK
<1>3. l \in Locals
  BY <1>2, UnusedType, ZenonT(30) DEF Locals
<1>4. Moves(w) /\ pc'[w] = "find" /\ loc'[w] = l
  BY <1>0, <1>1, <1>3, GoMoves DEF Stages
<1>5. /\ l.key = k /\ l.foreign = NoKey /\ l.target = NoKey /\ l.recv = received'
      /\ l.ref = NoHistory
  BY DEF Unused
<1> HIDE DEF l
<1>6. Claims(w)
  <2>1. NoKey \notin Keys
    BY TrafficAssumption
  <2> QED BY <1>1, <1>4, <1>5, <2>1 DEF Claims, Works
<1>7. ShapeOf(pc'[w], loc'[w]) /\ PointsOf(pc'[w], loc'[w], map', hist')
  BY <1>2, <1>4, <1>5 DEF ShapeOf, PointsOf, Loading, Removing, Dereferencing
<1>8. UNCHANGED <<map, hist>> /\ ~New(w)' /\ pc[w] = "idle"
  BY <1>4 DEF Receive, data, New
<1>9. Effect(w)
  BY <1>0, <1>4, <1>5, <1>6, <1>7, <1>8, QuietEffect
<1>10. Typed(w)
  BY <1>0, <1>2, <1>4, <1>8, Types DEF Receive, Typed, StoreTypes, OtherTypes, data, ghosts, Dereferencing
<1> QED BY <1>9, <1>10

(* The steps of a worker that leave the store alone and go on with the     *)
(* same keys, or with a foreign one that is free.                          *)
LEMMA GoesOn ==
    ASSUME Inv, NEW t \in Threads, NEW stage \in Stages, NEW l \in Locals, Go(t, stage, l),
           pc[t] \notin {"push", "add", "rmsize", "rmkey"}, stage \notin {"push", "add"},
           l.key = loc[t].key, l.foreign \in {loc[t].foreign, NoKey} \/ Free(l.foreign),
           ShapeOf(stage, l), PointsOf(stage, l, map, hist),
           l.ref \in {NoHistory, loc[t].ref} \/ \E k \in Keys : l.ref = map[k],
           stage \in Dereferencing => l.ref \in HistoryIds,
           UNCHANGED <<map, hist>>, OtherTypes'
    PROVE  Effect(t) /\ Typed(t)
<1>1. Moves(t) /\ pc'[t] = stage /\ loc'[t] = l
  BY GoMoves DEF Inv
<1>2. Claims(t)
  BY <1>1, Values, ZenonT(30) DEF Claims, Works
<1>3. PointsOf(pc'[t], loc'[t], map', hist') /\ ShapeOf(pc'[t], loc'[t])
  BY <1>1
<1>4. ~New(t)'
  BY <1>1 DEF New
<1>5. Effect(t)
  BY <1>1, <1>2, <1>3, <1>4, QuietEffect
<1>6. Typed(t)
  BY <1>1, Types DEF Inv, Typed, StoreTypes
<1> QED BY <1>5, <1>6

(* Or end the request.                                                     *)
LEMMA Ends ==
    ASSUME Inv, NEW t \in Threads, Answer(t), pc[t] \notin Removing \cup {"idle", "push", "add"},
           UNCHANGED <<map, hist>>, open' \subseteq 1 .. MaxRecv => OtherTypes'
    PROVE  Effect(t) /\ Typed(t)
<1>1. /\ Moves(t) /\ pc'[t] = "idle" /\ loc'[t] = Unused
      /\ open' \subseteq 1 .. MaxRecv /\ Claims(t)
      /\ ShapeOf(pc'[t], loc'[t]) /\ PointsOf(pc'[t], loc'[t], map', hist')
  BY AnswerEffect
<1>2. ~New(t)' /\ loc'[t].ref = NoHistory
  BY <1>1, UnusedFields DEF New
<1>3. Effect(t)
  BY <1>1, <1>2, QuietEffect DEF Removing
<1>4. Typed(t)
  BY <1>1, Types DEF Inv, Typed, StoreTypes, Dereferencing
<1> QED BY <1>3, <1>4

-----------------------------------------------------------------------------
(* findLastRegisteredRequestState.                                         *)
LEMMA FindEffect ==
    ASSUME Inv, NEW w \in Workers, FindMissing(w) \/ FindHistory(w) \/ FindState(w) \/ FindVars(w)
    PROVE  Effect(w) /\ Typed(w)
<1>0. w \in Threads /\ TypeOK
  BY DEF Threads, Inv
<1>1. /\ loc[w] \in Locals /\ ShapeOf(pc[w], loc[w]) /\ PointsOf(pc[w], loc[w], map, hist)
      /\ "initial" \in States /\ 0 \in 0 .. MaxRecv
  BY <1>0, LocalTypes, Here, Values, ZenonT(30)
<1>2. UNCHANGED <<map, hist>> /\ OtherTypes'
  BY <1>0, Types, ZenonT(30) DEF FindMissing, FindHistory, FindState, FindVars, data, ghosts, OtherTypes
<1>3. CASE FindMissing(w)
  <2> DEFINE l == [loc[w] EXCEPT !.in = "initial", !.chain = 0]
  <2>1. pc[w] = "find" /\ Go(w, "match", l)
    BY <1>3 DEF FindMissing
  <2>2. l \in Locals /\ l.key = loc[w].key /\ l.foreign = loc[w].foreign /\ l.ref = loc[w].ref
        /\ l.target = loc[w].target /\ l.recv = loc[w].recv
    BY <1>1, ZenonT(30) DEF Locals
  <2> HIDE DEF l
  <2>3. ShapeOf("match", l) /\ PointsOf("match", l, map, hist)
    BY <1>1, <2>1, <2>2 DEF ShapeOf, PointsOf, Loading, Removing, Dereferencing
  <2> QED BY <1>0, <1>2, <2>1, <2>2, <2>3, GoesOn DEF Stages, Dereferencing
<1>4. CASE FindHistory(w)
  <2> DEFINE l == [loc[w] EXCEPT !.ref = map[loc[w].key]]
  <2>1. pc[w] = "find" /\ Go(w, "state", l) /\ loc[w].key \in Keys
    BY <1>1, <1>4 DEF FindHistory, ShapeOf
  <2>2. map[loc[w].key] \in HistoryIds
    BY <1>0, <1>4, <2>1 DEF FindHistory, TypeOK
  <2>3. l \in Locals /\ l.key = loc[w].key /\ l.foreign = loc[w].foreign
        /\ l.ref = map[loc[w].key]
        /\ l.target = loc[w].target /\ l.recv = loc[w].recv
    BY <1>1, <2>2 DEF Locals
  <2> HIDE DEF l
  <2>4. ShapeOf("state", l) /\ PointsOf("state", l, map, hist)
    BY <1>1, <2>1, <2>3 DEF ShapeOf, PointsOf, Loading, Removing, Dereferencing
  <2> QED BY <1>0, <1>2, <2>1, <2>2, <2>3, <2>4, GoesOn, ZenonT(30) DEF Stages
<1>5. CASE FindState(w)
  <2>1. pc[w] = "state" /\ loc[w].ref \in HistoryIds
    BY <1>0, <1>5 DEF FindState, TypeOK, Dereferencing
  <2>2. PICK s \in States : Go(w, "vars", [loc[w] EXCEPT !.in = s])
    <3>1. hist[loc[w].ref].evs \in Seq(Events)
      BY <1>0, <2>1 DEF TypeOK
    <3>2. hist[loc[w].ref].evs # <<>> => Back(hist[loc[w].ref].evs) \in Events
      BY <3>1 DEF Back
    <3>3. hist[loc[w].ref].evs # <<>> => Back(hist[loc[w].ref].evs).state \in States
      BY <3>2 DEF Events
    <3> QED BY <1>5, <3>3 DEF FindState
  <2> DEFINE l == [loc[w] EXCEPT !.in = s]
  <2>3. l \in Locals /\ l.key = loc[w].key /\ l.foreign = loc[w].foreign
        /\ l.ref = loc[w].ref
        /\ l.target = loc[w].target /\ l.recv = loc[w].recv
    BY <1>1, <2>2 DEF Locals
  <2> HIDE DEF l
  <2>4. ShapeOf("vars", l) /\ PointsOf("vars", l, map, hist)
    BY <1>1, <2>1, <2>3 DEF ShapeOf, PointsOf, Loading, Removing, Dereferencing
  <2>5. Go(w, "vars", l)
    BY <2>2 DEF l
  <2> QED BY <1>0, <1>2, <2>1, <2>3, <2>4, <2>5, GoesOn, ZenonT(30) DEF Stages
<1>6. CASE FindVars(w)
  <2>1. pc[w] = "vars" /\ loc[w].ref \in HistoryIds
    BY <1>0, <1>6, ZenonT(30) DEF FindVars, TypeOK, Dereferencing
  <2>2. hist[loc[w].ref].chain \in 0 .. MaxRecv /\ NoHistory \notin HistoryIds
    BY <1>0, <2>1 DEF TypeOK, NoHistory, HistoryIds
  <2>3. PICK l : /\ Go(w, "match", l) /\ l \in Locals
                 /\ l.key = loc[w].key /\ l.foreign = loc[w].foreign
                 /\ l.ref = NoHistory /\ l.target = loc[w].target /\ l.recv = loc[w].recv
    <3>1. CASE loc[w].in = ""
      <4> DEFINE l == [loc[w] EXCEPT !.in = "initial", !.chain = 0, !.ref = NoHistory]
      <4>1. l \in Locals /\ l.key = loc[w].key /\ l.foreign = loc[w].foreign
            /\ l.ref = NoHistory /\ l.target = loc[w].target /\ l.recv = loc[w].recv
        BY <1>1, ZenonT(30) DEF Locals
      <4> QED BY <1>6, <3>1, <4>1, ZenonT(30) DEF FindVars
    <3>2. CASE loc[w].in # ""
      <4> DEFINE l == [loc[w] EXCEPT !.chain = hist[loc[w].ref].chain, !.ref = NoHistory]
      <4>1. l \in Locals /\ l.key = loc[w].key /\ l.foreign = loc[w].foreign
            /\ l.ref = NoHistory /\ l.target = loc[w].target /\ l.recv = loc[w].recv
        BY <1>1, <2>2, ZenonT(30) DEF Locals
      <4> QED BY <1>6, <3>2, <4>1, ZenonT(30) DEF FindVars
    <3> QED BY <3>1, <3>2, ZenonT(30)
  <2>4. ShapeOf("match", l) /\ PointsOf("match", l, map, hist)
    BY <1>1, <2>1, <2>3 DEF ShapeOf, PointsOf, Loading, Removing, Dereferencing
  <2> QED BY <1>0, <1>2, <2>1, <2>3, <2>4, GoesOn, ZenonT(30) DEF Stages, Dereferencing
<1> QED BY <1>3, <1>4, <1>5, <1>6

(* A provision is found, or none.                                          *)
LEMMA MatchEffect ==
    ASSUME Inv, NEW w \in Workers, Match(w) \/ NoMatch(w)
    PROVE  Effect(w) /\ Typed(w)
<1>0. w \in Threads /\ TypeOK
  BY DEF Threads, Inv
<1>1. /\ loc[w] \in Locals /\ ShapeOf(pc[w], loc[w]) /\ PointsOf(pc[w], loc[w], map, hist)
      /\ "" \in States /\ pc[w] = "match" /\ conf.history \in BOOLEAN
  BY <1>0, LocalTypes, Here, Values, ZenonT(30) DEF Match, NoMatch, TypeOK
<1>2. UNCHANGED <<map, hist>> /\ (open' \subseteq 1 .. MaxRecv => OtherTypes')
  BY <1>0, Types, ZenonT(30) DEF Match, NoMatch, data, ghosts, OtherTypes
<1>3. open \subseteq 1 .. MaxRecv
  BY <1>0 DEF TypeOK
<1>4. ASSUME Answer(w) PROVE Effect(w) /\ Typed(w)
  BY <1>0, <1>1, <1>2, <1>4, Ends, ZenonT(30) DEF Removing
<1>5. ASSUME NEW stage \in {"get", "purgeget"}, NEW l \in Locals, UNCHANGED open, Go(w, stage, l),
             l.key = loc[w].key, l.target = loc[w].key, l.recv = loc[w].recv, l.ref = loc[w].ref,
             l.foreign \in {loc[w].foreign, NoKey} \/ Free(l.foreign)
      PROVE  Effect(w) /\ Typed(w)
  <2>1. ShapeOf(stage, l) /\ PointsOf(stage, l, map, hist)
    BY <1>1, <1>5, ZenonT(30) DEF ShapeOf, PointsOf, Loading, Removing, Dereferencing
  <2> QED BY <1>0, <1>1, <1>2, <1>3, <1>5, <2>1, GoesOn, ZenonT(30) DEF Stages, Dereferencing
<1>6. CASE Match(w)
  <2>1. PICK out \in OutStates, own \in OutStates, f \in ForeignKeys \cup {NoKey} :
         /\ IF f = NoKey THEN own = out ELSE f # loc[w].key /\ Free(f)
         /\ LET l == [loc[w] EXCEPT !.out = out, !.own = own, !.foreign = f, !.keep = conf.history,
                                    !.target = loc[w].key]
            IN  \/ Go(w, "purgeget", l) /\ UNCHANGED open
                \/ Go(w, "get", l) /\ UNCHANGED open
                \/ Answer(w)
    BY <1>6, ZenonT(30) DEF Match
  <2> DEFINE l == [loc[w] EXCEPT !.out = out, !.own = own, !.foreign = f, !.keep = conf.history,
                                 !.target = loc[w].key]
  <2>2. out \in States /\ own \in States /\ f \in Keys \cup {NoKey}
    BY TrafficAssumption, ZenonT(30) DEF States
  <2>3. /\ l \in Locals /\ l.key = loc[w].key /\ l.target = loc[w].key
        /\ l.recv = loc[w].recv /\ l.ref = loc[w].ref /\ l.foreign = f
    BY <1>1, <2>2, ZenonT(30) DEF Locals
  <2>4. \/ Go(w, "purgeget", l) /\ UNCHANGED open
        \/ Go(w, "get", l) /\ UNCHANGED open
        \/ Answer(w)
    BY <2>1
  <2> HIDE DEF l
  <2> QED BY <1>4, <1>5, <2>1, <2>3, <2>4, ZenonT(30)
<1>7. CASE NoMatch(w)
  <2> DEFINE l == [loc[w] EXCEPT !.out = "", !.own = "", !.keep = TRUE, !.target = loc[w].key]
  <2>1. (Go(w, "get", l) /\ UNCHANGED open) \/ Answer(w)
    BY <1>7 DEF NoMatch
  <2>2. /\ l \in Locals /\ l.key = loc[w].key /\ l.target = loc[w].key
        /\ l.recv = loc[w].recv /\ l.ref = loc[w].ref /\ l.foreign = loc[w].foreign
    BY <1>1, ZenonT(30) DEF Locals
  <2> HIDE DEF l
  <2> QED BY <1>4, <1>5, <2>1, <2>2
<1> QED BY <1>6, <1>7

(* The history after loadEvent.                                            *)
LEMMA LoadedFacts ==
    ASSUME NEW evs \in Seq(Events), NEW e \in Events, NEW keep \in BOOLEAN
    PROVE  /\ Loaded(evs, e, keep) \in Seq(Events) /\ Loaded(evs, e, keep) # <<>>
           /\ evs = <<>> => Loaded(evs, e, keep) = <<e>>
           /\ keep => Loaded(evs, e, keep) = Append(evs, e)
<1>1. CASE ~keep /\ Len(evs) # 0
  <2>1. [evs EXCEPT ![1] = e] \in Seq(Events) /\ Len([evs EXCEPT ![1] = e]) = Len(evs)
    BY <1>1
  <2>2. evs # <<>>
    BY <1>1
  <2> QED BY <1>1, <2>1, <2>2, ZenonT(30) DEF Loaded
<1>2. CASE ~(~keep /\ Len(evs) # 0)
  <2>1. Append(evs, e) \in Seq(Events) /\ Len(Append(evs, e)) = Len(evs) + 1
    OBVIOUS
  <2>2. Append(<<>>, e) = <<e>>
    OBVIOUS
  <2>3. Loaded(evs, e, keep) = Append(evs, e)
    BY <1>2 DEF Loaded
  <2>4. Append(evs, e) # <<>>
    BY <2>1
  <2> QED BY <2>1, <2>2, <2>3, <2>4, ZenonT(30)
<1> QED BY <1>1, <1>2

(* The event of a request.                                                 *)
ThisEvent(w) == Event(loc[w].recv, StoredState(w))

(* So is the event of a thread that loads.                                 *)
LEMMA ThisEventType ==
    ASSUME TypeOK, NEW w \in Threads
    PROVE  ThisEvent(w) \in Events /\ ThisEvent(w).recv = loc[w].recv
<1>1. StoredState(w) \in States
  BY LocalTypes DEF StoredState
<1> QED BY <1>1, LocalTypes, EventType DEF ThisEvent

(* The event goes into the history, and the history into the map.          *)
LEMMA LoadPushEffect ==
    ASSUME Inv, NEW w \in Workers, LoadPush(w)
    PROVE  Effect(w) /\ Typed(w)
<1>0. w \in Threads /\ TypeOK
  BY DEF Threads, Inv
<1>1. /\ loc[w] \in Locals /\ ShapeOf(pc[w], loc[w]) /\ PointsOf(pc[w], loc[w], map, hist)
      /\ pc[w] = "push" /\ loc[w].ref \in HistoryIds /\ loc[w].keep \in BOOLEAN
      /\ loc[w].maiden \in BOOLEAN
      /\ loc[w].target \in Keys /\ loc[w].recv \in 0 .. MaxRecv
  BY <1>0, LocalTypes, Here DEF LoadPush, ShapeOf, Dereferencing, Loading
<1> DEFINE h == loc[w].ref
           e == ThisEvent(w)
           L == Loaded(hist[h].evs, e, loc[w].keep)
<1>2. hist[h] \in [evs: Seq(Events), chain: 0 .. MaxRecv] /\ e \in Events /\ e.recv = loc[w].recv
  BY <1>0, <1>1, ThisEventType DEF TypeOK
<1>3. L \in Seq(Events) /\ L # <<>> /\ (hist[h].evs = <<>> => L = <<e>>)
  BY <1>1, <1>2, LoadedFacts, ZenonT(30)
<1>4. hist' = [hist EXCEPT ![h].evs = L]
  BY DEF LoadPush, ThisEvent
<1> HIDE DEF e, L
<1>5. /\ hist'[h] = [evs |-> L, chain |-> hist[h].chain]
      /\ \A i \in HistoryIds : i # h => hist'[i] = hist[i]
      /\ hist' \in [HistoryIds -> [evs: Seq(Events), chain: 0 .. MaxRecv]]
  BY <1>0, <1>1, <1>2, <1>3, <1>4 DEF TypeOK
<1>6. map' = map /\ OtherTypes'
  BY <1>0, <1>1, Types DEF LoadPush, ghosts, OtherTypes
<1> DEFINE stage == IF loc[w].maiden THEN "add" ELSE "last"
<1>7. Moves(w) /\ pc'[w] = stage /\ loc'[w] = loc[w]
  <2>1. Go(w, stage, loc[w]) /\ stage \in Stages
    BY DEF LoadPush, Stages
  <2> QED BY <1>0, <1>1, <2>1, GoMoves
<1>8. ShapeOf(pc'[w], loc'[w])
  BY <1>1, <1>7 DEF ShapeOf, Loading, Removing, Dereferencing
<1>9. PointsOf(pc'[w], loc'[w], map', hist')
  <2>1. CASE loc[w].maiden
    <3>1. hist[h] = NewHistory /\ map[loc[w].target] = NoHistory
      BY <1>1, <2>1 DEF PointsOf
    <3>2. hist'[h] = [evs |-> <<e>>, chain |-> 0]
      BY <1>3, <1>5, <3>1 DEF NewHistory
    <3> QED BY <1>2, <1>6, <1>7, <2>1, <3>1, <3>2, ZenonT(30) DEF PointsOf, Removing
  <2>2. CASE ~loc[w].maiden
    BY <1>1, <1>6, <1>7, <2>2 DEF PointsOf, Removing
  <2> QED BY <2>1, <2>2
<1>10. Claims(w) /\ Frame(w)
  BY <1>5, <1>6, <1>7 DEF Claims, Works, Frame
<1>11. Refers(w)
  BY <1>1, <1>6, <1>7 DEF Refers, New
<1>12. Fills(w)
  <2>1. hist'[h].evs # <<>>
    BY <1>3, <1>5
  <2> QED BY <1>1, <1>6, <2>1 DEF Fills
<1>13. Effect(w)
  BY <1>7, <1>8, <1>9, <1>10, <1>11, <1>12 DEF Effect
<1>14. Typed(w)
  BY <1>0, <1>1, <1>5, <1>6, <1>7, Types DEF Typed, StoreTypes
<1> QED BY <1>13, <1>14

(* add() puts the new history under its key; nobody else has it.           *)
LEMMA LoadAddEffect ==
    ASSUME Inv, NEW w \in Workers, LoadAdd(w)
    PROVE  Effect(w) /\ Typed(w)
<1>0. w \in Threads /\ TypeOK
  BY DEF Threads, Inv
<1>1. /\ loc[w] \in Locals /\ ShapeOf(pc[w], loc[w]) /\ PointsOf(pc[w], loc[w], map, hist)
      /\ pc[w] = "add" /\ loc[w].ref \in HistoryIds /\ loc[w].target \in Keys
      /\ loc[w].target \in {loc[w].key, loc[w].foreign}
  BY <1>0, LocalTypes, Here, Values, ZenonT(30) DEF LoadAdd, ShapeOf, Dereferencing, Loading
<1> DEFINE h == loc[w].ref
           k == loc[w].target
<1>2. /\ map' = [map EXCEPT ![k] = h] /\ hist' = hist /\ OtherTypes'
  BY <1>0, Types DEF LoadAdd, ghosts, OtherTypes
<1>3. /\ map'[k] = h /\ \A j \in Keys : j # k => map'[j] = map[j]
      /\ map' \in [Keys -> HistoryIds \cup {NoHistory}]
  BY <1>0, <1>1, <1>2 DEF TypeOK
<1>4. Moves(w) /\ pc'[w] = "last" /\ loc'[w] = loc[w]
  BY <1>0, <1>1, GoMoves DEF LoadAdd, Stages
<1>5. ShapeOf(pc'[w], loc'[w]) /\ PointsOf(pc'[w], loc'[w], map', hist')
  BY <1>1, <1>3, <1>4, ZenonT(30) DEF ShapeOf, PointsOf, Loading, Removing, Dereferencing
<1>6. Claims(w)
  BY <1>4 DEF Claims, Works
<1>7. Frame(w)
  BY <1>1, <1>2, <1>3 DEF Frame, Works, New
<1>8. Refers(w)
  BY <1>4 DEF Refers, New
<1>9. Fills(w)
  <2>1. hist[h].evs # <<>>
    <3>1. PICK e \in Events : hist[h] = [evs |-> <<e>>, chain |-> 0]
      BY <1>1 DEF PointsOf
    <3>2. <<e>> # <<>>
      OBVIOUS
    <3> QED BY <3>1, <3>2
  <2> QED BY <1>1, <1>2, <1>3, <2>1, ZenonT(30) DEF Fills
<1>10. Effect(w)
  BY <1>4, <1>5, <1>6, <1>7, <1>8, <1>9 DEF Effect
<1>11. Typed(w)
  BY <1>0, <1>1, <1>2, <1>3, <1>4, Types DEF Typed, StoreTypes
<1> QED BY <1>10, <1>11

(* The last event is remembered and registered.                            *)
LEMMA LoadLastEffect ==
    ASSUME Inv, NEW w \in Workers, LoadLast(w) \/ RegisterPending(w)
    PROVE  Effect(w) /\ Typed(w)
<1>0. w \in Threads /\ TypeOK
  BY DEF Threads, Inv
<1>1. /\ loc[w] \in Locals /\ ShapeOf(pc[w], loc[w]) /\ NoHistory \notin HistoryIds
      /\ loc[w].recv \in 0 .. MaxRecv /\ pc[w] \in {"last", "pend"}
  BY <1>0, LocalTypes, Here, ZenonT(30) DEF LoadLast, RegisterPending
<1>2. UNCHANGED <<map, hist>>
  BY ZenonT(30) DEF LoadLast, RegisterPending, data
<1>3. open' \subseteq 1 .. MaxRecv => OtherTypes'
  <2>1. CASE LoadLast(w)
    <3>1. pc[w] = "last" /\ loc[w].ref \in HistoryIds /\ loc[w].target \in Keys
      BY <1>0, <1>1, <2>1 DEF LoadLast, TypeOK, Dereferencing, ShapeOf, Loading
    <3>2. hist[loc[w].ref].evs \in Seq(Events)
      BY <1>0, <3>1 DEF TypeOK
    <3>3. lastLoaded' \in Events
      BY <2>1, <3>2, NoEventType DEF LoadLast, Back
    <3>4. stored' \subseteq Keys \X (0 .. MaxRecv)
      BY <1>0, <1>1, <2>1, <3>1 DEF LoadLast, TypeOK
    <3> QED BY <1>0, <2>1, <3>3, <3>4, Types DEF LoadLast, OtherTypes
  <2>2. CASE RegisterPending(w)
    BY <1>0, <1>1, <2>2, Types, ZenonT(30) DEF RegisterPending, OtherTypes, data, ghosts
  <2> QED BY <2>1, <2>2
<1>4. CASE Answer(w)
  BY <1>0, <1>1, <1>2, <1>3, <1>4, Ends DEF Removing
<1>5. CASE ~Answer(w)
  <2>1. open' = open /\ OtherTypes'
    BY <1>0, <1>3, <1>5, ZenonT(30) DEF LoadLast, RegisterPending, TypeOK
  <2>2. CASE LoadLast(w)
    <3> DEFINE l == [loc[w] EXCEPT !.ref = NoHistory]
    <3>1. pc[w] = "last" /\ Go(w, "pend", l)
      BY <1>5, <2>2 DEF LoadLast
    <3>2. /\ l \in Locals /\ l.key = loc[w].key /\ l.foreign = loc[w].foreign
          /\ l.target = loc[w].target /\ l.recv = loc[w].recv /\ l.ref = NoHistory
      BY <1>1 DEF Locals
    <3> HIDE DEF l
    <3>3. ShapeOf("pend", l) /\ PointsOf("pend", l, map, hist)
      BY <1>1, <3>1, <3>2 DEF ShapeOf, PointsOf, Loading, Removing, Dereferencing
    <3> QED BY <1>0, <1>2, <2>1, <3>1, <3>2, <3>3, GoesOn, ZenonT(30) DEF Stages, Dereferencing
  <2>3. CASE RegisterPending(w)
    <3>1. pc[w] = "pend" /\ Go(w, "storeget", loc[w])
      BY <1>5, <2>3, ZenonT(30) DEF RegisterPending
    <3>2. ShapeOf("storeget", loc[w]) /\ PointsOf("storeget", loc[w], map, hist)
      BY <1>1, <3>1 DEF ShapeOf, PointsOf, Loading, Removing, Dereferencing
    <3> QED BY <1>0, <1>1, <1>2, <2>1, <3>1, <3>2, GoesOn, ZenonT(30) DEF Stages, Dereferencing
  <2> QED BY <2>2, <2>3
<1> QED BY <1>4, <1>5

(* After the chain variables: the request ends, or goes on with the event  *)
(* of the foreign key.                                                     *)
LEMMA AfterChainEffect ==
    ASSUME Inv, NEW w \in Threads, AfterChain(w), pc[w] \in {"storeget", "storeset"}
    PROVE  /\ Moves(w) /\ Claims(w) /\ open' \subseteq 1 .. MaxRecv
           /\ pc'[w] \in {"idle", "get"} /\ loc'[w].ref = NoHistory
           /\ ShapeOf(pc'[w], loc'[w]) /\ PointsOf(pc'[w], loc'[w], map', hist')
<1>1. /\ loc[w] \in Locals /\ ShapeOf(pc[w], loc[w]) /\ conf.history \in BOOLEAN
      /\ loc[w].foreign \in Keys \cup {NoKey} /\ open \subseteq 1 .. MaxRecv /\ TypeOK
  BY Here, LocalTypes DEF TypeOK
<1>2. CASE Answer(w)
  BY <1>2, AnswerEffect, UnusedFields, ZenonT(30) DEF Removing
<1>3. CASE ~Answer(w)
  <2> DEFINE l == [loc[w] EXCEPT !.target = loc[w].foreign, !.ref = NoHistory, !.keep = conf.history]
  <2>1. loc[w].foreign \in Keys /\ Go(w, "get", l) /\ open' = open
    BY <1>1, <1>3 DEF AfterChain
  <2>2. /\ l \in Locals /\ l.key = loc[w].key /\ l.foreign = loc[w].foreign
        /\ l.target = loc[w].foreign /\ l.recv = loc[w].recv /\ l.ref = NoHistory
    BY <1>1, <2>1, ZenonT(30) DEF Locals
  <2> HIDE DEF l
  <2>3. Moves(w) /\ pc'[w] = "get" /\ loc'[w] = l
    BY <1>1, <2>1, <2>2, GoMoves DEF Stages
  <2>4. ShapeOf("get", l)
    BY <1>1, <2>1, <2>2 DEF ShapeOf, Loading, Removing, Dereferencing
  <2>5. PointsOf("get", l, map', hist')
    BY DEF PointsOf, Removing
  <2>6. Claims(w)
    BY <2>2, <2>3 DEF Claims, Works
  <2> QED BY <1>1, <2>1, <2>2, <2>3, <2>4, <2>5, <2>6, ZenonT(30)
<1> QED BY <1>2, <1>3

(* storeChainVariables: the history is found again, and set.               *)
LEMMA StoreEffect ==
    ASSUME Inv, NEW w \in Workers, StoreGet(w) \/ StoreSet(w)
    PROVE  Effect(w) /\ Typed(w)
<1>0. w \in Threads /\ TypeOK
  BY DEF Threads, Inv
<1>1. /\ loc[w] \in Locals /\ ShapeOf(pc[w], loc[w]) /\ PointsOf(pc[w], loc[w], map, hist)
      /\ loc[w].recv \in 0 .. MaxRecv /\ pc[w] \in {"storeget", "storeset"}
      /\ loc[w].key \in Keys /\ NoHistory \notin HistoryIds
  BY <1>0, LocalTypes, Here DEF StoreGet, StoreSet, ShapeOf
<1>2. map' = map /\ (open' \subseteq 1 .. MaxRecv => OtherTypes')
  BY <1>0, Types DEF StoreGet, StoreSet, OtherTypes, data, ghosts
<1>3. CASE StoreGet(w)
  <2>1. pc[w] = "storeget" /\ hist' = hist
    BY <1>3 DEF StoreGet, data
  <2>2. CASE map[loc[w].key] = NoHistory
    <3>1. AfterChain(w)
      BY <1>3, <2>2 DEF StoreGet
    <3>2. /\ Moves(w) /\ Claims(w) /\ open' \subseteq 1 .. MaxRecv
          /\ pc'[w] \in {"idle", "get"} /\ loc'[w].ref = NoHistory
          /\ ShapeOf(pc'[w], loc'[w]) /\ PointsOf(pc'[w], loc'[w], map', hist')
      BY <1>0, <2>1, <3>1, AfterChainEffect
    <3>3. Effect(w)
      BY <1>0, <1>2, <2>1, <3>2, QuietEffect DEF New
    <3> QED BY <1>0, <1>2, <2>1, <3>2, <3>3, Types DEF Typed, StoreTypes, Dereferencing
  <2>3. CASE map[loc[w].key] # NoHistory
    <3> DEFINE l == [loc[w] EXCEPT !.ref = map[loc[w].key]]
    <3>1. Go(w, "storeset", l) /\ open' = open
      BY <1>3, <2>3 DEF StoreGet
    <3>2. map[loc[w].key] \in HistoryIds
      BY <1>0, <1>1, <2>3 DEF TypeOK
    <3>3. /\ l \in Locals /\ l.key = loc[w].key /\ l.foreign = loc[w].foreign
          /\ l.target = loc[w].target /\ l.recv = loc[w].recv /\ l.ref = map[loc[w].key]
      BY <1>1, <3>2 DEF Locals
    <3> HIDE DEF l
    <3>4. ShapeOf("storeset", l) /\ PointsOf("storeset", l, map, hist)
      BY <1>1, <2>1, <3>3 DEF ShapeOf, PointsOf, Loading, Removing, Dereferencing
    <3>5. OtherTypes'
      BY <1>0, <1>2, <3>1 DEF TypeOK
    <3> QED BY <1>0, <1>1, <1>2, <2>1, <3>1, <3>2, <3>3, <3>4, <3>5, GoesOn, ZenonT(30) DEF Stages
  <2> QED BY <2>2, <2>3
<1>4. CASE StoreSet(w)
  <2> DEFINE h == loc[w].ref
  <2>1. pc[w] = "storeset" /\ AfterChain(w) /\ hist' = [hist EXCEPT ![h].chain = loc[w].recv]
    BY <1>4 DEF StoreSet
  <2>2. h \in HistoryIds /\ h = map[loc[w].key]
    BY <1>0, <1>1, <2>1 DEF TypeOK, Dereferencing, PointsOf
  <2>3. /\ hist'[h] = [evs |-> hist[h].evs, chain |-> loc[w].recv]
        /\ \A i \in HistoryIds : i # h => hist'[i] = hist[i]
        /\ hist' \in [HistoryIds -> [evs: Seq(Events), chain: 0 .. MaxRecv]]
    BY <1>0, <1>1, <2>1, <2>2, ZenonT(30) DEF TypeOK
  <2>4. /\ Moves(w) /\ Claims(w) /\ open' \subseteq 1 .. MaxRecv
        /\ pc'[w] \in {"idle", "get"} /\ loc'[w].ref = NoHistory
        /\ ShapeOf(pc'[w], loc'[w]) /\ PointsOf(pc'[w], loc'[w], map', hist')
    BY <1>0, <2>1, AfterChainEffect, ZenonT(30)
  <2>5. Frame(w) /\ Refers(w)
    BY <1>2, <2>3, <2>4, ZenonT(30) DEF Frame, Refers, New
  <2>6. Fills(w)
    <3> SUFFICES hist[h].evs # <<>>
      BY <1>2, <2>1, <2>3 DEF Fills
    <3>1. Works(w, loc[w].key)
      BY DEF Works
    <3>2. \A s \in Threads : loc[s].key = loc[w].key => s = w
      BY <1>0, <1>1, <3>1, ZenonT(30) DEF Inv, Apart, Works
    <3> QED BY <1>1, <2>1, <2>2, <3>2 DEF Inv, Filled
  <2>7. Effect(w)
    BY <2>4, <2>5, <2>6, ZenonT(30) DEF Effect
  <2>8. Typed(w)
    BY <1>0, <1>2, <2>3, <2>4, Types, ZenonT(30) DEF Typed, StoreTypes, Dereferencing
  <2> QED BY <2>7, <2>8
<1> QED BY <1>3, <1>4

(* A key is dropped by a thread that works on it.                          *)
LEMMA DroppedEffect ==
    ASSUME Inv, NEW t \in Threads, Dropped(loc[t].key), hist' = hist,
           pc[t] \in {"purge", "rmkey"}, Moves(t), pc'[t] = "idle", loc'[t] = Unused,
           lastLoaded' = lastLoaded, pending' = pending, conf' = conf, received' = received,
           open' \subseteq 1 .. MaxRecv
    PROVE  Effect(t) /\ Typed(t)
<1> DEFINE k == loc[t].key
<1>1. /\ TypeOK /\ k \in Keys /\ NoHistory \notin HistoryIds
      /\ ShapeOf(pc[t], loc[t]) /\ PointsOf(pc[t], loc[t], map, hist)
  BY Here, LocalTypes, ZenonT(30) DEF ShapeOf
<1>2. /\ map'[k] = NoHistory /\ \A j \in Keys : j # k => map'[j] = map[j]
      /\ map' \in [Keys -> HistoryIds \cup {NoHistory}]
  BY <1>1, ZenonT(30) DEF Dropped, TypeOK
<1>3. ShapeOf(pc'[t], loc'[t]) /\ PointsOf(pc'[t], loc'[t], map', hist')
  BY UnusedPlace, ZenonT(30)
<1>4. Claims(t)
  BY Values, UnusedFields, ZenonT(30) DEF Claims, Works
<1>5. Frame(t)
  BY <1>2 DEF Frame, Works
<1>6. Refers(t)
  BY UnusedFields DEF Refers, New
<1>7. Fills(t)
  <2>1. \A j \in Keys : j # k /\ map[j] = loc[t].ref => map[j] = NoHistory
    BY <1>1, ZenonT(30) DEF Inv, Injective, ShapeOf, PointsOf, Dereferencing, Removing
  <2> QED BY <1>2, <2>1 DEF Fills
<1>8. Effect(t)
  BY <1>3, <1>4, <1>5, <1>6, <1>7, ZenonT(30) DEF Effect
<1>9. latest' \in [Keys -> 0 .. MaxRecv] /\ stored' \subseteq Keys \X (0 .. MaxRecv)
  BY <1>1, Values, ZenonT(30) DEF Dropped, TypeOK
<1>10. Typed(t)
  BY <1>1, <1>2, <1>9, Types DEF Typed, StoreTypes, OtherTypes, Dereferencing
<1> QED BY <1>8, <1>10

(* The out-state "purge".                                                  *)
LEMMA PurgeEffect ==
    ASSUME Inv, NEW w \in Workers, PurgeGet(w) \/ Purge(w)
    PROVE  Effect(w) /\ Typed(w)
<1>0. w \in Threads /\ TypeOK
  BY DEF Threads, Inv
<1>1. loc[w] \in Locals /\ ShapeOf(pc[w], loc[w])
  BY <1>0, LocalTypes, Here
<1>2. CASE PurgeGet(w)
  <2>1. /\ pc[w] = "purgeget" /\ UNCHANGED <<map, hist>>
        /\ open' \subseteq 1 .. MaxRecv => OtherTypes'
    BY <1>0, <1>2, Types DEF PurgeGet, data, ghosts, OtherTypes
  <2>2. CASE Answer(w)
    BY <1>0, <2>1, <2>2, Ends DEF Removing
  <2>3. CASE ~Answer(w)
    <3>1. Go(w, "purge", loc[w]) /\ open' = open
      BY <1>2, <2>3 DEF PurgeGet
    <3>2. OtherTypes'
      BY <1>0, <2>1, <3>1 DEF TypeOK
    <3>3. ShapeOf("purge", loc[w]) /\ PointsOf("purge", loc[w], map, hist)
      BY <1>1, <2>1 DEF ShapeOf, PointsOf, Loading, Removing, Dereferencing
    <3> QED BY <1>0, <1>1, <2>1, <3>1, <3>2, <3>3, GoesOn DEF Stages, Dereferencing
  <2> QED BY <2>2, <2>3
<1>3. CASE Purge(w)
  <2>1. pc[w] = "purge" /\ Answer(w)
    BY <1>3 DEF Purge
  <2>2. /\ Moves(w) /\ pc'[w] = "idle" /\ loc'[w] = Unused /\ open' \subseteq 1 .. MaxRecv
    BY <1>0, <2>1, AnswerEffect DEF Removing
  <2> QED BY <1>0, <1>3, <2>1, <2>2, DroppedEffect, ZenonT(30) DEF Purge
<1> QED BY <1>2, <1>3

-----------------------------------------------------------------------------
(* The history without the event at i.                                     *)
LEMMA ErasedFacts ==
    ASSUME NEW evs \in Seq(Events), NEW i \in 1 .. Len(evs)
    PROVE  /\ Erased(evs, i) \in Seq(Events) /\ Len(Erased(evs, i)) = Len(evs) - 1
           /\ Erased(evs, i) = <<>> <=> Len(evs) = 1
           /\ \A j \in 1 .. Len(evs) - 1 : Erased(evs, i)[j] = IF j < i THEN evs[j] ELSE evs[j + 1]
<1> DEFINE n == Len(evs) - 1
           f == [j \in 1 .. n |-> IF j < i THEN evs[j] ELSE evs[j + 1]]
<1>1. n \in Nat /\ Len(evs) = n + 1
  OBVIOUS
<1>2. \A j \in 1 .. n : (IF j < i THEN evs[j] ELSE evs[j + 1]) \in Events
  <2> TAKE j \in 1 .. n
  <2>1. j \in 1 .. Len(evs) /\ j + 1 \in 1 .. Len(evs)
    BY <1>1
  <2> QED BY <2>1
<1>3. f \in [1 .. n -> Events]
  BY <1>2
<1>4. f \in Seq(Events) /\ Len(f) = n
  BY <1>1, <1>3
<1>5. f = <<>> <=> n = 0
  <2>1. \A s \in Seq(Events) : s = <<>> <=> Len(s) = 0
    OBVIOUS
  <2> HIDE DEF f
  <2> QED BY <1>4, <2>1
<1> QED BY <1>1, <1>4, <1>5 DEF Erased

(* clear and removeEvent...: the history is looked up, under a free key.   *)
LEMMA RemoveGetEffect ==
    ASSUME Inv, NEW a \in Removers, RemoveGet(a)
    PROVE  Effect(a) /\ Typed(a)
<1>0. a \in Threads /\ TypeOK
  BY DEF Threads, Inv
<1>1. PICK k \in Keys, stage \in {"rmkey", "rmevent"} :
        Free(k) /\ map[k] # NoHistory /\ Go(a, stage, [Unused EXCEPT !.key = k, !.ref = map[k]])
  BY ZenonT(30) DEF RemoveGet
<1> DEFINE l == [Unused EXCEPT !.key = k, !.ref = map[k]]
<1>2. map[k] \in HistoryIds
  BY <1>0, <1>1 DEF TypeOK
<1>3. l \in Locals /\ l.key = k /\ l.ref = map[k]
  BY <1>2, UnusedType, ZenonT(30) DEF Locals
<1>4. l.foreign = NoKey /\ l.target = NoKey
  BY DEF Unused
<1>5. Go(a, stage, l)
  BY <1>1
<1> HIDE DEF l
<1>6. Moves(a) /\ pc'[a] = stage /\ loc'[a] = l
  BY <1>0, <1>3, <1>5, GoMoves DEF Stages
<1>7. ShapeOf(stage, l) /\ PointsOf(stage, l, map, hist)
  BY <1>3, <1>4 DEF ShapeOf, PointsOf, Loading, Removing, Dereferencing
<1>8. Claims(a)
  BY <1>1, <1>3, <1>4, <1>6, Values, ZenonT(30) DEF Claims, Works
<1>9. pc[a] = "idle" /\ UNCHANGED <<map, hist>> /\ OtherTypes'
  BY <1>0, Types DEF RemoveGet, data, ghosts, OtherTypes
<1>10. Effect(a)
  BY <1>0, <1>3, <1>6, <1>7, <1>8, <1>9, QuietEffect DEF New
<1> QED BY <1>0, <1>2, <1>3, <1>6, <1>9, <1>10, Types DEF Typed, StoreTypes

(* One event is erased, or none; the key of an empty history goes.         *)
LEMMA RemoveEffect ==
    ASSUME Inv, NEW a \in Removers,
           RemoveEvent(a) \/ RemoveNothing(a) \/ RemoveSize(a) \/ RemoveKey(a)
    PROVE  Effect(a) /\ Typed(a)
<1>0. a \in Threads /\ TypeOK
  BY DEF Threads, Inv
<1> DEFINE k == loc[a].key
           h == loc[a].ref
<1>1. /\ loc[a] \in Locals /\ ShapeOf(pc[a], loc[a]) /\ PointsOf(pc[a], loc[a], map, hist)
      /\ pc[a] \in Removing /\ k \in Keys /\ h \in HistoryIds /\ h = map[k]
      /\ NoHistory \notin HistoryIds
  BY <1>0, LocalTypes, Here, ZenonT(30) DEF RemoveEvent, RemoveNothing, RemoveSize, RemoveKey, ShapeOf,
     PointsOf, Removing, Dereferencing
<1>2. \A j \in Keys : map[j] = h => j = k
  BY <1>1, ZenonT(30) DEF Inv, Injective
<1>3. ASSUME NEW stage \in {"rmsize", "rmkey"}, Go(a, stage, loc[a])
      PROVE  /\ Moves(a) /\ Claims(a) /\ pc'[a] = stage /\ loc'[a] = loc[a]
             /\ ShapeOf(stage, loc[a])
             /\ map' = map => PointsOf(stage, loc[a], map', hist')
  <2>1. Moves(a) /\ pc'[a] = stage /\ loc'[a] = loc[a]
    BY <1>0, <1>1, <1>3, GoMoves DEF Stages
  <2>2. Claims(a)
    BY <2>1 DEF Claims, Works
  <2>3. ShapeOf(stage, loc[a]) /\ (map' = map => PointsOf(stage, loc[a], map', hist'))
    BY <1>1, ZenonT(30) DEF ShapeOf, PointsOf, Loading, Removing, Dereferencing
  <2> QED BY <2>1, <2>2, <2>3
<1>4. ASSUME Go(a, "idle", Unused)
      PROVE  /\ Moves(a) /\ Claims(a) /\ pc'[a] = "idle" /\ loc'[a] = Unused
             /\ ShapeOf("idle", Unused) /\ PointsOf("idle", Unused, map', hist')
             /\ loc'[a].ref = NoHistory
  <2>1. Moves(a) /\ pc'[a] = "idle" /\ loc'[a] = Unused
    BY <1>0, <1>4, UnusedType, GoMoves DEF Stages
  <2>2. Claims(a)
    BY <2>1, UnusedFields, Values, ZenonT(30) DEF Claims, Works
  <2> QED BY <2>1, <2>2, UnusedPlace, UnusedFields, ZenonT(30)
<1>5. CASE RemoveEvent(a)
  <2> DEFINE evs == hist[h].evs
  <2>1. evs \in Seq(Events)
    BY <1>0, <1>1, ZenonT(30) DEF TypeOK
  <2>2. PICK i \in 1 .. Len(evs) :
          /\ hist' = [hist EXCEPT ![h].evs = Erased(evs, i)]
          /\ stored' = stored \ {<<k, evs[i].recv>>}
          /\ latest' = [latest EXCEPT ![k] = 0]
    BY <1>5, ZenonT(30) DEF RemoveEvent
  <2>3. Erased(evs, i) \in Seq(Events)
    BY <2>1, ErasedFacts, ZenonT(30)
  <2>4. /\ \A j \in HistoryIds : j # h => hist'[j] = hist[j]
        /\ hist' \in [HistoryIds -> [evs: Seq(Events), chain: 0 .. MaxRecv]]
    BY <1>0, <1>1, <2>2, <2>3, ZenonT(30) DEF TypeOK
  <2>5. map' = map /\ Go(a, "rmsize", loc[a])
    BY <1>5, ZenonT(30) DEF RemoveEvent
  <2>6. /\ Moves(a) /\ Claims(a) /\ pc'[a] = "rmsize" /\ loc'[a] = loc[a]
        /\ ShapeOf(pc'[a], loc'[a]) /\ PointsOf(pc'[a], loc'[a], map', hist')
    BY <1>3, <2>5, ZenonT(30)
  <2>7. Frame(a) /\ Refers(a)
    BY <2>4, <2>5, <2>6, ZenonT(30) DEF Frame, Refers, New
  <2>8. Fills(a)
    BY <1>2, <2>5, <2>6, ZenonT(30) DEF Fills
  <2>9. OtherTypes'
    BY <1>0, <1>5, <2>2, Values, Types, ZenonT(30) DEF RemoveEvent, OtherTypes
  <2>10. Effect(a)
    BY <2>6, <2>7, <2>8, ZenonT(30) DEF Effect
  <2> QED BY <1>0, <1>1, <2>4, <2>5, <2>6, <2>9, <2>10, Types, ZenonT(30) DEF Typed, StoreTypes
<1>6. CASE RemoveNothing(a)
  <2>1. pc[a] = "rmevent" /\ UNCHANGED <<map, hist>> /\ OtherTypes'
    BY <1>0, <1>6, Types, ZenonT(30) DEF RemoveNothing, data, ghosts, OtherTypes
  <2>2. /\ Moves(a) /\ Claims(a) /\ pc'[a] \in {"idle", "rmsize"}
        /\ ShapeOf(pc'[a], loc'[a]) /\ PointsOf(pc'[a], loc'[a], map', hist')
        /\ loc'[a].ref \in {NoHistory, h}
        /\ pc'[a] = "rmsize" => loc'[a].ref \in HistoryIds
    BY <1>1, <1>3, <1>4, <1>6, <2>1, ZenonT(30) DEF RemoveNothing
  <2>3. Effect(a)
    BY <1>0, <2>1, <2>2, QuietEffect, ZenonT(30) DEF New
  <2> QED BY <1>0, <2>1, <2>2, <2>3, Types, ZenonT(30) DEF Typed, StoreTypes, Dereferencing
<1>7. CASE RemoveSize(a)
  <2>1. pc[a] = "rmsize" /\ UNCHANGED <<map, hist>> /\ OtherTypes'
    BY <1>0, <1>7, Types, ZenonT(30) DEF RemoveSize, data, ghosts, OtherTypes
  <2>2. /\ Moves(a) /\ Claims(a) /\ pc'[a] \in {"idle", "rmkey"}
        /\ ShapeOf(pc'[a], loc'[a]) /\ PointsOf(pc'[a], loc'[a], map', hist')
        /\ loc'[a].ref \in {NoHistory, h}
        /\ pc'[a] = "rmkey" => loc'[a].ref \in HistoryIds /\ loc'[a].key = k
        /\ pc'[a] = "idle" => hist[h].evs # <<>>
    BY <1>1, <1>3, <1>4, <1>7, <2>1, ZenonT(30) DEF RemoveSize
  <2>3. Frame(a) /\ Refers(a)
    BY <2>1, <2>2, ZenonT(30) DEF Frame, Refers, New
  <2>4. Fills(a)
    BY <1>1, <1>2, <2>1, <2>2, ZenonT(30) DEF Fills
  <2>5. Effect(a)
    BY <2>2, <2>3, <2>4, ZenonT(30) DEF Effect
  <2> QED BY <1>0, <2>1, <2>2, <2>5, Types, ZenonT(30) DEF Typed, StoreTypes, Dereferencing
<1>8. CASE RemoveKey(a)
  <2>1. pc[a] = "rmkey" /\ Go(a, "idle", Unused)
    BY <1>8, ZenonT(30) DEF RemoveKey
  <2>2. Moves(a) /\ pc'[a] = "idle" /\ loc'[a] = Unused
    BY <1>4, <2>1, ZenonT(30)
  <2>3. open' \subseteq 1 .. MaxRecv
    BY <1>0, <1>8 DEF RemoveKey, TypeOK
  <2> QED BY <1>0, <1>8, <2>1, <2>2, <2>3, DroppedEffect, ZenonT(30) DEF RemoveKey
<1> QED BY <1>5, <1>6, <1>7, <1>8

-----------------------------------------------------------------------------
(* Such a step keeps the types, the shapes and the keys apart.             *)
LEMMA LocalInv ==
    ASSUME Exclusive, Inv, NEW t \in Threads, Effect(t), Typed(t)
    PROVE  TypeOK' /\ Shape' /\ Apart'
<1>1. TypeOK'
  <2>1. \A s \in Threads : pc'[s] \in Dereferencing => loc'[s].ref \in HistoryIds
    BY Here, ZenonT(30) DEF Effect, Moves, Typed
  <2> QED BY <2>1, ZenonT(30) DEF Effect, Moves, Typed, StoreTypes, OtherTypes, TypeOK
<1>2. Shape'
  BY Here DEF Effect, Moves, Shape
<1>3. Apart'
  <2> SUFFICES ASSUME NEW r \in Threads, NEW s \in Threads, NEW k \in Keys,
                      Works(r, k)', Works(s, k)', r # s
               PROVE  FALSE
    BY DEF Apart
  <2>1. \A v \in Threads : v # t => (Works(v, k)' <=> Works(v, k))
    BY ZenonT(30) DEF Effect, Moves, Works
  <2>2. Works(t, k)' => Works(t, k) \/ Free(k)
    BY DEF Effect, Claims
  <2>3. Free(k) => \A v \in Threads : ~Works(v, k)
    BY DEF Free, Works
  <2> QED BY <2>1, <2>2, <2>3 DEF Inv, Apart
<1> QED BY <1>1, <1>2, <1>3

(* What another thread points to stays where it is.                        *)
LEMMA PointsInv ==
    ASSUME Inv, NEW t \in Threads, Effect(t)
    PROVE  Points'
<1> SUFFICES ASSUME NEW s \in Threads, s # t PROVE PointsOf(pc[s], loc[s], map', hist')
  BY ZenonT(30) DEF Points, Effect, Moves
<1>1. /\ ShapeOf(pc[s], loc[s]) /\ PointsOf(pc[s], loc[s], map, hist) /\ TypeOK
      /\ pc[s] \in Dereferencing => loc[s].ref \in HistoryIds
  BY Here, ZenonT(30)
<1>2. \A k \in Keys : Works(s, k) => map'[k] = map[k]
  BY ZenonT(30) DEF Inv, Apart, Effect, Frame
<1>3. pc[s] # "idle" => map'[loc[s].key] = map[loc[s].key]
  BY <1>1, <1>2 DEF Works, ShapeOf
<1>4. pc[s] \in Loading => map'[loc[s].target] = map[loc[s].target]
  BY <1>1, <1>2, Values, ZenonT(30) DEF Works, ShapeOf
<1>5. New(s) => hist'[loc[s].ref] = hist[loc[s].ref]
  <2> SUFFICES ASSUME New(s) PROVE hist'[loc[s].ref] = hist[loc[s].ref]
    OBVIOUS
  <2>1. loc[s].ref \in HistoryIds /\ loc[s].ref # loc[t].ref
    BY <1>1 DEF New, Dereferencing, Inv, NewApart
  <2> QED BY <2>1, ZenonT(30) DEF Effect, Frame, Known
<1> QED BY <1>1, <1>3, <1>4, <1>5, ZenonT(30) DEF PointsOf, Removing, Loading, New

(* A history in the map is of one key, a new one of none.                  *)
LEMMA InjectiveInv ==
    ASSUME Inv, NEW t \in Threads, Effect(t)
    PROVE  Injective' /\ NewApart'
<1>1. Injective'
  <2> SUFFICES ASSUME NEW j \in Keys, NEW k \in Keys, j # k, map'[j] # NoHistory, map'[j] = map'[k]
               PROVE  FALSE
    BY DEF Injective
  <2>1. \A i \in Keys : New(t) => map[i] # loc[t].ref
    BY DEF Inv, NewApart
  <2> QED BY <2>1, ZenonT(30) DEF Effect, Frame, Inv, Injective
<1>2. NewApart'
  <2> SUFFICES ASSUME NEW s \in Threads, New(s)'
               PROVE  /\ \A k \in Keys : map'[k] # loc'[s].ref
                      /\ \A r \in Threads : r # s => loc'[r].ref # loc'[s].ref
    BY DEF NewApart
  <2>1. \A r \in Threads : r # t => loc'[r] = loc[r] /\ pc'[r] = pc[r]
    BY ZenonT(30) DEF Effect, Moves
  <2>2. CASE s = t
    <3>1. map' = map
      BY <2>2, ZenonT(30) DEF Effect, Refers
    <3>2. CASE New(t) /\ loc'[t].ref = loc[t].ref
      BY <2>1, <2>2, <3>1, <3>2 DEF Inv, NewApart
    <3>3. CASE ~Known(loc'[t].ref)
      BY <2>1, <2>2, <3>1, <3>3 DEF Known
    <3> QED BY <2>2, <3>2, <3>3, ZenonT(30) DEF Effect, Refers
  <2>3. CASE s # t
    <3>1. New(s) /\ loc'[s] = loc[s]
      BY <2>1, <2>3 DEF New
    <3>2. /\ \A k \in Keys : map[k] # loc[s].ref
          /\ \A r \in Threads : r # s => loc[r].ref # loc[s].ref
          /\ loc[s].ref # NoHistory
      BY <3>1, Here, LocalTypes, ZenonT(30) DEF Inv, NewApart, New, Dereferencing
    <3>3. \A k \in Keys : map'[k] \in {map[k], NoHistory, loc[t].ref}
      BY ZenonT(30) DEF Effect, Frame
    <3>4. \A k \in Keys : map'[k] # loc[s].ref
      BY <2>3, <3>2, <3>3, ZenonT(30)
    <3>5. loc'[t].ref # loc[s].ref
      <4>1. Known(loc[s].ref)
        BY DEF Known
      <4> QED BY <2>3, <3>2, <4>1, ZenonT(30) DEF Effect, Refers
    <3> QED BY <2>1, <3>1, <3>2, <3>4, <3>5
  <2> QED BY <2>2, <2>3
<1> QED BY <1>1, <1>2

(* A history in the map has an event.                                      *)
LEMMA FilledInv ==
    ASSUME Inv, NEW t \in Threads, Effect(t)
    PROVE  Filled'
<1> SUFFICES ASSUME NEW k \in Keys, map'[k] # NoHistory
             PROVE  \/ hist'[map'[k]].evs # <<>>
                    \/ \E s \in Threads : pc'[s] \in {"rmsize", "rmkey"} /\ loc'[s].key = k
  BY DEF Filled
<1>1. CASE \/ map'[k] # map[k]
           \/ map[k] = loc[t].ref
           \/ pc[t] \in {"rmsize", "rmkey"} /\ loc[t].key = k
  BY <1>1 DEF Effect, Fills
<1>2. CASE ~(\/ map'[k] # map[k]
             \/ map[k] = loc[t].ref
             \/ pc[t] \in {"rmsize", "rmkey"} /\ loc[t].key = k)
  <2>1. map'[k] = map[k] /\ map[k] \in HistoryIds
    BY <1>2 DEF Inv, TypeOK
  <2>2. hist'[map[k]] = hist[map[k]]
    BY <1>2, <2>1, ZenonT(30) DEF Effect, Frame, Known
  <2>3. CASE hist[map[k]].evs # <<>>
    BY <2>1, <2>2, <2>3
  <2>4. CASE \E s \in Threads : pc[s] \in {"rmsize", "rmkey"} /\ loc[s].key = k
    BY <1>2, <2>4, ZenonT(30) DEF Effect, Moves
  <2> QED BY <2>1, <2>3, <2>4 DEF Inv, Filled
<1> QED BY <1>1, <1>2

(* So a step of a thread keeps the invariant.                              *)
LEMMA EffectInv ==
    ASSUME Exclusive, Inv, NEW t \in Threads, Effect(t), Typed(t)
    PROVE  Inv'
BY LocalInv, PointsInv, InjectiveInv, FilledInv DEF Inv

(* The steps that touch neither the threads nor the store.                 *)
LEMMA IdleInv ==
    ASSUME Inv, UNCHANGED <<map, hist, pc, loc>>, OtherTypes'
    PROVE  Inv'
<1>1. TypeOK'
  BY DEF Inv, TypeOK, OtherTypes
<1>2. Apart' /\ Shape' /\ Points' /\ NewApart'
  BY DEF Inv, Apart, Works, Shape, Points, NewApart, New
<1>3. Injective' /\ Filled'
  BY DEF Inv, Injective, Filled
<1> QED BY <1>1, <1>2, <1>3 DEF Inv

(* Closing a stream and configuring the agent reach no history.            *)
LEMMA OtherInv ==
    ASSUME Inv, (\E r \in open : streamClose(r)) \/ Configure \/ UNCHANGED vars
    PROVE  Inv'
<1>0. OtherTypes /\ NoEvent \in Events
  BY Types, NoEventType DEF Inv
<1>1. CASE \E r \in open : streamClose(r)
  <2>1. UNCHANGED <<map, hist, pc, loc>>
    BY <1>1 DEF streamClose, data
  <2>2. OtherTypes'
    BY <1>0, <1>1 DEF streamClose, data, OtherTypes
  <2> QED BY <2>1, <2>2, IdleInv
<1>2. CASE Configure
  <2>1. UNCHANGED <<map, hist, pc, loc>>
    BY <1>2 DEF Configure, data
  <2>2. PICK flag \in {"data", "history", "purge"} : conf' = [conf EXCEPT ![flag] = ~@]
    BY <1>2, TrafficAssumption, ZenonT(30) DEF Configure
  <2>3. conf' \in [data: BOOLEAN, history: BOOLEAN, purge: BOOLEAN]
    BY <1>0, <2>2, ZenonT(30) DEF OtherTypes
  <2>4. OtherTypes'
    BY <1>0, <1>2, <2>3 DEF Configure, data, ghosts, OtherTypes
  <2> QED BY <2>1, <2>4, IdleInv
<1>3. CASE UNCHANGED vars
  BY <1>0, <1>3, IdleInv DEF vars, OtherTypes
<1> QED BY <1>1, <1>2, <1>3

(* The map is emptied while nobody works on a key.                         *)
LEMMA AllFree ==
    ASSUME Exclusive, Inv, \A k \in Keys : Free(k)
    PROVE  \A t \in Threads : pc[t] = "idle" /\ loc[t] = Unused
<1> SUFFICES ASSUME NEW t \in Threads, pc[t] # "idle" PROVE FALSE
  BY Here DEF ShapeOf
<1>1. loc[t].key \in Keys
  BY Here DEF ShapeOf
<1> QED BY <1>1 DEF Free

(* clear() empties the map while nobody works on a key.                    *)
LEMMA ClearAllInv ==
    ASSUME Exclusive, Inv, NEW a \in Removers, ClearAll(a)
    PROVE  Inv'
<1>1. /\ map' = [k \in Keys |-> NoHistory] /\ UNCHANGED <<hist, pc, loc>>
      /\ \A t \in Threads : pc[t] = "idle" /\ loc[t] = Unused
  BY AllFree DEF ClearAll
<1>2. TypeOK'
  BY <1>1, Values, ZenonT(30) DEF ClearAll, Inv, TypeOK
<1>3. Apart' /\ Shape'
  BY <1>1 DEF Inv, Apart, Works, Shape
<1>4. Points'
  BY <1>1, UnusedPlace DEF Points
<1>5. NewApart' /\ Injective' /\ Filled'
  BY <1>1 DEF NewApart, New, Injective, Filled
<1> QED BY <1>2, <1>3, <1>4, <1>5 DEF Inv

(* The steps, one by one.                                                  *)
ThreadStep(t) ==
    \/ t \in Workers /\ (Receive(t) \/ receive(t))
    \/ t \in Removers /\ (\/ RemoveGet(t) \/ RemoveEvent(t) \/ RemoveNothing(t)
                          \/ RemoveSize(t) \/ RemoveKey(t))

(* A step is one of a thread, of clear(), or of neither store nor thread.  *)
LEMMA NextSplit ==
    ASSUME [Next]_vars
    PROVE  \/ \E t \in Threads : ThreadStep(t)
           \/ \E a \in Removers : ClearAll(a)
           \/ (\E r \in open : streamClose(r)) \/ Configure \/ UNCHANGED vars
BY DEF Next, Remove, ThreadStep, Threads

-----------------------------------------------------------------------------
(* What readers of the map find under the keys does not change.            *)
SameFor(k) == Visible(k)' = Visible(k) /\ VisibleChain(k)' = VisibleChain(k)
Same == \A k \in Keys : SameFor(k)

(* It changes under one key.                                               *)
Becomes(k, evs, c) ==
    /\ Visible(k)' = evs /\ VisibleChain(k)' = c
    /\ \A j \in Keys : j # k => SameFor(j)

(* What is visible under a key.                                            *)
LEMMA VisibleType ==
    ASSUME TypeOK, NEW k \in Keys
    PROVE  /\ Visible(k) \in Seq(Events) /\ VisibleChain(k) \in 0 .. MaxRecv
           /\ map[k] # NoHistory =>
                /\ map[k] \in HistoryIds /\ Visible(k) = hist[map[k]].evs
                /\ hist[map[k]] \in [evs: Seq(Events), chain: 0 .. MaxRecv]
<1>0. <<>> \in Seq(Events)
  OBVIOUS
<1>1. 0 \in 0 .. MaxRecv
  BY Values, ZenonT(30)
<1>2. CASE map[k] = NoHistory
  BY <1>0, <1>1, <1>2 DEF Visible, VisibleChain
<1>3. CASE map[k] # NoHistory
  <2>1. map[k] \in HistoryIds /\ Visible(k) = hist[map[k]].evs
    BY <1>3 DEF TypeOK, Visible
  <2>2. hist[map[k]] \in [evs: Seq(Events), chain: 0 .. MaxRecv]
    BY <2>1 DEF TypeOK
  <2> QED BY <1>1, <2>1, <2>2 DEF VisibleChain
<1> QED BY <1>2, <1>3

(* A key that is in the map has events for the thread that works on it,    *)
(* unless that has just removed them.                                      *)
LEMMA OwnFilled ==
    ASSUME Inv, NEW t \in Threads, NEW k \in Keys, Works(t, k), map[k] # NoHistory,
           pc[t] \notin {"rmsize", "rmkey"}
    PROVE  Visible(k) # <<>>
<1>1. \A s \in Threads : loc[s].key = k => s = t
  BY DEF Inv, Apart, Works
<1> QED BY <1>1 DEF Inv, Filled, Visible

(* A history that stays under its key as it is.                            *)
LEMMA Untouched ==
    ASSUME NEW k \in Keys, map'[k] = map[k], map[k] # NoHistory => hist'[map[k]] = hist[map[k]]
    PROVE  SameFor(k)
BY DEF SameFor, Visible, VisibleChain

(* A history that changes is of one key.                                   *)
LEMMA OneKey ==
    ASSUME Inv, NEW k \in Keys, map[k] # NoHistory, map' = map,
           \A h \in HistoryIds : h # map[k] => hist'[h] = hist[h]
    PROVE  \A j \in Keys : j # k => SameFor(j)
<1> TAKE j \in Keys
<1> HAVE j # k
<1>1. map[j] # NoHistory => map[j] \in HistoryIds /\ map[j] # map[k]
  BY DEF Inv, TypeOK, Injective
<1> QED BY <1>1, Untouched

(* Or of none.                                                             *)
LEMMA NoKeys ==
    ASSUME Inv, map' = map, NEW h, \A k \in Keys : map[k] # h,
           \A i \in HistoryIds : i # h => hist'[i] = hist[i]
    PROVE  Same
<1> SUFFICES ASSUME NEW j \in Keys PROVE SameFor(j)
  BY DEF Same
<1>1. map[j] # NoHistory => map[j] \in HistoryIds /\ map[j] # h
  BY DEF Inv, TypeOK
<1> QED BY <1>1, Untouched

(* Nothing becomes visible while map and histories stay.                   *)
LEMMA AllTheSame ==
    ASSUME UNCHANGED <<map, hist>>
    PROVE  Same
BY Untouched DEF Same

(* An event that is put into a history of the map is visible at once, one  *)
(* that is put into a new history is not.                                  *)
LEMMA LoadPushStore ==
    ASSUME Inv, NEW w \in Workers, LoadPush(w)
    PROVE  /\ loc[w].maiden => Same /\ Visible(loc[w].target) = <<>>
           /\ \A k \in Keys : ~loc[w].maiden /\ k = loc[w].target =>
                Becomes(k, Loaded(Visible(k), ThisEvent(w), loc[w].keep), VisibleChain(k))
<1>0. w \in Threads /\ TypeOK /\ map' = map
  BY DEF Threads, Inv, LoadPush
<1>1. /\ PointsOf("push", loc[w], map, hist) /\ pc[w] = "push" /\ loc[w].ref \in HistoryIds
      /\ loc[w].keep \in BOOLEAN /\ loc[w].target \in {NoKey, loc[w].key, loc[w].foreign}
      /\ NoHistory \notin HistoryIds
  BY <1>0, LocalTypes, Here DEF LoadPush, ShapeOf, Dereferencing
<1> DEFINE h == loc[w].ref
           L == Loaded(hist[h].evs, ThisEvent(w), loc[w].keep)
<1>2. hist[h] \in [evs: Seq(Events), chain: 0 .. MaxRecv] /\ ThisEvent(w) \in Events
  BY <1>0, <1>1, ThisEventType, ZenonT(30) DEF TypeOK
<1>3. L # <<>>
  BY <1>1, <1>2, LoadedFacts
<1>4. hist' = [hist EXCEPT ![h].evs = L]
  BY DEF LoadPush, ThisEvent
<1>5. /\ hist'[h].evs = L /\ hist'[h].chain = hist[h].chain
      /\ \A i \in HistoryIds : i # h => hist'[i] = hist[i]
  <2> HIDE DEF L
  <2> QED BY <1>0, <1>1, <1>2, <1>4 DEF TypeOK
<1> HIDE DEF L
<1>6. CASE loc[w].maiden
  <2>1. \A k \in Keys : map[k] # h
    BY <1>0, <1>1, <1>6 DEF Inv, NewApart, New
  <2>2. Same
    BY <1>0, <1>5, <2>1, NoKeys, ZenonT(30)
  <2>3. Visible(loc[w].target) = <<>>
    BY <1>1, <1>6 DEF PointsOf, Visible
  <2> QED BY <1>6, <2>2, <2>3
<1>7. CASE ~loc[w].maiden
  <2> SUFFICES ASSUME NEW k \in Keys, k = loc[w].target PROVE Becomes(k, L, VisibleChain(k))
    <3>1. ASSUME NEW k \in Keys, k = loc[w].target PROVE Visible(k) = hist[h].evs
      BY <1>1, <1>7, <3>1 DEF PointsOf, Visible
    <3> QED BY <1>7, <3>1 DEF L
  <2>1. map[k] = h
    BY <1>1, <1>7, ZenonT(30) DEF PointsOf
  <2>2. \A j \in Keys : j # k => SameFor(j)
    BY <1>0, <1>1, <1>5, <2>1, OneKey, ZenonT(30)
  <2>3. Visible(k) # <<>>
    <3>1. Works(w, k)
      BY <1>1, Values, ZenonT(30) DEF Works
    <3> QED BY <1>0, <1>1, <2>1, <3>1, OwnFilled
  <2>4. Visible(k)' = L /\ VisibleChain(k)' = VisibleChain(k)
    BY <1>0, <1>1, <1>3, <1>5, <2>1, <2>3 DEF Visible, VisibleChain
  <2> QED BY <2>2, <2>4 DEF Becomes
<1> QED BY <1>6, <1>7

(* The new history becomes visible with its event.                         *)
LEMMA LoadAddStore ==
    ASSUME Inv, NEW w \in Workers, LoadAdd(w), NEW k \in Keys, k = loc[w].target
    PROVE  \E e \in Events : e.recv = loc[w].recv /\ Visible(k) = <<>> /\ VisibleChain(k) = 0
                             /\ Becomes(k, <<e>>, 0)
<1>0. w \in Threads /\ TypeOK /\ hist' = hist /\ pc[w] = "add"
  BY DEF Threads, Inv, LoadAdd
<1>1. /\ PointsOf("add", loc[w], map, hist) /\ loc[w].ref \in HistoryIds
      /\ NoHistory \notin HistoryIds
  BY <1>0, LocalTypes, Here DEF Dereferencing
<1>2. map'[k] = loc[w].ref /\ \A j \in Keys : j # k => map'[j] = map[j]
  BY <1>0 DEF LoadAdd, TypeOK
<1>3. PICK e \in Events : e.recv = loc[w].recv /\ hist[loc[w].ref] = [evs |-> <<e>>, chain |-> 0]
  BY <1>1, ZenonT(30) DEF PointsOf
<1>4. Visible(k) = <<>> /\ VisibleChain(k) = 0
  BY <1>1 DEF PointsOf, Visible, VisibleChain
<1>5. Visible(k)' = <<e>> /\ VisibleChain(k)' = 0
  <2>1. map'[k] # NoHistory /\ hist'[map'[k]] = [evs |-> <<e>>, chain |-> 0]
    BY <1>0, <1>1, <1>2, <1>3, ZenonT(30)
  <2>2. hist'[map'[k]].evs = <<e>> /\ hist'[map'[k]].chain = 0 /\ <<e>> # <<>>
    BY <2>1
  <2> QED BY <2>1, <2>2, ZenonT(30) DEF Visible, VisibleChain
<1>6. \A j \in Keys : j # k => SameFor(j)
  BY <1>0, <1>2, Untouched
<1> QED BY <1>3, <1>4, <1>5, <1>6 DEF Becomes

(* The chain variables of a key that has events change.                    *)
LEMMA StoreSetStore ==
    ASSUME Inv, NEW w \in Workers, StoreSet(w), NEW k \in Keys, k = loc[w].key
    PROVE  Visible(k) # <<>> /\ Becomes(k, Visible(k), loc[w].recv)
<1>0. w \in Threads /\ TypeOK /\ map' = map /\ pc[w] = "storeset"
  BY DEF Threads, Inv, StoreSet
<1>1. loc[w].ref \in HistoryIds /\ loc[w].ref = map[k] /\ NoHistory \notin HistoryIds
  BY <1>0, LocalTypes, Here DEF Dereferencing, PointsOf
<1>2. hist[map[k]] \in [evs: Seq(Events), chain: 0 .. MaxRecv]
  BY <1>0, <1>1 DEF TypeOK
<1>3. /\ hist'[map[k]].evs = hist[map[k]].evs /\ hist'[map[k]].chain = loc[w].recv
      /\ \A i \in HistoryIds : i # map[k] => hist'[i] = hist[i]
  BY <1>0, <1>1, <1>2 DEF StoreSet, TypeOK
<1>4. Visible(k) # <<>>
  BY <1>0, <1>1, OwnFilled DEF Works
<1>5. Visible(k)' = Visible(k) /\ VisibleChain(k)' = loc[w].recv
  BY <1>0, <1>1, <1>3, <1>4 DEF Visible, VisibleChain
<1>6. \A j \in Keys : j # k => SameFor(j)
  BY <1>0, <1>1, <1>3, OneKey
<1> QED BY <1>4, <1>5, <1>6 DEF Becomes

(* A key that is dropped has nothing.                                      *)
LEMMA DroppedStore ==
    ASSUME TypeOK, NEW k \in Keys, Dropped(k), hist' = hist
    PROVE  Becomes(k, <<>>, 0)
<1>1. map'[k] = NoHistory /\ \A j \in Keys : j # k => map'[j] = map[j]
  BY DEF Dropped, TypeOK
<1>2. Visible(k)' = <<>> /\ VisibleChain(k)' = 0
  BY <1>1 DEF Visible, VisibleChain
<1>3. \A j \in Keys : j # k => SameFor(j)
  BY <1>1, Untouched
<1> QED BY <1>2, <1>3 DEF Becomes

(* An event is taken out; with the last one go the chain variables.        *)
LEMMA RemoveEventStore ==
    ASSUME Inv, NEW a \in Removers, RemoveEvent(a), NEW k \in Keys, k = loc[a].key
    PROVE  \E i \in 1 .. Len(Visible(k)) :
             /\ Becomes(k, Erased(Visible(k), i),
                        IF Len(Visible(k)) = 1 THEN 0 ELSE VisibleChain(k))
             /\ stored' = stored \ {<<k, Visible(k)[i].recv>>}
             /\ latest' = [latest EXCEPT ![k] = 0]
<1>0. a \in Threads /\ TypeOK /\ map' = map /\ pc[a] = "rmevent"
  BY DEF Threads, Inv, RemoveEvent
<1>1. loc[a].ref \in HistoryIds /\ loc[a].ref = map[k] /\ NoHistory \notin HistoryIds
  BY <1>0, LocalTypes, Here DEF Dereferencing, PointsOf, Removing
<1> DEFINE evs == Visible(k)
<1>2. /\ evs = hist[map[k]].evs /\ evs \in Seq(Events)
      /\ hist[map[k]] \in [evs: Seq(Events), chain: 0 .. MaxRecv]
  BY <1>0, <1>1, VisibleType
<1> HIDE DEF evs
<1>3. PICK i \in 1 .. Len(evs) :
        /\ hist' = [hist EXCEPT ![map[k]].evs = Erased(evs, i)]
        /\ stored' = stored \ {<<k, evs[i].recv>>}
        /\ latest' = [latest EXCEPT ![k] = 0]
  BY <1>1, <1>2, ZenonT(30) DEF RemoveEvent
<1>4. /\ hist'[map[k]].evs = Erased(evs, i) /\ hist'[map[k]].chain = hist[map[k]].chain
      /\ \A j \in HistoryIds : j # map[k] => hist'[j] = hist[j]
  BY <1>0, <1>1, <1>2, <1>3 DEF TypeOK
<1>5. (Erased(evs, i) = <<>> <=> Len(evs) = 1) /\ evs # <<>>
  <2>1. Erased(evs, i) = <<>> <=> Len(evs) = 1
    BY <1>2, ErasedFacts
  <2>2. Len(evs) # 0
    BY <1>2
  <2> QED BY <2>1, <2>2
<1>6. /\ Visible(k)' = Erased(evs, i)
      /\ VisibleChain(k)' = IF Len(evs) = 1 THEN 0 ELSE hist[map[k]].chain
  BY <1>0, <1>1, <1>4, <1>5 DEF Visible, VisibleChain
<1>7. VisibleChain(k) = hist[map[k]].chain
  BY <1>5 DEF VisibleChain, evs
<1>8. \A j \in Keys : j # k => SameFor(j)
  BY <1>0, <1>1, <1>4, OneKey
<1>9. Becomes(k, Erased(evs, i), IF Len(evs) = 1 THEN 0 ELSE VisibleChain(k))
  BY <1>6, <1>7, <1>8 DEF Becomes
<1> QED BY <1>3, <1>9 DEF evs

(* Every key has nothing.                                                  *)
LEMMA ClearAllStore ==
    ASSUME NEW a \in Removers, ClearAll(a), NEW k \in Keys
    PROVE  Visible(k)' = <<>> /\ VisibleChain(k)' = 0
BY DEF ClearAll, Visible, VisibleChain

-----------------------------------------------------------------------------
(* The store of EventHistories.                                            *)
Store == [k \in Keys |-> Visible(k)]
Chain == [k \in Keys |-> VisibleChain(k)]

(* A change under one key, as EventHistories writes it.                    *)
LEMMA StoreBecomes ==
    ASSUME NEW k \in Keys, NEW evs, NEW c, Becomes(k, evs, c)
    PROVE  /\ Store' = [Store EXCEPT ![k] = evs] /\ Chain' = [Chain EXCEPT ![k] = c]
           /\ Store[k] = Visible(k) /\ Chain[k] = VisibleChain(k)
<1>1. Store[k] = Visible(k) /\ Chain[k] = VisibleChain(k)
  BY DEF Store, Chain
<1>2. Store' = [Store EXCEPT ![k] = evs]
  BY ZenonT(30) DEF Becomes, SameFor, Store
<1>3. Chain' = [Chain EXCEPT ![k] = c]
  BY ZenonT(30) DEF Becomes, SameFor, Chain
<1> QED BY <1>1, <1>2, <1>3

(* No change.                                                              *)
LEMMA StoreSame ==
    ASSUME Same
    PROVE  Store' = Store /\ Chain' = Chain
BY DEF Same, SameFor, Store, Chain

(* An event that becomes visible has been loaded.                          *)
LEMMA AbstractLoad ==
    ASSUME NEW k \in Keys, NEW e \in Events, NEW keep \in BOOLEAN,
           Becomes(k, Loaded(Visible(k), e, keep), VisibleChain(k))
    PROVE  Histories!StoreStep
<1>1. /\ Store' = [Store EXCEPT ![k] = Loaded(Store[k], e, keep)]
      /\ Chain' = [Chain EXCEPT ![k] = Chain[k]]
  BY StoreBecomes
<1>2. Chain' = Chain
  BY <1>1, ZenonT(30) DEF Chain
<1>3. Histories!LoadEvent(k, e, keep)
  BY <1>1, <1>2 DEF Histories!LoadEvent, Histories!Loaded, Loaded, Store, Chain
<1> QED BY <1>3 DEF Histories!StoreStep

(* Chain variables that become visible have been stored.                   *)
LEMMA AbstractStoreChain ==
    ASSUME NEW k \in Keys, NEW c \in 0 .. MaxRecv, Visible(k) # <<>>, Becomes(k, Visible(k), c)
    PROVE  Histories!StoreStep
<1>1. /\ Store' = [Store EXCEPT ![k] = Store[k]] /\ Chain' = [Chain EXCEPT ![k] = c]
      /\ Store[k] # <<>>
  BY StoreBecomes
<1>2. Store' = Store
  BY <1>1, ZenonT(30) DEF Store
<1>3. Histories!StoreChain(k, c)
  BY <1>1, <1>2 DEF Histories!StoreChain, Store, Chain
<1> QED BY <1>3 DEF Histories!StoreStep

(* A key that has nothing any more has been cleared.                       *)
LEMMA AbstractClearKey ==
    ASSUME NEW k \in Keys, Becomes(k, <<>>, 0)
    PROVE  Histories!StoreStep
<1>1. Store' = [Store EXCEPT ![k] = <<>>] /\ Chain' = [Chain EXCEPT ![k] = 0]
  BY StoreBecomes
<1>2. Histories!ClearKey(k)
  BY <1>1 DEF Histories!ClearKey, Store, Chain
<1> QED BY <1>2 DEF Histories!StoreStep

(* An event that is missing has been removed.                              *)
LEMMA AbstractRemoveEvent ==
    ASSUME NEW k \in Keys, NEW i \in 1 .. Len(Visible(k)),
           Becomes(k, Erased(Visible(k), i), IF Len(Visible(k)) = 1 THEN 0 ELSE VisibleChain(k))
    PROVE  Histories!StoreStep
<1>1. /\ Store' = [Store EXCEPT ![k] = Erased(Store[k], i)]
      /\ Chain' = [Chain EXCEPT ![k] = IF Len(Store[k]) = 1 THEN 0 ELSE Chain[k]]
      /\ i \in 1 .. Len(Store[k])
  BY StoreBecomes
<1>2. Histories!RemoveEvent(k, i)
  BY <1>1 DEF Histories!RemoveEvent, Histories!Erased, Erased, Store, Chain
<1> QED BY <1>1, <1>2 DEF Histories!StoreStep, Store

(* All keys have been cleared.                                             *)
LEMMA AbstractClearAll ==
    ASSUME NEW a \in Removers, ClearAll(a)
    PROVE  Histories!StoreStep
<1>1. Store' = [k \in Keys |-> <<>>] /\ Chain' = [k \in Keys |-> 0]
  BY ClearAllStore DEF Store, Chain
<1> QED BY <1>1 DEF Histories!StoreStep, Histories!ClearAll, Store, Chain
=============================================================================
