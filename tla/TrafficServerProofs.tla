------------------------ MODULE TrafficServerProofs -------------------------
(***************************************************************************)
(* That the steps of the traffic server implement the store of histories,  *)
(* and keep what is stored, when no two threads work on one key at a time. *)
(***************************************************************************)
EXTENDS TrafficServerSteps, FiniteSetTheorems

(* Some leaves need more than the default time of the provers.             *)
USE SMTT(30), ZenonT(30)

(* The image of a finite set is not larger than the set.                   *)
LEMMA ImageBound ==
    ASSUME NEW S, IsFiniteSet(S), NEW f, DOMAIN f = S
    PROVE  LET T == {f[x] : x \in S}
           IN  IsFiniteSet(T) /\ Cardinality(T) \in Nat /\ Cardinality(T) <= Cardinality(S)
<1> DEFINE T == {f[x] : x \in S}
<1>1. [x \in S |-> f[x]] \in Surjection(S, T)
  BY DEF Surjection
<1>2. IsFiniteSet(T) /\ Cardinality(T) <= Cardinality(S)
  BY <1>1, FS_Surjection
<1> QED BY <1>2, FS_CardinalityType

(* There are more histories than references to them, so make_shared always *)
(* has one that nobody refers to.                                          *)
LEMMA FreshIsNew ==
    ASSUME TypeOK, NEW t \in Threads, loc[t].ref = NoHistory
    PROVE  Fresh \in HistoryIds /\ ~Known(Fresh)
<1> DEFINE M == {map[k] : k \in Keys}
           g == [s \in Threads |-> loc[s].ref]
           R == {g[s] : s \in Threads}
           n == Cardinality(Keys) + Cardinality(Threads)
<1>1. IsFiniteSet(M) /\ Cardinality(M) \in Nat /\ Cardinality(M) <= Cardinality(Keys)
  <2>1. DOMAIN map = Keys /\ IsFiniteSet(Keys)
    BY TrafficAssumption DEF TypeOK
  <2> QED BY <2>1, ImageBound
<1>2. IsFiniteSet(R) /\ Cardinality(R) \in Nat /\ Cardinality(R) <= Cardinality(Threads)
  <2>1. DOMAIN g = Threads /\ IsFiniteSet(Threads)
    BY TrafficAssumption
  <2> HIDE DEF g
  <2> QED BY <2>1, ImageBound
<1>3. Cardinality(Keys) \in Nat /\ Cardinality(Threads) \in Nat
  BY TrafficAssumption, FS_CardinalityType
<1>4. IsFiniteSet(M \cup R) /\ Cardinality(M \cup R) <= n
  <2>1. IsFiniteSet(M \cap R)
    BY <1>1, FS_Subset
  <2>2. Cardinality(M \cap R) \in Nat
    BY <2>1, FS_CardinalityType
  <2>3. /\ IsFiniteSet(M \cup R)
        /\ Cardinality(M \cup R) = Cardinality(M) + Cardinality(R) - Cardinality(M \cap R)
    BY <1>1, <1>2, FS_Union
  <2> QED BY <1>1, <1>2, <1>3, <2>2, <2>3
<1>5. Cardinality(0 .. n) = n + 1
  BY <1>3, FS_Interval
<1>6. ~(0 .. n \subseteq M \cup R)
  <2> SUFFICES ASSUME 0 .. n \subseteq M \cup R PROVE FALSE
    OBVIOUS
  <2>1. Cardinality(0 .. n) <= Cardinality(M \cup R)
    BY <1>4, FS_Subset, ZenonT(30)
  <2>2. Cardinality(M \cup R) \in Nat
    BY <1>4, FS_CardinalityType
  <2> QED BY <1>3, <1>4, <1>5, <2>1, <2>2
<1>7. 0 \in R
  <2>1. g[t] = 0
    BY DEF NoHistory
  <2> QED BY <2>1
<1>8. PICK h \in 0 .. n : h \notin M \cup R
  BY <1>6
<1>9. h \in HistoryIds /\ (\A k \in Keys : map[k] # h) /\ (\A s \in Threads : loc[s].ref # h)
  <2>1. h # 0
    BY <1>7, <1>8
  <2>2. h \in HistoryIds
    BY <1>3, <1>8, <2>1 DEF HistoryIds
  <2>3. \A s \in Threads : loc[s].ref = g[s]
    OBVIOUS
  <2> QED BY <1>8, <2>2, <2>3
<1> QED BY <1>9 DEF Fresh, Known

(* The warm keys can be placed.                                            *)
LEMMA PlacementIsInjective ==
    /\ Placement \in [WarmKeys -> HistoryIds]
    /\ \A j, k \in WarmKeys : j # k => Placement[j] # Placement[k]
<1> DEFINE n == Cardinality(Keys)
<1>1. /\ n \in Nat /\ ExistsBijection(1 .. n, Keys)
      /\ Cardinality(Threads) \in Nat
  BY TrafficAssumption, FS_CardinalityType
<1>2. PICK f \in [1 .. n -> Keys] : \A k \in Keys : \E i \in 1 .. n : f[i] = k
  BY <1>1 DEF ExistsBijection, Bijection, Surjection
<1> DEFINE p == [k \in WarmKeys |-> CHOOSE i \in 1 .. n : f[i] = k]
<1>3. \A k \in WarmKeys : p[k] \in 1 .. n /\ f[p[k]] = k
  BY <1>2, TrafficAssumption
<1>4. 1 .. n \subseteq HistoryIds
  BY <1>1 DEF HistoryIds
<1>5. p \in [WarmKeys -> HistoryIds] /\ \A j, k \in WarmKeys : j # k => p[j] # p[k]
  BY <1>3, <1>4
<1> HIDE DEF p
<1> QED BY <1>5 DEF Placement

-----------------------------------------------------------------------------
(* loadEvent: the history is found, or a new one is made.                  *)
LEMMA LoadGetEffect ==
    ASSUME Inv, NEW w \in Workers, LoadGet(w)
    PROVE  Effect(w) /\ Typed(w)
<1>0. w \in Threads /\ TypeOK
  BY DEF Threads, Inv
<1>1. /\ loc[w] \in Locals /\ ShapeOf(pc[w], loc[w]) /\ pc[w] = "get"
      /\ loc[w].target \in Keys /\ loc[w].ref = NoHistory /\ loc[w].key \in Keys
      /\ loc[w].target \in {loc[w].key, loc[w].foreign} /\ loc[w].recv # 0
      /\ NoHistory \notin HistoryIds
  BY <1>0, LocalTypes, Here, Values, ZenonT(30) DEF LoadGet, ShapeOf, Dereferencing, Loading, Removing
<1>2. map' = map /\ OtherTypes'
  BY <1>0, Types DEF LoadGet, ghosts, OtherTypes
<1> DEFINE k == loc[w].target
<1>3. ASSUME NEW h \in HistoryIds, NEW new \in BOOLEAN,
             Go(w, "push", [loc[w] EXCEPT !.ref = h, !.maiden = new])
      PROVE  /\ Moves(w) /\ Claims(w) /\ pc'[w] = "push" /\ ShapeOf(pc'[w], loc'[w])
             /\ loc'[w].ref = h /\ loc'[w].target = k /\ loc'[w].maiden = new
  <2> DEFINE l == [loc[w] EXCEPT !.ref = h, !.maiden = new]
  <2>1. /\ l \in Locals /\ l.key = loc[w].key /\ l.foreign = loc[w].foreign
        /\ l.target = k /\ l.recv = loc[w].recv /\ l.ref = h /\ l.maiden = new
    BY <1>1, <1>3, ZenonT(30) DEF Locals
  <2> HIDE DEF l
  <2>2. Moves(w) /\ pc'[w] = "push" /\ loc'[w] = l
    <3>1. Go(w, "push", l)
      BY <1>3 DEF l
    <3> QED BY <1>0, <2>1, <3>1, GoMoves DEF Stages
  <2>3. Claims(w)
    BY <2>1, <2>2 DEF Claims, Works
  <2>4. ShapeOf("push", l)
    BY <1>1, <2>1 DEF ShapeOf, Loading, Removing, Dereferencing
  <2> QED BY <2>1, <2>2, <2>3, <2>4
<1>4. CASE map[k] # NoHistory
  <2>1. map[k] \in HistoryIds
    BY <1>0, <1>1, <1>4 DEF TypeOK
  <2>2. hist' = hist /\ Go(w, "push", [loc[w] EXCEPT !.ref = map[k], !.maiden = FALSE])
    BY <1>4 DEF LoadGet
  <2>3. /\ Moves(w) /\ Claims(w) /\ pc'[w] = "push" /\ ShapeOf(pc'[w], loc'[w])
        /\ loc'[w].ref = map[k] /\ loc'[w].target = k /\ loc'[w].maiden = FALSE
    BY <1>3, <2>1, <2>2, ZenonT(30)
  <2>4. PointsOf(pc'[w], loc'[w], map', hist')
    BY <1>2, <2>3 DEF PointsOf, Removing
  <2>5. Effect(w)
    BY <1>0, <1>1, <1>2, <2>2, <2>3, <2>4, QuietEffect DEF New
  <2>6. Typed(w)
    BY <1>0, <1>2, <2>1, <2>2, <2>3, Types DEF Typed, StoreTypes
  <2> QED BY <2>5, <2>6
<1>5. CASE map[k] = NoHistory
  <2>1. Fresh \in HistoryIds /\ ~Known(Fresh)
    BY <1>0, <1>1, FreshIsNew
  <2>2. /\ hist' = [hist EXCEPT ![Fresh] = NewHistory]
        /\ Go(w, "push", [loc[w] EXCEPT !.ref = Fresh, !.maiden = TRUE])
    BY <1>5 DEF LoadGet
  <2>3. /\ Moves(w) /\ Claims(w) /\ pc'[w] = "push" /\ ShapeOf(pc'[w], loc'[w])
        /\ loc'[w].ref = Fresh /\ loc'[w].target = k /\ loc'[w].maiden = TRUE
    BY <1>3, <2>1, <2>2, ZenonT(30)
  <2>4. hist'[Fresh] = NewHistory /\ \A h \in HistoryIds : h # Fresh => hist'[h] = hist[h]
    BY <1>0, <2>1, <2>2 DEF TypeOK
  <2>5. PointsOf(pc'[w], loc'[w], map', hist')
    BY <1>2, <1>5, <2>3, <2>4 DEF PointsOf, Removing
  <2>6. Frame(w)
    BY <1>2, <2>1, <2>4 DEF Frame
  <2>7. Refers(w)
    BY <1>1, <1>2, <2>1, <2>3 DEF Refers
  <2>8. Fills(w)
    BY <1>1, <1>2 DEF Fills
  <2>9. Effect(w)
    BY <2>3, <2>5, <2>6, <2>7, <2>8 DEF Effect
  <2>10. NewHistory \in [evs: Seq(Events), chain: 0 .. MaxRecv]
    <3>1. <<>> \in Seq(Events)
      OBVIOUS
    <3> QED BY <3>1, Values, ZenonT(30) DEF NewHistory
  <2>11. Typed(w)
    BY <1>0, <1>2, <2>1, <2>2, <2>3, <2>10, Types DEF Typed, StoreTypes
  <2> QED BY <2>9, <2>11
<1> QED BY <1>4, <1>5

(* Every step of a thread has an effect of the kind described.             *)
LEMMA ThreadEffect ==
    ASSUME Inv, NEW t \in Threads, ThreadStep(t)
    PROVE  Effect(t) /\ Typed(t)
<1>1. CASE t \in Workers /\ (Receive(t) \/ receive(t))
  BY <1>1, ReceiveEffect, FindEffect, MatchEffect, LoadGetEffect, LoadPushEffect, LoadAddEffect,
     LoadLastEffect, StoreEffect, PurgeEffect DEF receive
<1>2. CASE t \in Removers /\ (\/ RemoveGet(t) \/ RemoveEvent(t) \/ RemoveNothing(t)
                              \/ RemoveSize(t) \/ RemoveKey(t))
  BY <1>2, RemoveGetEffect, RemoveEffect
<1> QED BY <1>1, <1>2 DEF ThreadStep

(* In the initial state nobody works, and a warm key has its own history   *)
(* with one event.                                                         *)
LEMMA InitInv == Init => Inv
<1> SUFFICES ASSUME Init PROVE Inv
  OBVIOUS
<1>1. \A t \in Threads : pc[t] = "idle" /\ loc[t] = Unused
  BY DEF Init
<1>2. /\ \A k \in Keys : map[k] = IF k \in WarmKeys THEN Placement[k] ELSE NoHistory
      /\ map \in [Keys -> HistoryIds \cup {NoHistory}]
  BY PlacementIsInjective, TrafficAssumption DEF Init
<1>3. Event(0, "initial") \in Events /\ NoEvent \in Events
  BY Values, EventType, NoEventType, ZenonT(30)
<1>4. <<Event(0, "initial")>> \in Seq(Events) /\ <<>> \in Seq(Events)
      /\ <<Event(0, "initial")>> # <<>>
  BY <1>3
<1>5. hist \in [HistoryIds -> [evs: Seq(Events), chain: 0 .. MaxRecv]]
  BY <1>4, Values, ZenonT(30) DEF Init, NewHistory
<1>6. TypeOK
  <2>1. pc \in [Threads -> Stages] /\ loc \in [Threads -> Locals]
    BY UnusedType DEF Init, Stages
  <2>2. OtherTypes
    BY <1>3, Values, TrafficAssumption, ZenonT(30) DEF Init, OtherTypes
  <2>3. \A t \in Threads : pc[t] \notin Dereferencing
    BY <1>1 DEF Dereferencing
  <2> QED BY <1>2, <1>5, <2>1, <2>2, <2>3 DEF OtherTypes, TypeOK
<1>7. Apart
  BY <1>1, UnusedFields, Values, ZenonT(30) DEF Apart, Works
<1>8. Shape /\ Points /\ NewApart
  BY <1>1, UnusedPlace DEF Shape, Points, NewApart, New
<1>9. Injective
  BY <1>2, PlacementIsInjective DEF Injective
<1>10. Filled
  <2> SUFFICES ASSUME NEW k \in Keys, map[k] # NoHistory PROVE hist[map[k]].evs # <<>>
    BY DEF Filled
  <2>1. k \in WarmKeys /\ map[k] = Placement[k] /\ Placement[k] \in HistoryIds
    BY <1>2, PlacementIsInjective
  <2>2. hist[map[k]] = [evs |-> <<Event(0, "initial")>>, chain |-> 0]
    BY <2>1 DEF Init
  <2> QED BY <1>4, <2>2
<1> QED BY <1>6, <1>7, <1>8, <1>9, <1>10 DEF Inv

(* Every step keeps the invariant.                                         *)
LEMMA NextInv ==
    ASSUME Exclusive, Inv, [Next]_vars
    PROVE  Inv'
<1>1. ASSUME NEW t \in Threads, ThreadStep(t) PROVE Inv'
  BY <1>1, ThreadEffect, EffectInv
<1> QED BY <1>1, NextSplit, ClearAllInv, OtherInv

(* What a thread looked up of a key it has for itself stays true until it  *)
(* uses it, and no history is empty, shared or lost.                       *)
THEOREM Invariance == ASSUME Exclusive PROVE Spec => []Inv
BY InitInv, NextInv, PTL DEF Spec

(* receive() finds an event wherever it finds a history, so back() is      *)
(* never taken of an empty vector, as long as threads have their keys for  *)
(* themselves.                                                             *)
THEOREM NoEmptyHistoryIsRead == ASSUME Exclusive PROVE Spec => []NoEmptyHistoryRead
<1>1. Inv => NoEmptyHistoryRead
  <2> SUFFICES ASSUME Inv, NEW w \in Workers, pc[w] = "state" PROVE hist[loc[w].ref].evs # <<>>
    BY DEF NoEmptyHistoryRead
  <2>1. /\ w \in Threads /\ loc[w].ref = map[loc[w].key] /\ loc[w].ref \in HistoryIds
        /\ loc[w].key \in Keys
    BY Here DEF Threads, ShapeOf, PointsOf, Dereferencing
  <2>2. \A s \in Threads : loc[s].key = loc[w].key => s = w
    BY <2>1 DEF Inv, Apart, Works
  <2>3. map[loc[w].key] # NoHistory
    BY <2>1, LocalTypes DEF Inv
  <2> QED BY <2>1, <2>2, <2>3 DEF Inv, Filled
<1> QED BY <1>1, Invariance, PTL

-----------------------------------------------------------------------------
(* A new history is not visible.                                           *)
LEMMA LoadGetStore ==
    ASSUME Inv, NEW w \in Workers, LoadGet(w)
    PROVE  Same
<1>0. w \in Threads /\ TypeOK /\ map' = map
  BY DEF Threads, Inv, LoadGet
<1>1. CASE map[loc[w].target] # NoHistory
  BY <1>0, <1>1, AllTheSame DEF LoadGet
<1>2. CASE map[loc[w].target] = NoHistory
  <2>1. loc[w].ref = NoHistory
    BY <1>0, Here DEF LoadGet, ShapeOf, Dereferencing
  <2>2. Fresh \in HistoryIds /\ ~Known(Fresh)
    BY <1>0, <2>1, FreshIsNew
  <2>3. hist' = [hist EXCEPT ![Fresh] = NewHistory]
    BY <1>2 DEF LoadGet
  <2>4. (\A k \in Keys : map[k] # Fresh) /\ \A i \in HistoryIds : i # Fresh => hist'[i] = hist[i]
    BY <1>0, <2>2, <2>3 DEF Known, TypeOK
  <2> QED BY <1>0, <2>4, NoKeys
<1> QED BY <1>1, <1>2

(* The other steps change nothing that is visible.                         *)
Quiet(t) ==
    \/ t \in Workers /\ (\/ Receive(t) \/ FindMissing(t) \/ FindHistory(t) \/ FindState(t)
                         \/ FindVars(t) \/ Match(t) \/ NoMatch(t) \/ LoadGet(t)
                         \/ RegisterPending(t) \/ StoreGet(t) \/ PurgeGet(t))
    \/ t \in Removers /\ (RemoveGet(t) \/ RemoveNothing(t) \/ RemoveSize(t))

(* They also leave what has been stored and what came last.                *)
LEMMA QuietStore ==
    ASSUME Inv, NEW t \in Threads, Quiet(t)
    PROVE  Same /\ stored' = stored /\ latest' = latest
<1>1. stored' = stored /\ latest' = latest
  BY ZenonT(30) DEF Quiet, Receive, FindMissing, FindHistory, FindState, FindVars, Match, NoMatch, LoadGet,
     RegisterPending, StoreGet, PurgeGet, RemoveGet, RemoveNothing, RemoveSize, ghosts
<1>2. CASE t \in Workers /\ LoadGet(t)
  BY <1>1, <1>2, LoadGetStore
<1>3. CASE ~(t \in Workers /\ LoadGet(t))
  <2>1. UNCHANGED <<map, hist>>
    BY <1>3, ZenonT(30) DEF Quiet, Receive, FindMissing, FindHistory, FindState, FindVars, Match, NoMatch,
       RegisterPending, StoreGet, PurgeGet, RemoveGet, RemoveNothing, RemoveSize, data
  <2> QED BY <1>1, <2>1, AllTheSame
<1> QED BY <1>2, <1>3

-----------------------------------------------------------------------------
(* A step of a thread is a step of EventHistories, or changes nothing that *)
(* is visible.                                                             *)
LEMMA ThreadRefines ==
    ASSUME Inv, NEW t \in Threads, ThreadStep(t)
    PROVE  Histories!StoreStep \/ (Store' = Store /\ Chain' = Chain)
<1>0. TypeOK /\ loc[t].recv \in 0 .. MaxRecv /\ loc[t].keep \in BOOLEAN
  BY LocalTypes DEF Inv
<1>1. CASE Quiet(t)
  BY <1>1, QuietStore, StoreSame
<1>2. CASE t \in Workers /\ LoadPush(t)
  <2>1. CASE loc[t].maiden
    BY <1>2, <2>1, LoadPushStore, StoreSame
  <2>2. CASE ~loc[t].maiden
    <3>1. loc[t].target \in Keys /\ ThisEvent(t) \in Events
      BY <1>0, <1>2, Here, ThisEventType DEF LoadPush, ShapeOf, Loading
    <3> QED BY <1>0, <1>2, <2>2, <3>1, LoadPushStore, AbstractLoad
  <2> QED BY <2>1, <2>2
<1>3. CASE t \in Workers /\ LoadAdd(t)
  <2>1. loc[t].target \in Keys
    BY <1>3, Here DEF LoadAdd, ShapeOf, Loading
  <2>2. PICK k \in Keys, e \in Events : Visible(k) = <<>> /\ VisibleChain(k) = 0 /\ Becomes(k, <<e>>, 0)
    BY <1>3, <2>1, LoadAddStore, ZenonT(30)
  <2>3. <<>> \in Seq(Events) /\ TRUE \in BOOLEAN
    OBVIOUS
  <2>4. Loaded(Visible(k), e, TRUE) = <<e>>
    BY <2>2, <2>3, LoadedFacts, ZenonT(30)
  <2>5. Becomes(k, Loaded(Visible(k), e, TRUE), VisibleChain(k))
    BY <2>2, <2>4, ZenonT(30)
  <2> QED BY <2>5, AbstractLoad, ZenonT(30)
<1>4. CASE t \in Workers /\ LoadLast(t)
  BY <1>4, AllTheSame, StoreSame DEF LoadLast
<1>5. CASE t \in Workers /\ StoreSet(t)
  <2>1. loc[t].key \in Keys
    BY <1>5, Here DEF StoreSet, ShapeOf
  <2> QED BY <1>0, <1>5, <2>1, StoreSetStore, AbstractStoreChain
<1>6. CASE (t \in Workers /\ Purge(t)) \/ (t \in Removers /\ RemoveKey(t))
  <2>1. loc[t].key \in Keys /\ Dropped(loc[t].key) /\ hist' = hist
    BY <1>6, Here DEF Purge, RemoveKey, ShapeOf
  <2> QED BY <1>0, <2>1, DroppedStore, AbstractClearKey
<1>7. CASE t \in Removers /\ RemoveEvent(t)
  <2>1. loc[t].key \in Keys
    BY <1>7, Here DEF RemoveEvent, ShapeOf
  <2> QED BY <1>7, <2>1, RemoveEventStore, AbstractRemoveEvent
<1> QED BY <1>1, <1>2, <1>3, <1>4, <1>5, <1>6, <1>7 DEF ThreadStep, receive, Quiet

(* So is every step.                                                       *)
LEMMA StepRefines ==
    ASSUME Inv, [Next]_vars
    PROVE  [Histories!StoreStep]_<<[k \in Keys |-> Visible(k)], [k \in Keys |-> VisibleChain(k)]>>
<1>1. CASE \E t \in Threads : ThreadStep(t)
  BY <1>1, ThreadRefines DEF Store, Chain
<1>2. CASE \E a \in Removers : ClearAll(a)
  BY <1>2, AbstractClearAll
<1>3. CASE (\E r \in open : streamClose(r)) \/ Configure \/ UNCHANGED vars
  <2>1. UNCHANGED <<map, hist>>
    BY <1>3 DEF streamClose, Configure, vars, data
  <2> QED BY <2>1, AllTheSame, StoreSame DEF Store, Chain
<1> QED BY <1>1, <1>2, <1>3, NextSplit

(* With no warm keys the store is empty at first.                          *)
LEMMA InitRefines ==
    ASSUME Init, WarmKeys = {}
    PROVE  Histories!EmptyStore
<1>1. \A k \in Keys : map[k] = NoHistory
  BY DEF Init
<1>2. \A k \in Keys : Visible(k) = <<>> /\ VisibleChain(k) = 0
  BY <1>1 DEF Visible, VisibleChain
<1> QED BY <1>2 DEF Histories!EmptyStore

(* The steps of the map and of the histories implement the atomic          *)
(* operations of EventHistories, however many threads, keys and requests   *)
(* there are, as long as no two threads work on one key at a time.         *)
THEOREM Refinement ==
    ASSUME Exclusive, WarmKeys = {}
    PROVE  Spec => ImplementsEventHistories
<1>1. Init => Histories!EmptyStore
  BY InitRefines
<1>2. Inv /\ [Next]_vars
        => [Histories!StoreStep]_<<[k \in Keys |-> Visible(k)], [k \in Keys |-> VisibleChain(k)]>>
  BY StepRefines
<1> QED BY <1>1, <1>2, Invariance, PTL DEF Spec, ImplementsEventHistories, Histories!HistoriesSpec

-----------------------------------------------------------------------------
(* Every event is to be kept.                                              *)
AllKept == KeepHistory /\ "history" \notin Configurable

(* Nobody runs without the history.                                        *)
Keeps == conf.history /\ \A t \in Threads : loc[t].keep

(* An event of request r is in a history.                                  *)
Has(evs, r) == \E i \in DOMAIN evs : evs[i].recv = r

(* What is loaded is visible before it is known as stored.                 *)
LoadedThere ==
    \A t \in Threads : pc[t] = "last" => Has(Visible(loc[t].target), loc[t].recv)

(* The last event of a key is the latest one, visible or still new.        *)
Recent ==
    /\ \A k \in Keys : latest[k] # 0 /\ Visible(k) # <<>> => Back(Visible(k)).recv = latest[k]
    /\ \A t \in Threads : pc[t] = "add" => latest[loc[t].target] = loc[t].recv

(* The inductive invariant of what is stored.                              *)
KeptInv == Keeps /\ LoadedThere /\ EverythingStored /\ Recent

(* Every event goes on being kept.                                         *)
LEMMA KeepsThread ==
    ASSUME Inv, Keeps, NEW t \in Threads, ThreadStep(t)
    PROVE  loc'[t].keep /\ conf' = conf
<1>1. /\ loc[t] \in Locals /\ loc[t].keep /\ conf.history = TRUE
      /\ \A stage, l : Go(t, stage, l) => loc'[t] = l
  BY LocalTypes DEF Inv, TypeOK, Keeps, Go
<1>2. conf' = conf
  BY ZenonT(30) DEF ThreadStep, receive, Receive, FindMissing, FindHistory, FindState, FindVars, Match, NoMatch,
     LoadGet, LoadPush, LoadAdd, LoadLast, RegisterPending, StoreGet, StoreSet, PurgeGet, Purge,
     RemoveGet, RemoveEvent, RemoveNothing, RemoveSize, RemoveKey
<1>3. Answer(t) \/ Go(t, "idle", Unused) => loc'[t].keep
  BY <1>1, UnusedFields DEF Answer
<1>4. AfterChain(t) => loc'[t].keep
  BY <1>1, <1>3, ZenonT(30) DEF AfterChain, Locals
<1>5. CASE t \in Workers /\ Receive(t)
  <2>1. PICK k \in Keys : loc'[t] = [Unused EXCEPT !.recv = received', !.key = k]
    BY <1>1, <1>5, ZenonT(30) DEF Receive
  <2> QED BY <1>2, <2>1 DEF Unused
<1>6. CASE FindMissing(t) \/ FindHistory(t) \/ FindState(t) \/ FindVars(t)
  BY <1>1, <1>2, <1>6, ZenonT(30) DEF FindMissing, FindHistory, FindState, FindVars, Locals
<1>7. CASE Match(t) \/ NoMatch(t)
  BY <1>1, <1>2, <1>3, <1>7, ZenonT(30) DEF Match, NoMatch, Locals
<1>8. CASE LoadGet(t) \/ LoadPush(t) \/ LoadAdd(t) \/ LoadLast(t) \/ RegisterPending(t)
  BY <1>1, <1>2, <1>3, <1>8, ZenonT(30) DEF LoadGet, LoadPush, LoadAdd, LoadLast, RegisterPending, Locals
<1>9. CASE StoreGet(t) \/ StoreSet(t) \/ PurgeGet(t) \/ Purge(t)
  BY <1>1, <1>2, <1>3, <1>4, <1>9 DEF StoreGet, StoreSet, PurgeGet, Purge, Locals
<1>10. CASE RemoveGet(t)
  <2>1. PICK k \in Keys : loc'[t] = [Unused EXCEPT !.key = k, !.ref = map[k]]
    BY <1>1, <1>10, ZenonT(30) DEF RemoveGet
  <2> QED BY <1>2, <2>1 DEF Unused
<1>11. CASE RemoveEvent(t) \/ RemoveNothing(t) \/ RemoveSize(t) \/ RemoveKey(t)
  BY <1>1, <1>2, <1>3, <1>11 DEF RemoveEvent, RemoveNothing, RemoveSize, RemoveKey
<1> QED BY <1>5, <1>6, <1>7, <1>8, <1>9, <1>10, <1>11 DEF ThreadStep, receive

(* Nobody can switch the history off.                                      *)
LEMMA KeepsStep ==
    ASSUME AllKept, Inv, Keeps, [Next]_vars
    PROVE  Keeps'
<1>1. CASE \E t \in Threads : ThreadStep(t)
  <2>1. PICK t \in Threads : ThreadStep(t)
    BY <1>1
  <2>2. \A s \in Threads : s # t => loc'[s] = loc[s]
    BY <2>1, ThreadEffect DEF Effect, Moves
  <2> QED BY <2>1, <2>2, KeepsThread DEF Keeps
<1>2. CASE \E a \in Removers : ClearAll(a)
  BY <1>2 DEF ClearAll, Keeps
<1>3. CASE (\E r \in open : streamClose(r)) \/ UNCHANGED vars
  BY <1>3 DEF streamClose, vars, Keeps
<1>4. CASE Configure
  <2>1. PICK flag \in {"data", "purge"} : conf' = [conf EXCEPT ![flag] = ~@]
    BY <1>4, TrafficAssumption, ZenonT(30) DEF Configure, AllKept
  <2>2. conf'.history = conf.history
    BY <2>1 DEF Inv, TypeOK
  <2> QED BY <1>4, <2>2, ZenonT(30) DEF Configure, Keeps
<1> QED BY <1>1, <1>2, <1>3, <1>4, NextSplit

(* A step that changes nothing visible keeps what is stored.               *)
LEMMA KeptQuiet ==
    ASSUME Inv, KeptInv, Same, stored' = stored, latest' = latest,
           \A t \in Threads : pc'[t] \in {"add", "last"} => pc'[t] = pc[t] /\ loc'[t] = loc[t]
    PROVE  LoadedThere' /\ EverythingStored' /\ Recent'
<1>1. \A k \in Keys : Visible(k)' = Visible(k)
  BY DEF Same, SameFor
<1>2. \A t \in Threads : pc[t] \in {"add", "last"} => loc[t].target \in Keys
  BY Here DEF ShapeOf, Loading
<1>3. LoadedThere'
  <2> SUFFICES ASSUME NEW t \in Threads, pc'[t] = "last"
               PROVE  Has(Visible(loc[t].target)', loc[t].recv)
    BY DEF LoadedThere
  <2> QED BY <1>1, <1>2 DEF KeptInv, LoadedThere
<1>4. EverythingStored'
  <2>1. \A p \in stored : p[1] \in Keys
    BY DEF Inv, TypeOK
  <2> QED BY <1>1, <2>1 DEF KeptInv, EverythingStored
<1>5. Recent'
  BY <1>1, <1>2 DEF KeptInv, Recent
<1> QED BY <1>3, <1>4, <1>5

(* A step of t changes what is visible under k to evs, stores or removes   *)
(* nothing elsewhere, and has there what it stores, the latest one last.   *)
KeepsAt(t, k, evs) ==
    /\ Visible(k)' = evs
    /\ \A j \in Keys : j # k => SameFor(j) /\ latest'[j] = latest[j]
    /\ \A p \in stored' : (p \in stored \/ p[1] = k) /\ (p[1] = k => Has(evs, p[2]))
    /\ latest'[k] # 0 /\ evs # <<>> => Back(evs).recv = latest'[k]
    /\ pc'[t] = "last" => loc'[t].target = k /\ Has(evs, loc'[t].recv)
    /\ pc'[t] = "add" => loc'[t].target = k /\ latest'[k] = loc'[t].recv

(* Under a key of its thread, such a step keeps what is stored.            *)
LEMMA KeptAt ==
    ASSUME Inv, KeptInv, NEW t \in Threads, Moves(t), NEW k \in Keys, Works(t, k),
           NEW evs, KeepsAt(t, k, evs), stored' \subseteq Keys \X (0 .. MaxRecv)
    PROVE  LoadedThere' /\ EverythingStored' /\ Recent'
<1>1. \A j \in Keys : j # k => Visible(j)' = Visible(j)
  BY DEF KeepsAt, SameFor
<1>2. ASSUME NEW s \in Threads, s # t, pc'[s] \in {"add", "last"}
      PROVE  /\ pc'[s] = pc[s] /\ loc'[s] = loc[s]
             /\ loc[s].target \in Keys /\ loc[s].target # k
  <2>1. pc'[s] = pc[s] /\ loc'[s] = loc[s]
    BY <1>2 DEF Moves
  <2>2. loc[s].target \in Keys /\ Works(s, loc[s].target)
    BY <1>2, <2>1, Here, Values, ZenonT(30) DEF ShapeOf, Loading, Works
  <2> QED BY <1>2, <2>1, <2>2 DEF Inv, Apart
<1>3. LoadedThere'
  <2> SUFFICES ASSUME NEW s \in Threads, pc'[s] = "last"
               PROVE  Has(Visible(loc[s].target)', loc'[s].recv)
    BY DEF LoadedThere
  <2>1. CASE s = t
    BY <2>1 DEF KeepsAt
  <2>2. CASE s # t
    BY <1>1, <1>2, <2>2 DEF KeptInv, LoadedThere
  <2> QED BY <2>1, <2>2
<1>4. EverythingStored'
  <2> SUFFICES ASSUME NEW p \in stored', NEW j \in Keys, j = p[1] PROVE Has(Visible(j)', p[2])
    BY DEF EverythingStored, Has
  <2>1. CASE j = k
    BY <2>1, ZenonT(30) DEF KeepsAt
  <2>2. CASE j # k
    BY <1>1, <2>2 DEF KeepsAt, KeptInv, EverythingStored, Has
  <2> QED BY <2>1, <2>2
<1>5. Recent'
  <2>1. ASSUME NEW j \in Keys, latest'[j] # 0, Visible(j)' # <<>>
        PROVE  Back(Visible(j)').recv = latest'[j]
    BY <1>1, <2>1 DEF KeepsAt, KeptInv, Recent
  <2>2. ASSUME NEW s \in Threads, pc'[s] = "add" PROVE latest'[loc'[s].target] = loc'[s].recv
    BY <1>2, <2>2 DEF KeepsAt, KeptInv, Recent
  <2> QED BY <2>1, <2>2 DEF Recent
<1> QED BY <1>3, <1>4, <1>5

(* What a history has after an event is appended or erased.                *)
LEMMA AppendHas ==
    ASSUME NEW evs \in Seq(Events), NEW e \in Events
    PROVE  /\ Has(Append(evs, e), e.recv) /\ Back(Append(evs, e)) = e
           /\ \A r : Has(evs, r) => Has(Append(evs, e), r)
<1>1. /\ Len(Append(evs, e)) = Len(evs) + 1 /\ Append(evs, e)[Len(evs) + 1] = e
      /\ DOMAIN Append(evs, e) = 1 .. Len(evs) + 1
      /\ \A i \in 1 .. Len(evs) : Append(evs, e)[i] = evs[i]
  OBVIOUS
<1>2. DOMAIN evs = 1 .. Len(evs) /\ Len(evs) \in Nat
  OBVIOUS
<1>3. Len(evs) + 1 \in 1 .. Len(evs) + 1 /\ 1 .. Len(evs) \subseteq 1 .. Len(evs) + 1
  BY <1>2
<1> QED BY <1>1, <1>2, <1>3 DEF Has, Back

(* Erasing an event leaves those of the other requests.                    *)
LEMMA ErasedHas ==
    ASSUME NEW evs \in Seq(Events), NEW i \in 1 .. Len(evs), NEW r, Has(evs, r), evs[i].recv # r
    PROVE  Has(Erased(evs, i), r)
<1>1. PICK j \in 1 .. Len(evs) : evs[j].recv = r
  BY DEF Has
<1> DEFINE x == Erased(evs, i)
           n == Len(evs) - 1
<1>2. /\ x \in Seq(Events) /\ Len(x) = n
      /\ \A m \in 1 .. n : x[m] = IF m < i THEN evs[m] ELSE evs[m + 1]
  BY ErasedFacts
<1>3. DOMAIN x = 1 .. n
  BY <1>2
<1> HIDE DEF x
<1>4. CASE j < i
  <2>1. j \in 1 .. n /\ x[j] = evs[j]
    BY <1>2, <1>4
  <2> QED BY <1>1, <1>3, <2>1 DEF Has, x
<1>5. CASE j > i
  <2>1. j - 1 \in 1 .. n /\ ~(j - 1 < i) /\ (j - 1) + 1 = j
    BY <1>5
  <2>2. x[j - 1] = evs[j]
    BY <1>2, <2>1
  <2> QED BY <1>1, <1>3, <2>1, <2>2 DEF Has, x
<1> QED BY <1>1, <1>4, <1>5

(* An empty history has no event.                                          *)
LEMMA EmptyHasNot == \A r : ~Has(<<>>, r)
BY DEF Has

(* The stages a thread goes to.                                            *)
LEMMA QuietStages ==
    ASSUME Inv, NEW t \in Threads, Quiet(t)
    PROVE  pc'[t] \notin {"add", "last"}
<1>1. \A stage, l : Go(t, stage, l) => pc'[t] = stage
  BY DEF Inv, TypeOK, Go
<1>2. Answer(t) => pc'[t] = "idle"
  BY <1>1 DEF Answer
<1>3. AfterChain(t) => pc'[t] \in {"idle", "get"}
  BY <1>1, <1>2 DEF AfterChain
<1>4. CASE Receive(t) \/ FindMissing(t) \/ FindHistory(t) \/ FindState(t) \/ FindVars(t)
  BY <1>1, <1>4, ZenonT(30) DEF Receive, FindMissing, FindHistory, FindState, FindVars
<1>5. CASE Match(t) \/ NoMatch(t) \/ LoadGet(t)
  BY <1>1, <1>2, <1>5, ZenonT(30) DEF Match, NoMatch, LoadGet
<1>6. CASE RegisterPending(t) \/ StoreGet(t) \/ PurgeGet(t)
  BY <1>1, <1>2, <1>3, <1>6, ZenonT(30) DEF RegisterPending, StoreGet, PurgeGet
<1>7. CASE RemoveGet(t) \/ RemoveNothing(t) \/ RemoveSize(t)
  BY <1>1, <1>7, ZenonT(30) DEF RemoveGet, RemoveNothing, RemoveSize
<1> QED BY <1>4, <1>5, <1>6, <1>7 DEF Quiet

(* loadEvent keeps what is stored, and stores what it loads.               *)
LEMMA KeptLoad ==
    ASSUME Inv, KeptInv, NEW t \in Workers, LoadPush(t) \/ LoadAdd(t) \/ LoadLast(t)
    PROVE  LoadedThere' /\ EverythingStored' /\ Recent'
<1>0. t \in Threads /\ ThreadStep(t)
  BY DEF Threads, ThreadStep, receive
<1>1. Moves(t) /\ TypeOK /\ stored' \subseteq Keys \X (0 .. MaxRecv)
  BY <1>0, ThreadEffect DEF Effect, Typed, OtherTypes, Inv
<1>2. PICK k \in Keys : k = loc[t].target /\ Works(t, k)
  BY <1>0, Here, Values, ZenonT(30) DEF LoadPush, LoadAdd, LoadLast, ShapeOf, Loading, Works
<1>3. /\ latest \in [Keys -> 0 .. MaxRecv] /\ Visible(k) \in Seq(Events)
      /\ \A p \in stored : p[1] = k => Has(Visible(k), p[2])
      /\ \A stage, l : Go(t, stage, l) => pc'[t] = stage /\ loc'[t] = l
  BY <1>0, <1>1, VisibleType, ZenonT(30) DEF TypeOK, KeptInv, EverythingStored, Has, Go
<1>4. loc[t].keep = TRUE /\ ThisEvent(t) \in Events /\ ThisEvent(t).recv = loc[t].recv
  BY <1>0, <1>1, ThisEventType, LocalTypes, ZenonT(30) DEF KeptInv, Keeps
<1>5. CASE LoadPush(t)
  <2>1. /\ stored' = stored /\ latest' = [latest EXCEPT ![k] = loc[t].recv]
        /\ pc'[t] = IF loc[t].maiden THEN "add" ELSE "last"
        /\ loc'[t] = loc[t]
    BY <1>2, <1>3, <1>5 DEF LoadPush
  <2>2. latest'[k] = loc[t].recv /\ \A j \in Keys : j # k => latest'[j] = latest[j]
    BY <1>3, <2>1, ZenonT(30)
  <2>3. CASE loc[t].maiden
    <3>1. Visible(k) = <<>> /\ Becomes(k, <<>>, VisibleChain(k)) /\ Visible(k)' = <<>>
      BY <1>2, <1>5, <2>3, LoadPushStore DEF Same, SameFor, Becomes
    <3>2. KeepsAt(t, k, <<>>)
      BY <1>2, <1>3, <2>1, <2>2, <2>3, <3>1, ZenonT(30) DEF KeepsAt, Becomes
    <3> QED BY <1>0, <1>1, <1>2, <3>2, KeptAt
  <2>4. CASE ~loc[t].maiden
    <3> DEFINE evs == Append(Visible(k), ThisEvent(t))
    <3>1. Loaded(Visible(k), ThisEvent(t), loc[t].keep) = evs
      BY <1>3, <1>4, LoadedFacts, ZenonT(30)
    <3>2. Becomes(k, evs, VisibleChain(k)) /\ Visible(k)' = evs
      BY <1>2, <1>5, <2>4, <3>1, LoadPushStore DEF Becomes
    <3>3. /\ Has(evs, loc[t].recv) /\ Back(evs) = ThisEvent(t)
          /\ \A p \in stored' : p[1] = k => Has(evs, p[2])
      BY <1>3, <1>4, <2>1, AppendHas, ZenonT(30)
    <3> HIDE DEF evs
    <3>4. KeepsAt(t, k, evs)
      BY <1>2, <1>4, <2>1, <2>2, <2>4, <3>2, <3>3 DEF KeepsAt, Becomes
    <3> QED BY <1>0, <1>1, <1>2, <3>4, KeptAt
  <2> QED BY <2>3, <2>4
<1>6. CASE LoadAdd(t)
  <2>1. stored' = stored /\ latest' = latest /\ pc'[t] = "last" /\ loc'[t] = loc[t]
    BY <1>3, <1>6 DEF LoadAdd, ghosts
  <2>2. PICK e \in Events : e.recv = loc[t].recv /\ Visible(k) = <<>> /\ Becomes(k, <<e>>, 0)
    BY <1>2, <1>6, LoadAddStore
  <2>3. Visible(k)' = <<e>>
    BY <2>2 DEF Becomes
  <2>4. Has(<<e>>, loc[t].recv) /\ Back(<<e>>) = e
    BY <2>2 DEF Has, Back
  <2>5. latest[k] = loc[t].recv
    BY <1>0, <1>2, <1>6 DEF KeptInv, Recent, LoadAdd
  <2>6. \A p \in stored' : p[1] # k
    BY <1>3, <2>1, <2>2, EmptyHasNot
  <2>7. KeepsAt(t, k, <<e>>)
    BY <1>2, <2>1, <2>2, <2>3, <2>4, <2>5, <2>6 DEF KeepsAt, Becomes
  <2> QED BY <1>0, <1>1, <1>2, <2>7, KeptAt
<1>7. CASE LoadLast(t)
  <2>1. /\ stored' = stored \cup {<<k, loc[t].recv>>} /\ latest' = latest /\ pc[t] = "last"
        /\ pc'[t] \in {"pend", "idle"}
    BY <1>2, <1>3, <1>7 DEF LoadLast, Answer
  <2>2. Same
    BY <1>7, AllTheSame DEF LoadLast
  <2>3. Becomes(k, Visible(k), VisibleChain(k)) /\ Visible(k)' = Visible(k)
    BY <2>2 DEF Same, SameFor, Becomes
  <2>4. Has(Visible(k), loc[t].recv)
    BY <1>0, <1>2, <2>1 DEF KeptInv, LoadedThere
  <2>5. \A p \in stored' : (p \in stored \/ p[1] = k) /\ (p[1] = k => Has(Visible(k), p[2]))
    BY <1>3, <2>1, <2>4
  <2>6. latest'[k] # 0 /\ Visible(k) # <<>> => Back(Visible(k)).recv = latest'[k]
    BY <2>1 DEF KeptInv, Recent
  <2>7. KeepsAt(t, k, Visible(k))
    BY <2>1, <2>3, <2>5, <2>6 DEF KeepsAt, Becomes
  <2> QED BY <1>0, <1>1, <1>2, <2>7, KeptAt
<1> QED BY <1>5, <1>6, <1>7

(* Chain variables, and the removal of one key or one event, keep what is  *)
(* stored otherwise.                                                       *)
LEMMA KeptRemove ==
    ASSUME Inv, KeptInv, NEW t \in Threads, ThreadStep(t),
           \/ t \in Workers /\ (StoreSet(t) \/ Purge(t))
           \/ t \in Removers /\ (RemoveEvent(t) \/ RemoveKey(t))
    PROVE  LoadedThere' /\ EverythingStored' /\ Recent'
<1>1. Moves(t) /\ TypeOK /\ stored' \subseteq Keys \X (0 .. MaxRecv)
  BY ThreadEffect, ZenonT(30) DEF Effect, Typed, OtherTypes, Inv
<1>2. PICK k \in Keys : k = loc[t].key /\ Works(t, k)
  BY Here, ZenonT(30) DEF StoreSet, Purge, RemoveEvent, RemoveKey, ShapeOf, Works
<1>3. /\ latest \in [Keys -> 0 .. MaxRecv] /\ Visible(k) \in Seq(Events)
      /\ \A p \in stored : p[1] = k => Has(Visible(k), p[2])
      /\ \A stage, l : Go(t, stage, l) => pc'[t] = stage
  BY <1>1, VisibleType, ZenonT(30) DEF TypeOK, KeptInv, EverythingStored, Has, Go
<1>4. Answer(t) => pc'[t] = "idle"
  BY <1>3 DEF Answer
<1>5. CASE t \in Workers /\ StoreSet(t)
  <2>1. stored' = stored /\ latest' = latest /\ pc'[t] \in {"idle", "get"}
    BY <1>3, <1>4, <1>5 DEF StoreSet, AfterChain, ghosts
  <2>2. Becomes(k, Visible(k), loc[t].recv)
    BY <1>2, <1>5, StoreSetStore
  <2>3. Visible(k)' = Visible(k)
    BY <2>2 DEF Becomes
  <2>4. latest'[k] # 0 /\ Visible(k) # <<>> => Back(Visible(k)).recv = latest'[k]
    BY <2>1, ZenonT(30) DEF KeptInv, Recent
  <2>5. KeepsAt(t, k, Visible(k))
    BY <1>3, <2>1, <2>2, <2>3, <2>4 DEF KeepsAt, Becomes
  <2> QED BY <1>1, <1>2, <2>5, KeptAt
<1>6. CASE (t \in Workers /\ Purge(t)) \/ (t \in Removers /\ RemoveKey(t))
  <2>1. Dropped(k) /\ hist' = hist /\ pc'[t] = "idle"
    BY <1>2, <1>3, <1>4, <1>6 DEF Purge, RemoveKey
  <2>2. Becomes(k, <<>>, 0)
    BY <1>1, <2>1, DroppedStore
  <2>3. Visible(k)' = <<>>
    BY <2>2 DEF Becomes
  <2>4. /\ \A p \in stored' : p \in stored /\ p[1] # k
        /\ latest'[k] = 0 /\ \A j \in Keys : j # k => latest'[j] = latest[j]
    BY <1>3, <2>1 DEF Dropped
  <2>5. KeepsAt(t, k, <<>>)
    BY <2>1, <2>2, <2>3, <2>4, ZenonT(30) DEF KeepsAt, Becomes
  <2> QED BY <1>1, <1>2, <2>5, KeptAt
<1>7. CASE t \in Removers /\ RemoveEvent(t)
  <2>1. pc'[t] = "rmsize"
    BY <1>3, <1>7, ZenonT(30) DEF RemoveEvent
  <2> DEFINE c == IF Len(Visible(k)) = 1 THEN 0 ELSE VisibleChain(k)
  <2>2. PICK i \in 1 .. Len(Visible(k)) :
          /\ Becomes(k, Erased(Visible(k), i), c)
          /\ stored' = stored \ {<<k, Visible(k)[i].recv>>}
          /\ latest' = [latest EXCEPT ![k] = 0]
    BY <1>2, <1>7, RemoveEventStore
  <2> DEFINE evs == Erased(Visible(k), i)
  <2>3. Visible(k)' = evs
    BY <2>2 DEF Becomes
  <2>4. latest'[k] = 0 /\ \A j \in Keys : j # k => latest'[j] = latest[j]
    BY <1>3, <2>2
  <2>5. ASSUME NEW p \in stored', p[1] = k PROVE Has(evs, p[2])
    <3>1. p \in stored /\ p = <<k, p[2]>> /\ p # <<k, Visible(k)[i].recv>>
      BY <1>1, <2>2, <2>5
    <3>2. Has(Visible(k), p[2]) /\ Visible(k)[i].recv # p[2]
      BY <1>3, <2>5, <3>1
    <3> QED BY <1>3, <3>2, ErasedHas
  <2> HIDE DEF evs, c
  <2>6. Becomes(k, evs, c)
    BY <2>2 DEF evs
  <2>7. KeepsAt(t, k, evs)
    BY <2>1, <2>2, <2>3, <2>4, <2>5, <2>6, ZenonT(30) DEF KeepsAt, Becomes
  <2> QED BY <1>1, <1>2, <2>7, KeptAt
<1> QED BY <1>5, <1>6, <1>7

(* Every step keeps what is stored.                                        *)
LEMMA KeptNext ==
    ASSUME Exclusive, AllKept, Inv, KeptInv, [Next]_vars
    PROVE  KeptInv'
<1>1. Keeps'
  BY KeepsStep DEF KeptInv
<1>2. CASE \E t \in Threads : ThreadStep(t)
  <2>1. PICK t \in Threads : ThreadStep(t)
    BY <1>2
  <2>2. CASE Quiet(t)
    <3>1. \A s \in Threads : s # t => pc'[s] = pc[s] /\ loc'[s] = loc[s]
      BY <2>1, ThreadEffect, ZenonT(30) DEF Effect, Moves
    <3>2. pc'[t] \notin {"add", "last"} /\ Same /\ stored' = stored /\ latest' = latest
      BY <2>2, QuietStages, QuietStore
    <3>3. LoadedThere' /\ EverythingStored' /\ Recent'
      BY <3>1, <3>2, KeptQuiet
    <3> QED BY <1>1, <3>3 DEF KeptInv
  <2>3. CASE t \in Workers /\ (LoadPush(t) \/ LoadAdd(t) \/ LoadLast(t))
    BY <1>1, <2>3, KeptLoad DEF KeptInv
  <2>4. CASE \/ t \in Workers /\ (StoreSet(t) \/ Purge(t))
             \/ t \in Removers /\ (RemoveEvent(t) \/ RemoveKey(t))
    BY <1>1, <2>1, <2>4, KeptRemove DEF KeptInv
  <2> QED BY <2>1, <2>2, <2>3, <2>4 DEF ThreadStep, receive, Quiet
<1>3. CASE \E a \in Removers : ClearAll(a)
  <2>1. PICK a \in Removers : ClearAll(a)
    BY <1>3
  <2>2. stored' = {} /\ pc' = pc /\ latest' = [k \in Keys |-> 0]
    BY <2>1 DEF ClearAll
  <2>3. \A t \in Threads : pc[t] = "idle"
    BY <2>1, AllFree DEF ClearAll
  <2> QED BY <1>1, <2>2, <2>3, ZenonT(30) DEF KeptInv, LoadedThere, EverythingStored, Recent
<1>4. CASE (\E r \in open : streamClose(r)) \/ Configure \/ UNCHANGED vars
  <2>1. UNCHANGED <<map, hist, pc, loc, stored, latest>>
    BY <1>4 DEF streamClose, Configure, vars, data, ghosts
  <2>2. Same
    BY <2>1, AllTheSame
  <2> QED BY <1>1, <2>1, <2>2, KeptQuiet DEF KeptInv
<1> QED BY <1>2, <1>3, <1>4, NextSplit

(* At first nothing is stored.                                             *)
LEMMA KeptInit ==
    ASSUME AllKept, Init
    PROVE  KeptInv
<1>1. \A t \in Threads : pc[t] = "idle" /\ loc[t].keep
  BY UnusedFields DEF Init
<1> QED BY <1>1 DEF Init, AllKept, KeptInv, Keeps, LoadedThere, EverythingStored, Recent

(* What readers of the map find is what was loaded and not removed.        *)
THEOREM KeptInvariance ==
    ASSUME Exclusive, AllKept
    PROVE  Spec => []KeptInv
<1>1. Init => KeptInv
  BY KeptInit
<1>2. Inv /\ KeptInv /\ [Next]_vars => KeptInv'
  BY KeptNext
<1> QED BY <1>1, <1>2, Invariance, PTL DEF Spec

(* "everything is stored": with discard and discardKeyHistory off, an      *)
(* event that loadEvent has returned for is found under its key until it   *)
(* is removed, when no two threads work on one key at a time.              *)
THEOREM EverythingIsStored ==
    ASSUME Exclusive, AllKept
    PROVE  Spec => []EverythingStored
BY KeptInvariance, PTL DEF KeptInv

(* The event at the back of a key's history, which decides the state of    *)
(* the next request, is the one loaded last.                               *)
THEOREM LatestDecides ==
    ASSUME Exclusive, AllKept
    PROVE  Spec => []LatestDecidesState
<1>1. KeptInv => LatestDecidesState
  BY DEF KeptInv, Recent, LatestDecidesState
<1> QED BY <1>1, KeptInvariance, PTL
=============================================================================
