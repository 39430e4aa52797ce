------------------------ MODULE ServerMatchingProofs ------------------------
(***************************************************************************)
(* That the order of the keys and the map stay together, that a search     *)
(* never meets a key without a provision, and that a classification is     *)
(* that of one moment, for every set of workers, administrators, uris,     *)
(* keys and documents.                                                     *)
(***************************************************************************)
EXTENDS ServerMatching, SequenceTheorems, TLAPS

(* The lock: a writer excludes the readers, and each holds it exactly in   *)
(* its critical section.                                                   *)
LockHeld ==
    /\ writer # Nobody => readers = {}
    /\ \A a \in Admins : apc[a] \in {"add", "clear"} <=> writer = a
    /\ \A w \in Workers : pc[w] = "search" <=> w \in readers

Distinct == \A i, j \in DOMAIN ordered : i # j => ordered[i] # ordered[j]
Listed(k) == \E i \in DOMAIN ordered : ordered[i] = k

(* What the order and the map are to each other in the critical sections   *)
(* of a writer, too: a key is pushed before its provision is added, and    *)
(* the order is emptied before the map.                                    *)
BothLists ==
    /\ Distinct
    /\ writer = Nobody => \A k \in Keys : Present(k) <=> Listed(k)
    /\ \A a \in Admins :
         /\ apc[a] = "add" =>
              /\ job[a].todo # <<>>
              /\ \A k \in Keys : Listed(k) <=> (Present(k) \/ k = Head(job[a].todo).key)
         /\ apc[a] = "clear" => ordered = <<>>

(* How far a search is: it has passed only keys that do not match.         *)
Searched ==
    \A w \in Workers : pc[w] = "search" =>
      /\ req[w].config.algorithm = "RegexMatching"
      /\ req[w].next >= 1
      /\ \A i \in DOMAIN ordered : i < req[w].next => ~Matches(ordered[i], req[w].uri)

(* What was seen includes what there is now.                               *)
Seen ==
    \A w \in Workers : pc[w] # "idle" =>
      /\ Now(w) \in seen[w].specific /\ Present(Default) \in seen[w].default
      /\ pc[w] = "fallback" => None \in seen[w].specific

Inv == TypeOK /\ LockHeld /\ BothLists /\ Searched /\ Seen /\ ClassificationIsAtomic

-----------------------------------------------------------------------------
WorkerStep(w) == Receive(w) \/ Find(w) \/ LockShared(w) \/ Search(w) \/ Fallback(w)

AdminStep(a) ==
    \/ PostMatching(a) \/ PostProvisions(a) \/ ClearKeys(a) \/ List(a)
    \/ LoadFails(a) \/ PushKey(a) \/ AddProvision(a) \/ LoadEnd(a) \/ ClearMap(a)

(* Next is a step of one worker or of one administrator.                   *)
LEMMA NextSplit ==
    ASSUME Next
    PROVE  /\ \/ \E w \in Workers : WorkerStep(w)
              \/ \E a \in Admins : AdminStep(a)
           /\ Observe
BY DEF Next, WorkerStep, AdminStep, receive, operation, Request

(* A sequence of keys is a function on its indices.                        *)
LEMMA OrderedIndices ==
    ASSUME TypeOK
    PROVE  /\ DOMAIN ordered = 1 .. Len(ordered) /\ Len(ordered) \in Nat
           /\ \A i \in DOMAIN ordered : ordered[i] \in Keys
BY DEF TypeOK

(* The items an administrator has still to load are items.                 *)
LEMMA TodoItems ==
    ASSUME TypeOK, NEW a \in Admins, job[a].todo # <<>>
    PROVE  /\ Head(job[a].todo) \in Items /\ Tail(job[a].todo) \in Seq(Items)
           /\ Head(job[a].todo).key \in Keys
<1>1. job[a].todo \in Seq(Items)
  BY DEF TypeOK
<1>2. Head(job[a].todo) \in Items /\ Tail(job[a].todo) \in Seq(Items)
  BY <1>1
<1> QED BY <1>2 DEF Items

Locals == [config: Configs, uri: Uris \cup {None}, next: Nat, result: Keys \cup {None}]

(* The local variables of a worker stay of their type when one is assigned. *)
LEMMA UpdatedLocals ==
    ASSUME NEW r \in Locals, NEW n \in Nat, NEW k \in Keys \cup {None}
    PROVE  /\ [r EXCEPT !.next = n] \in Locals
           /\ [r EXCEPT !.result = k] \in Locals
BY DEF Locals

(* A step that only moves one worker and touches the readers keeps the     *)
(* types.                                                                  *)
LEMMA GoTypes ==
    ASSUME TypeOK, NEW w \in Workers, NEW r \in Locals,
           NEW stage \in {"find", "search", "fallback", "done"}, Go(w, stage, r),
           readers' \subseteq Workers, UNCHANGED <<store, writer, apc, job>>
    PROVE  TypeOK'
BY DEF TypeOK, Locals, Go, store

(* A worker's step keeps the types.                                        *)
LEMMA WorkerTypes ==
    ASSUME TypeOK, Searched, NEW w \in Workers, WorkerStep(w)
    PROVE  TypeOK'
<1>0. req[w] \in Locals /\ Default \in Keys /\ readers \subseteq Workers /\ config \in Configs
  BY MatchingAssumption DEF TypeOK, Locals
<1>1. CASE Receive(w)
  <2>1. PICK u \in Requests :
          Go(w, "find", [Unused EXCEPT !.uri = ClassificationUri(config, u)])
    BY <1>1 DEF Receive
  <2>2. ClassificationUri(config, u) \in Uris
    BY <1>0 DEF Uris
  <2>3. [Unused EXCEPT !.uri = ClassificationUri(config, u)] \in Locals
    BY <1>0, <2>2 DEF Unused, Locals
  <2> QED BY <1>0, <1>1, <2>1, <2>3, GoTypes DEF Receive, lock, admin
<1>2. CASE Find(w)
  <2>1. CASE Present(req[w].uri)
    <3>1. [req[w] EXCEPT !.result = req[w].uri] \in Locals
      BY <1>0, <2>1, UpdatedLocals DEF Present
    <3> QED BY <1>0, <1>2, <2>1, <3>1, GoTypes DEF Find, lock, admin
  <2>2. CASE ~Present(req[w].uri)
    BY <1>0, <1>2, <2>2, GoTypes DEF Find, lock, admin
  <2> QED BY <2>1, <2>2
<1>3. CASE LockShared(w)
  <2>1. [req[w] EXCEPT !.next = 1] \in Locals
    BY <1>0, UpdatedLocals
  <2> QED BY <1>0, <1>3, <2>1, GoTypes DEF LockShared, admin
<1>4. CASE Search(w)
  <2>0. UNCHANGED <<store, writer, apc, job>> /\ readers' \subseteq Workers
    BY <1>0, <1>4 DEF Search, admin
  <2>1. req[w].next \in Nat /\ req[w].next + 1 \in Nat
    BY <1>0 DEF Locals
  <2>2. CASE Go(w, "fallback", req[w])
    BY <1>0, <2>0, <2>2, GoTypes
  <2>3. CASE /\ req[w].next <= Len(ordered) /\ Matches(ordered[req[w].next], req[w].uri)
             /\ Go(w, "done", [req[w] EXCEPT !.result = ordered[req[w].next]])
    <3>1. ordered[req[w].next] \in Keys \cup {None}
      <4>1. req[w].next >= 1
        BY <1>4 DEF Search, Searched
      <4> QED BY <2>1, <2>3, <4>1, OrderedIndices
    <3>2. [req[w] EXCEPT !.result = ordered[req[w].next]] \in Locals
      BY <1>0, <3>1, UpdatedLocals
    <3> QED BY <2>0, <2>3, <3>2, GoTypes
  <2>4. CASE Go(w, "search", [req[w] EXCEPT !.next = req[w].next + 1])
    <3>1. [req[w] EXCEPT !.next = req[w].next + 1] \in Locals
      BY <1>0, <2>1, UpdatedLocals
    <3> QED BY <2>0, <2>4, <3>1, GoTypes
  <2> QED BY <1>4, <2>2, <2>3, <2>4 DEF Search
<1>5. CASE Fallback(w)
  <2>1. [req[w] EXCEPT !.result = IF Present(Default) THEN Default ELSE None] \in Locals
    BY <1>0, UpdatedLocals
  <2> QED BY <1>0, <1>5, <2>1, GoTypes DEF Fallback, lock, admin
<1> QED BY <1>1, <1>2, <1>3, <1>4, <1>5 DEF WorkerStep

Codes == {0, 200, 201, 204, 400}
Jobs == [todo: Seq(Items), regex: BOOLEAN, code: Codes]

(* What an administrator's step assigns, and what it leaves to the workers. *)
LEMMA AdminAssigns ==
    ASSUME TypeOK, config' \in Configs, ordered' \in Seq(Keys),
           provisions' \in [Keys -> {"absent", "plain", "compiled"}],
           writer' \in Admins \cup {Nobody}, UNCHANGED readers, UNCHANGED traffic,
           apc' \in [Admins -> {"idle", "load", "add", "clear"}],
           job' \in [Admins -> Jobs]
    PROVE  TypeOK'
BY DEF TypeOK, traffic, Jobs, Codes

(* What there was is of its type.                                          *)
LEMMA AdminTyped ==
    ASSUME TypeOK
    PROVE  /\ config \in Configs /\ ordered \in Seq(Keys)
           /\ provisions \in [Keys -> {"absent", "plain", "compiled"}]
           /\ writer \in Admins \cup {Nobody}
           /\ apc \in [Admins -> {"idle", "load", "add", "clear"}]
           /\ job \in [Admins -> Jobs]
BY DEF TypeOK, Jobs, Codes

(* The end of an operation.                                                *)
LEMMA AnswerTypes ==
    ASSUME TypeOK, NEW a \in Admins, NEW c \in Codes, Answer(a, c)
    PROVE  /\ apc' \in [Admins -> {"idle", "load", "add", "clear"}]
           /\ job' \in [Admins -> Jobs]
<1>1. <<>> \in Seq(Items)
  OBVIOUS
<1>2. Nothing \in Jobs
  BY <1>1 DEF Nothing, Jobs, Codes
<1>3. [Nothing EXCEPT !.code = c] \in Jobs
  BY <1>2 DEF Jobs
<1> QED BY <1>3, AdminTyped DEF Answer

(* An administrator's step keeps the types.                                *)
LEMMA AdminTypes ==
    ASSUME TypeOK, BothLists, NEW a \in Admins, AdminStep(a)
    PROVE  TypeOK'
<1>1. CASE PostMatching(a)
  <2>1. PICK m \in MatchingDocs :
          \/ config' = [algorithm |-> m.algorithm, filter |-> m.filter,
                        separator |-> m.separator] /\ Answer(a, 201)
          \/ Answer(a, 400) /\ UNCHANGED config
    BY <1>1 DEF PostMatching
  <2>2. [algorithm |-> m.algorithm, filter |-> m.filter, separator |-> m.separator] \in Configs
    BY MatchingAssumption DEF Configs
  <2>3. config' \in Configs
    BY <2>1, <2>2, AdminTyped
  <2>4. \E c \in Codes : Answer(a, c)
    BY <2>1 DEF Codes
  <2> QED BY <1>1, <2>3, <2>4, AdminTyped, AnswerTypes, AdminAssigns DEF PostMatching, lock
<1>2. CASE PostProvisions(a)
  <2>1. PICK doc \in ProvisionDocs :
          job' = [job EXCEPT ![a] = [todo |-> doc, code |-> 0,
                                     regex |-> config.algorithm = "RegexMatching"]]
    BY <1>2 DEF PostProvisions
  <2>2. [todo |-> doc, code |-> 0, regex |-> config.algorithm = "RegexMatching"] \in Jobs
    BY MatchingAssumption DEF Jobs, Codes
  <2>3. job' \in [Admins -> Jobs] /\ apc' \in [Admins -> {"idle", "load", "add", "clear"}]
    BY <1>2, <2>1, <2>2, AdminTyped DEF PostProvisions
  <2> QED BY <1>2, <2>3, AdminTyped, AdminAssigns DEF PostProvisions, store, lock
<1>3. CASE ClearKeys(a)
  <2>1. apc' \in [Admins -> {"idle", "load", "add", "clear"}] /\ ordered' \in Seq(Keys)
    BY <1>3, AdminTyped DEF ClearKeys
  <2> QED BY <1>3, <2>1, AdminTyped, AdminAssigns DEF ClearKeys, LockExclusive
<1>4. CASE List(a)
  <2>1. \E c \in Codes : Answer(a, c)
    BY <1>4 DEF List, Codes
  <2> QED BY <1>4, <2>1, AdminTyped, AnswerTypes, AdminAssigns DEF List, store, lock
<1>5. CASE LoadFails(a) \/ LoadEnd(a)
  <2>1. \E c \in Codes : Answer(a, c)
    BY <1>5 DEF LoadFails, LoadEnd, Codes
  <2> QED BY <1>5, <2>1, AdminTyped, AnswerTypes, AdminAssigns
          DEF LoadFails, LoadEnd, store, lock
<1>6. CASE PushKey(a)
  <2>1. ordered' \in Seq(Keys)
    BY <1>6, TodoItems, AdminTyped DEF PushKey
  <2>2. apc' \in [Admins -> {"idle", "load", "add", "clear"}]
    BY <1>6, AdminTyped DEF PushKey
  <2> QED BY <1>6, <2>1, <2>2, AdminTyped, AdminAssigns DEF PushKey, LockExclusive
<1>7. CASE AddProvision(a)
  <2>1. Tail(job[a].todo) \in Seq(Items) /\ job[a] \in Jobs
    BY <1>7, TodoItems, AdminTyped DEF AddProvision, BothLists
  <2>2. [job[a] EXCEPT !.todo = Tail(job[a].todo)] \in Jobs
    BY <2>1 DEF Jobs
  <2>3. job' \in [Admins -> Jobs] /\ apc' \in [Admins -> {"idle", "load", "add", "clear"}]
    BY <1>7, <2>2, AdminTyped DEF AddProvision
  <2>4. provisions' \in [Keys -> {"absent", "plain", "compiled"}]
    BY <1>7, AdminTyped DEF AddProvision
  <2> QED BY <1>7, <2>3, <2>4, AdminTyped, AdminAssigns DEF AddProvision
<1>8. CASE ClearMap(a)
  <2>1. \E c \in Codes : Answer(a, c)
    BY <1>8 DEF ClearMap, Codes
  <2>2. provisions' \in [Keys -> {"absent", "plain", "compiled"}]
    BY <1>8 DEF ClearMap
  <2> QED BY <1>8, <2>1, <2>2, AdminTyped, AnswerTypes, AdminAssigns DEF ClearMap
<1> QED BY <1>1, <1>2, <1>3, <1>4, <1>5, <1>6, <1>7, <1>8 DEF AdminStep

(* The lock is taken and released with its critical sections.              *)
LEMMA WorkerLock ==
    ASSUME TypeOK, LockHeld, NEW w \in Workers, WorkerStep(w)
    PROVE  LockHeld'
<1> USE DEF TypeOK, LockHeld, Go
<1>1. CASE Receive(w)
  BY <1>1 DEF Receive, lock, admin
<1>2. CASE Find(w)
  BY <1>2 DEF Find, lock, admin
<1>3. CASE LockShared(w)
  BY <1>3 DEF LockShared, admin
<1>4. CASE Search(w)
  <2>1. \/ pc' = [pc EXCEPT ![w] = "fallback"] /\ readers' = readers \ {w}
        \/ pc' = [pc EXCEPT ![w] = "done"] /\ readers' = readers \ {w}
        \/ pc' = [pc EXCEPT ![w] = "search"] /\ readers' = readers
    BY <1>4 DEF Search
  <2>2. UNCHANGED <<writer, apc>> /\ pc[w] = "search"
    BY <1>4 DEF Search, admin
  <2>3. writer = Nobody
    BY <2>2
  <2>4. \A v \in Workers : pc'[v] = "search" <=> v \in readers'
    <3>1. CASE pc' = [pc EXCEPT ![w] = "search"] /\ readers' = readers
      BY <2>2, <3>1
    <3>2. ASSUME NEW stage \in {"fallback", "done"},
                 pc' = [pc EXCEPT ![w] = stage] /\ readers' = readers \ {w}
          PROVE  \A v \in Workers : pc'[v] = "search" <=> v \in readers'
      BY <2>2, <3>2
    <3> QED BY <2>1, <3>1, <3>2
  <2> QED BY <2>2, <2>3, <2>4
<1>5. CASE Fallback(w)
  BY <1>5 DEF Fallback, lock, admin
<1> QED BY <1>1, <1>2, <1>3, <1>4, <1>5 DEF WorkerStep

(* An admin step takes the lock when it is free and gives back its own.    *)
LEMMA AdminLock ==
    ASSUME TypeOK, LockHeld, NEW a \in Admins, AdminStep(a)
    PROVE  LockHeld'
<1> USE MatchingAssumption DEF TypeOK, LockHeld
<1>1. CASE PostMatching(a)
  BY <1>1 DEF PostMatching, Operate, Answer, lock, traffic
<1>2. CASE PostProvisions(a)
  BY <1>2 DEF PostProvisions, Operate, lock, traffic
<1>3. CASE ClearKeys(a)
  BY <1>3 DEF ClearKeys, Operate, LockExclusive, traffic
<1>4. CASE List(a)
  BY <1>4 DEF List, Operate, Answer, lock, traffic
<1>5. CASE LoadFails(a) \/ LoadEnd(a)
  <2>1. /\ apc[a] = "load" /\ apc' = [apc EXCEPT ![a] = "idle"]
        /\ UNCHANGED <<writer, readers, pc>>
    BY <1>5 DEF LoadFails, LoadEnd, Answer, lock, traffic
  <2> QED BY <2>1
<1>6. CASE PushKey(a)
  BY <1>6 DEF PushKey, LockExclusive, traffic
<1>7. CASE AddProvision(a)
  BY <1>7 DEF AddProvision, traffic
<1>8. CASE ClearMap(a)
  BY <1>8 DEF ClearMap, Answer, traffic
<1> QED BY <1>1, <1>2, <1>3, <1>4, <1>5, <1>6, <1>7, <1>8 DEF AdminStep

-----------------------------------------------------------------------------
(* The order and the map are as they were while no writer is at them.      *)
LEMMA ListsStay ==
    ASSUME BothLists, UNCHANGED <<provisions, ordered, writer>>,
           \A a \in Admins : apc'[a] \in {"add", "clear"} =>
             apc'[a] = apc[a] /\ job'[a] = job[a]
    PROVE  BothLists'
BY DEF BothLists, Distinct, Listed, Present

(* A worker's step is not one of the order, of the map or of a writer.     *)
LEMMA WorkerLists ==
    ASSUME BothLists, NEW w \in Workers, WorkerStep(w)
    PROVE  BothLists' /\ UNCHANGED <<config, provisions, ordered, writer, apc, job>>
<1>1. UNCHANGED <<config, provisions, ordered, writer, apc, job>>
  BY DEF WorkerStep, Receive, Find, LockShared, Search, Fallback, store, lock, admin
<1> QED BY <1>1, ListsStay

(* An administrator's step keeps the two lists together.                   *)
LEMMA AdminLists ==
    ASSUME TypeOK, LockHeld, BothLists, NEW a \in Admins, AdminStep(a)
    PROVE  BothLists'
<1>0. apc \in [Admins -> {"idle", "load", "add", "clear"}] /\ job \in [Admins -> Jobs]
  BY AdminTyped
<1>1. CASE PostMatching(a) \/ PostProvisions(a) \/ List(a) \/ LoadFails(a) \/ LoadEnd(a)
  <2>1. UNCHANGED <<provisions, ordered, writer>>
    BY <1>1 DEF PostMatching, PostProvisions, List, LoadFails, LoadEnd, store, lock
  <2>2. PICK s \in {"idle", "load"} : apc' = [apc EXCEPT ![a] = s]
    BY <1>1 DEF PostMatching, PostProvisions, List, LoadFails, LoadEnd, Answer
  <2>3. \A b \in Admins : b # a => job'[b] = job[b]
    BY <1>0, <1>1 DEF PostMatching, PostProvisions, List, LoadFails, LoadEnd, Answer
  <2> QED BY <1>0, <2>1, <2>2, <2>3, ListsStay
<1>2. CASE ClearKeys(a)
  <2>1. /\ writer = Nobody /\ writer' = a /\ ordered' = <<>>
        /\ apc' = [apc EXCEPT ![a] = "clear"]
    BY <1>2 DEF ClearKeys, LockExclusive
  <2>2. \A b \in Admins : b # a => apc'[b] \notin {"add", "clear"}
    BY <1>0, <2>1, MatchingAssumption DEF LockHeld
  <2> QED BY <1>0, <2>1, <2>2, MatchingAssumption DEF BothLists, Distinct
<1>3. CASE PushKey(a)
  <2> DEFINE k == Head(job[a].todo).key
  <2>1. /\ writer = Nobody /\ writer' = a /\ UNCHANGED <<provisions, job>>
        /\ apc' = [apc EXCEPT ![a] = "add"] /\ job[a].todo # <<>>
        /\ ordered' = IF Present(k) THEN ordered ELSE Append(ordered, k)
    BY <1>3 DEF PushKey, LockExclusive
  <2>2. \A b \in Admins : b # a => apc'[b] \notin {"add", "clear"}
    BY <1>0, <2>1, MatchingAssumption DEF LockHeld
  <2>3. k \in Keys
    BY <2>1, TodoItems
  <2>4. /\ Distinct /\ \A x \in Keys : Present(x) <=> Listed(x)
    BY <2>1 DEF BothLists
  <2>5. /\ Distinct'
        /\ \A x \in Keys : Listed(x)' <=> (Present(x) \/ x = k)
    <3>1. CASE Present(k)
      BY <2>1, <2>3, <2>4, <3>1 DEF Distinct, Listed
    <3>2. CASE ~Present(k)
      <4>1. ordered \in Seq(Keys) /\ ordered' = Append(ordered, k)
        BY <2>1, <3>2 DEF TypeOK
      <4>2. /\ DOMAIN ordered = 1 .. Len(ordered) /\ Len(ordered) \in Nat
            /\ DOMAIN ordered' = 1 .. Len(ordered) + 1
            /\ ordered'[Len(ordered) + 1] = k
            /\ \A i \in DOMAIN ordered : ordered'[i] = ordered[i]
        BY <2>3, <4>1
      <4>3. \A i \in DOMAIN ordered : ordered[i] # k
        BY <2>3, <2>4, <3>2 DEF Listed
      <4>4. Distinct'
        BY <2>4, <4>2, <4>3 DEF Distinct
      <4>5. \A x \in Keys : Listed(x)' <=> (Listed(x) \/ x = k)
        BY <4>2 DEF Listed
      <4> QED BY <2>4, <4>4, <4>5
    <3> QED BY <3>1, <3>2
  <2>6. \A x \in Keys : Present(x)' = Present(x)
    BY <2>1 DEF Present
  <2> QED BY <1>0, <2>1, <2>2, <2>5, <2>6, MatchingAssumption DEF BothLists
<1>4. CASE AddProvision(a)
  <2> DEFINE k == Head(job[a].todo).key
  <2>1. /\ apc[a] = "add" /\ writer' = Nobody /\ UNCHANGED ordered
        /\ provisions' = [provisions EXCEPT ![k] = IF job[a].regex THEN "compiled" ELSE "plain"]
        /\ apc' = [apc EXCEPT ![a] = "load"]
    BY <1>4 DEF AddProvision
  <2>2. writer = a
    BY <2>1 DEF LockHeld
  <2>3. \A b \in Admins : apc'[b] \notin {"add", "clear"}
    BY <1>0, <2>1, <2>2 DEF LockHeld
  <2>4. /\ job[a].todo # <<>> /\ Distinct
        /\ \A x \in Keys : Listed(x) <=> (Present(x) \/ x = k)
    BY <2>1 DEF BothLists
  <2>5. \A x \in Keys : Present(x)' <=> (Present(x) \/ x = k)
    BY <2>1, AdminTyped DEF Present
  <2>6. Distinct' /\ \A x \in Keys : Listed(x)' = Listed(x)
    BY <2>1, <2>4 DEF Distinct, Listed
  <2> QED BY <2>3, <2>4, <2>5, <2>6 DEF BothLists
<1>5. CASE ClearMap(a)
  <2>1. /\ apc[a] = "clear" /\ writer' = Nobody /\ UNCHANGED ordered
        /\ provisions' = [k \in Keys |-> "absent"]
        /\ apc' = [apc EXCEPT ![a] = "idle"]
    BY <1>5 DEF ClearMap, Answer
  <2>2. writer = a
    BY <2>1 DEF LockHeld
  <2>3. \A b \in Admins : apc'[b] \notin {"add", "clear"}
    BY <1>0, <2>1, <2>2 DEF LockHeld
  <2>4. ordered' = <<>> /\ \A x \in Keys : ~Present(x)'
    BY <2>1 DEF BothLists, Present
  <2> QED BY <2>3, <2>4 DEF BothLists, Distinct, Listed
<1> QED BY <1>1, <1>2, <1>3, <1>4, <1>5 DEF AdminStep

(* The administrators leave the workers alone, and the order and the map   *)
(* as long as one of them searches.                                        *)
LEMMA AdminLeaves ==
    ASSUME TypeOK, LockHeld, NEW a \in Admins, AdminStep(a)
    PROVE  /\ UNCHANGED <<pc, req>>
           /\ \A w \in Workers : pc[w] = "search" => UNCHANGED <<provisions, ordered>>
<1>1. UNCHANGED <<pc, req>>
  BY DEF AdminStep, PostMatching, PostProvisions, ClearKeys, List, LoadFails, PushKey,
         AddProvision, LoadEnd, ClearMap, traffic
<1>2. \/ UNCHANGED <<provisions, ordered>>
      \/ readers = {}
      \/ apc[a] \in {"add", "clear"}
  BY DEF AdminStep, PostMatching, PostProvisions, ClearKeys, List, LoadFails, PushKey,
         AddProvision, LoadEnd, ClearMap, store, LockExclusive
<1> QED BY <1>1, <1>2, MatchingAssumption DEF LockHeld

(* A worker's step is its own.                                             *)
LEMMA WorkerOwn ==
    ASSUME TypeOK, NEW w \in Workers, WorkerStep(w)
    PROVE  \A v \in Workers : v # w => pc'[v] = pc[v] /\ req'[v] = req[v]
BY DEF TypeOK, WorkerStep, Receive, Find, LockShared, Search, Fallback, Go

(* A search goes on from where it was.                                     *)
LEMMA SearchGoesOn ==
    ASSUME Inv, Next
    PROVE  Searched'
<1> SUFFICES ASSUME NEW v \in Workers, pc'[v] = "search"
             PROVE  (/\ req[v].config.algorithm = "RegexMatching"
                     /\ req[v].next >= 1
                     /\ \A i \in DOMAIN ordered :
                          i < req[v].next => ~Matches(ordered[i], req[v].uri))'
  BY DEF Searched
<1>0. TypeOK /\ LockHeld /\ BothLists /\ Searched
  BY DEF Inv
<1>1. ASSUME pc[v] = "search", req'[v] = req[v], UNCHANGED <<provisions, ordered>>
      PROVE  (/\ req[v].config.algorithm = "RegexMatching"
              /\ req[v].next >= 1
              /\ \A i \in DOMAIN ordered :
                   i < req[v].next => ~Matches(ordered[i], req[v].uri))'
  BY <1>0, <1>1 DEF Searched, Matches
<1>2. ASSUME NEW a \in Admins, AdminStep(a)
      PROVE  pc[v] = "search" /\ req'[v] = req[v] /\ UNCHANGED <<provisions, ordered>>
  BY <1>0, <1>2, AdminLeaves
<1>3. ASSUME NEW w \in Workers, WorkerStep(w), v # w
      PROVE  pc[v] = "search" /\ req'[v] = req[v] /\ UNCHANGED <<provisions, ordered>>
  BY <1>0, <1>3, WorkerOwn, WorkerLists
<1>4. ASSUME WorkerStep(v)
      PROVE  (/\ req[v].config.algorithm = "RegexMatching"
              /\ req[v].next >= 1
              /\ \A i \in DOMAIN ordered :
                   i < req[v].next => ~Matches(ordered[i], req[v].uri))'
  <2>0. /\ req \in [Workers -> Locals] /\ pc \in [Workers -> {"idle", "find", "search", "fallback", "done"}]
        /\ UNCHANGED <<provisions, ordered>>
    BY <1>0, <1>4, WorkerLists DEF TypeOK, Locals
  <2>1. \/ LockShared(v)
        \/ /\ Search(v) /\ ~Matches(ordered[req[v].next], req[v].uri)
           /\ Go(v, "search", [req[v] EXCEPT !.next = @ + 1])
    BY <1>4, <2>0 DEF WorkerStep, Receive, Find, LockShared, Search, Fallback, Go
  <2>2. CASE LockShared(v)
    <3>1. /\ req'[v].next = 1
          /\ req'[v].config.algorithm = "RegexMatching"
      BY <2>0, <2>2 DEF LockShared, Go, Locals
    <3>2. DOMAIN ordered' = 1 .. Len(ordered) /\ Len(ordered) \in Nat
      BY <1>0, <2>0, OrderedIndices
    <3> QED BY <3>1, <3>2
  <2>3. CASE /\ Search(v) /\ ~Matches(ordered[req[v].next], req[v].uri)
             /\ Go(v, "search", [req[v] EXCEPT !.next = @ + 1])
    <3>1. /\ req[v].next \in Nat /\ req'[v].next = req[v].next + 1
          /\ req'[v].config = req[v].config /\ req'[v].uri = req[v].uri
      BY <2>0, <2>3 DEF Go, Locals
    <3>2. pc[v] = "search"
      BY <2>3 DEF Search
    <3>3. \A i \in DOMAIN ordered : i < req[v].next + 1 => ~Matches(ordered[i], req[v].uri)
      BY <1>0, <2>3, <3>1, <3>2, OrderedIndices DEF Searched
    <3>4. \A k \in Keys : \A u : Matches(k, u)' = Matches(k, u)
      BY <2>0 DEF Matches
    <3>5. \A i \in DOMAIN ordered' : ordered'[i] = ordered[i] /\ ordered[i] \in Keys
      BY <1>0, <2>0, OrderedIndices
    <3> QED BY <1>0, <2>0, <3>1, <3>2, <3>3, <3>4, <3>5 DEF Searched, Matches
  <2> QED BY <2>1, <2>2, <2>3
<1> QED BY <1>1, <1>2, <1>3, <1>4, NextSplit

(* What the history holds after a step.                                    *)
LEMMA Observed ==
    ASSUME Observe, NEW v \in Workers, pc'[v] # "idle"
    PROVE  /\ Now(v)' \in seen'[v].specific /\ Present(Default)' \in seen'[v].default
           /\ ~(pc[v] # "find" /\ pc'[v] = "find") =>
                seen[v].specific \subseteq seen'[v].specific /\ seen[v].default \subseteq seen'[v].default
BY DEF Observe

(* The first match is the one the search stops at.                         *)
LEMMA FirstMatch ==
    ASSUME NEW S \in SUBSET Int, NEW n \in S, \A j \in S : n <= j
    PROVE  (CHOOSE i \in S : \A j \in S : i <= j) = n
<1>1. \A i \in S : (\A j \in S : i <= j) => i = n
  OBVIOUS
<1>2. \E i \in S : \A j \in S : i <= j
  OBVIOUS
<1> QED BY <1>1, <1>2

(* What each way out of the lookup says of the moment at which it is left. *)
LEMMA LookupIsNow ==
    ASSUME TypeOK, Searched, NEW v \in Workers
    PROVE  /\ Find(v) /\ pc'[v] = "fallback" => Now(v) = None
           /\ Find(v) /\ pc'[v] = "done" => req'[v].result = Now(v) /\ Now(v) \in Keys
           /\ Search(v) /\ pc'[v] = "fallback" => Now(v) = None
           /\ Search(v) /\ pc'[v] = "done" => req'[v].result = Now(v) /\ Now(v) \in Keys
<1> DEFINE u == req[v].uri
           hits == {i \in DOMAIN ordered : Matches(ordered[i], u)}
<1>0. /\ req \in [Workers -> Locals]
      /\ pc \in [Workers -> {"idle", "find", "search", "fallback", "done"}]
  BY DEF TypeOK, Locals
<1>1. ASSUME Find(v)
      PROVE  /\ pc'[v] = "fallback" => Now(v) = None
             /\ pc'[v] = "done" => req'[v].result = Now(v) /\ Now(v) \in Keys
  <2>1. Now(v) = IF Present(u) THEN u ELSE None
    BY <1>1 DEF Find, Now
  <2>2. CASE Present(u)
    <3>1. pc'[v] = "done" /\ req'[v].result = u
      BY <1>0, <1>1, <2>2 DEF Find, Go, Locals
    <3> QED BY <2>1, <2>2, <3>1 DEF Present
  <2>3. CASE ~Present(u)
    <3>1. pc'[v] = "fallback"
      BY <1>0, <1>1, <2>3 DEF Find, Go
    <3> QED BY <2>1, <2>3, <3>1
  <2> QED BY <2>2, <2>3
<1>2. ASSUME Search(v)
      PROVE  /\ pc'[v] = "fallback" => Now(v) = None
             /\ pc'[v] = "done" => req'[v].result = Now(v) /\ Now(v) \in Keys
  <2>1. /\ req[v].config.algorithm = "RegexMatching" /\ req[v].next >= 1 /\ req[v].next \in Nat
        /\ \A i \in DOMAIN ordered : i < req[v].next => ~Matches(ordered[i], u)
    BY <1>0, <1>2 DEF Search, Searched, Locals
  <2>2. Now(v) = IF hits = {} THEN None
                 ELSE ordered[CHOOSE i \in hits : \A j \in hits : i <= j]
    BY <2>1 DEF Now
  <2>3. CASE req[v].next > Len(ordered)
    <3>1. hits = {}
      BY <2>1, <2>3, OrderedIndices
    <3>2. pc'[v] = "fallback"
      BY <1>0, <1>2, <2>1, <2>3, OrderedIndices DEF Search, Go
    <3> QED BY <2>2, <3>1, <3>2
  <2>4. CASE req[v].next <= Len(ordered) /\ Matches(ordered[req[v].next], u)
    <3>1. pc'[v] = "done" /\ req'[v].result = ordered[req[v].next]
      BY <1>0, <1>2, <2>1, <2>4, OrderedIndices DEF Search, Go, Locals
    <3>2. /\ req[v].next \in hits /\ hits \in SUBSET Int
          /\ \A j \in hits : req[v].next <= j
      BY <2>1, <2>4, OrderedIndices
    <3>3. (CHOOSE i \in hits : \A j \in hits : i <= j) = req[v].next
      <4> HIDE DEF hits
      <4> QED BY <3>2, FirstMatch
    <3>4. Now(v) = ordered[req[v].next]
      BY <2>2, <3>2, <3>3
    <3>5. ordered[req[v].next] \in Keys
      BY <3>2, OrderedIndices
    <3> QED BY <3>1, <3>4, <3>5
  <2>5. CASE req[v].next <= Len(ordered) /\ ~Matches(ordered[req[v].next], u)
    <3>1. pc'[v] = "search"
      BY <1>0, <1>2, <2>1, <2>5, OrderedIndices DEF Search, Go
    <3> QED BY <3>1
  <2> QED BY <2>1, <2>3, <2>4, <2>5, OrderedIndices
<1> QED BY <1>1, <1>2

(* The history still holds what there is, and what there was for those     *)
(* that found nothing.                                                     *)
LEMMA SeenGoesOn ==
    ASSUME Inv, Next
    PROVE  Seen'
<1>0. /\ TypeOK /\ LockHeld /\ BothLists /\ Searched /\ Seen /\ Observe
      /\ pc \in [Workers -> {"idle", "find", "search", "fallback", "done"}]
  BY NextSplit DEF Inv, TypeOK
<1> SUFFICES ASSUME NEW v \in Workers, pc'[v] = "fallback"
             PROVE  None \in seen'[v].specific
  BY <1>0, Observed DEF Seen
<1>1. seen[v].specific \subseteq seen'[v].specific
  BY <1>0, Observed
<1>2. CASE pc[v] = "fallback"
  BY <1>0, <1>1, <1>2 DEF Seen
<1>3. CASE pc[v] # "fallback"
  <2>1. WorkerStep(v)
    BY <1>0, <1>3, NextSplit, AdminLeaves, WorkerOwn
  <2>2. Find(v) \/ Search(v)
    BY <1>0, <2>1 DEF WorkerStep, Receive, LockShared, Fallback, Go
  <2>3. Now(v) = None
    BY <1>0, <2>2, LookupIsNow
  <2>4. Now(v) \in seen[v].specific
    BY <1>0, <2>2 DEF Seen, Find, Search
  <2> QED BY <1>1, <2>3, <2>4
<1> QED BY <1>2, <1>3

(* A request that is done got what was seen.                               *)
LEMMA AtomicGoesOn ==
    ASSUME Inv, Next
    PROVE  ClassificationIsAtomic'
<1> SUFFICES ASSUME NEW v \in Workers, pc'[v] = "done"
             PROVE  (LET r == req[v].result
                     IN  \/ r # None /\ r \in seen[v].specific
                         \/ r \in {Default, None} /\ None \in seen[v].specific
                            /\ (r = Default) \in seen[v].default)'
  BY DEF ClassificationIsAtomic
<1>0. /\ TypeOK /\ LockHeld /\ BothLists /\ Searched /\ Seen /\ ClassificationIsAtomic /\ Observe
      /\ pc \in [Workers -> {"idle", "find", "search", "fallback", "done"}]
      /\ req \in [Workers -> Locals]
  BY NextSplit DEF Inv, TypeOK, Locals
<1>1. seen[v].specific \subseteq seen'[v].specific /\ seen[v].default \subseteq seen'[v].default
  BY <1>0, Observed
<1>2. CASE pc[v] = "done" /\ req'[v] = req[v]
  BY <1>0, <1>1, <1>2 DEF ClassificationIsAtomic
<1>3. CASE ~(pc[v] = "done" /\ req'[v] = req[v])
  <2>1. WorkerStep(v)
    BY <1>0, <1>3, NextSplit, AdminLeaves, WorkerOwn
  <2>2. Find(v) \/ Search(v) \/ Fallback(v)
    BY <1>0, <2>1 DEF WorkerStep, Receive, LockShared, Go
  <2>3. CASE Find(v) \/ Search(v)
    <3>1. req'[v].result = Now(v) /\ Now(v) \in Keys
      BY <1>0, <2>3, LookupIsNow
    <3>2. Now(v) \in seen[v].specific
      BY <1>0, <2>3 DEF Seen, Find, Search
    <3> QED BY <1>1, <3>1, <3>2, MatchingAssumption
  <2>4. CASE Fallback(v)
    <3>1. req'[v].result = IF Present(Default) THEN Default ELSE None
      BY <1>0, <2>4 DEF Fallback, Go, Locals
    <3>2. None \in seen[v].specific /\ Present(Default) \in seen[v].default
      BY <1>0, <2>4 DEF Seen, Fallback
    <3>3. CASE Present(Default)
      <4>1. (req'[v].result = Default) = TRUE /\ Present(Default) = TRUE
        BY <3>1, <3>3 DEF Present
      <4> QED BY <1>1, <3>1, <3>2, <3>3, <4>1
    <3>4. CASE ~Present(Default)
      <4>1. (req'[v].result = Default) = FALSE /\ Present(Default) = FALSE
        BY <3>1, <3>4, MatchingAssumption DEF Present
      <4> QED BY <1>1, <3>1, <3>2, <3>4, <4>1
    <3> QED BY <3>3, <3>4
  <2> QED BY <2>2, <2>3, <2>4
<1> QED BY <1>2, <1>3

(* The invariant holds at the start.                                       *)
LEMMA InitInv == Init => Inv
<1> SUFFICES ASSUME Init PROVE Inv
  OBVIOUS
<1> USE MatchingAssumption DEF Init
<1>1. TypeOK
  <2>1. Unused \in Locals
    BY DEF Unused, Locals, Configs, Algorithms, Filters, Separators
  <2>2. Nothing \in Jobs
    <3>1. <<>> \in Seq(Items)
      OBVIOUS
    <3> QED BY <3>1 DEF Nothing, Jobs, Codes
  <2>3. <<>> \in Seq(Keys)
    OBVIOUS
  <2> QED BY <2>1, <2>2, <2>3 DEF TypeOK, Configs, Algorithms, Filters, Separators, Locals, Jobs, Codes
<1>2. LockHeld
  BY DEF LockHeld
<1>3. BothLists
  BY DEF BothLists, Distinct, Listed, Present
<1>4. Searched /\ Seen /\ ClassificationIsAtomic
  BY DEF Searched, Seen, ClassificationIsAtomic
<1> QED BY <1>1, <1>2, <1>3, <1>4 DEF Inv

(* A step that changes nothing keeps it.                                   *)
LEMMA StutterInv ==
    ASSUME Inv, UNCHANGED vars
    PROVE  Inv'
<1> USE DEF Inv, vars, store, lock, traffic, admin
<1>1. TypeOK'
  BY DEF TypeOK
<1>2. LockHeld' /\ BothLists'
  BY DEF LockHeld, BothLists, Distinct, Listed, Present
<1>3. Searched'
  BY DEF Searched, Matches
<1>4. \A w \in Workers : Now(w)' = Now(w) /\ Present(Default)' = Present(Default)
  BY DEF Now, Present, Matches
<1>5. Seen'
  BY <1>4 DEF Seen
<1>6. ClassificationIsAtomic'
  BY DEF ClassificationIsAtomic
<1> QED BY <1>1, <1>2, <1>3, <1>5, <1>6

(* The conjunction is inductive.                                           *)
LEMMA Invariance == Spec => []Inv
<1>1. ASSUME Inv, Next
      PROVE  Inv'
  <2>1. TypeOK' /\ LockHeld' /\ BothLists'
    BY <1>1, NextSplit, WorkerTypes, AdminTypes, WorkerLock, AdminLock, WorkerLists, AdminLists
       DEF Inv
  <2> QED BY <1>1, <2>1, SearchGoesOn, SeenGoesOn, AtomicGoesOn DEF Inv
<1> QED BY <1>1, InitInv, StutterInv, PTL DEF Spec

-----------------------------------------------------------------------------
(* Whenever the lock is free, the order of the keys and the map are the    *)
(* same set of provisions, whatever documents were loaded and cleared.     *)
THEOREM OrderIsConsistent == Spec => []OrderConsistent
<1>1. Inv => OrderConsistent
  BY DEF Inv, BothLists, Distinct, Listed, OrderConsistent
<1> QED BY <1>1, Invariance, PTL

(* findRegexMatching never meets a key without a provision: a searching    *)
(* worker shares the lock, so no writer is between the order and the map.  *)
THEOREM SearchIsNeverNull == Spec => []SearchNeverNull
<1>1. Inv => SearchNeverNull
  <2> SUFFICES ASSUME Inv, NEW w \in Workers, pc[w] = "search",
                      NEW i \in req[w].next .. Len(ordered)
               PROVE  Present(ordered[i])
    BY DEF SearchNeverNull
  <2>1. writer = Nobody
    BY DEF Inv, LockHeld
  <2>2. req[w].next \in Nat /\ req[w].next >= 1
    BY DEF Inv, TypeOK, Searched
  <2>3. i \in DOMAIN ordered /\ ordered[i] \in Keys
    BY <2>2, OrderedIndices DEF Inv
  <2> QED BY <2>1, <2>3 DEF Inv, BothLists, Listed
<1> QED BY <1>1, Invariance, PTL

(* The provision a request gets is the answer of a lookup at one moment,   *)
(* although the search takes many steps and the fallback is a lookup of    *)
(* its own.                                                                *)
THEOREM ClassifiedAtOnce == Spec => []ClassificationIsAtomic
<1>1. Inv => ClassificationIsAtomic
  BY DEF Inv
<1> QED BY <1>1, Invariance, PTL
=============================================================================
