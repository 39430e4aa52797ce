------------------------- MODULE VaultStreamProofs -------------------------
(***************************************************************************)
(* That a stream tells of the writes it watches, of each once and never    *)
(* with an older value, for every set of writers, streams, keys, queries   *)
(* and documents.                                                          *)
(***************************************************************************)
EXTENDS VaultStream, SequenceTheorems, TLAPS

(* A notification is the only one with the lock, and goes to streams that  *)
(* are registered and watch the key.                                       *)
Notifying ==
    \A w \in Writers :
      /\ pc[w] \in {"append", "post"} <=> mutex = w
      /\ pc[w] \in {"append", "post"} =>
           \A c \in loc[w].todo : stream[c] = "open" /\ Wants(c, loc[w].key)
      /\ pc[w] = "post" => loc[w].todo # {}

(* A write has a number of its own, and the map holds nothing older.       *)
Numbered ==
    /\ \A w \in Writers : pc[w] # "idle" =>
         LET l == loc[w]
         IN  /\ l.key \in Keys /\ 1 <= l.write /\ l.write <= writes
             /\ l.value = Absent \/ l.value >= l.write
             /\ vault[l.key] = Absent \/ vault[l.key] >= l.write
    /\ \A v, w \in Writers :
         v # w /\ pc[v] # "idle" /\ pc[w] # "idle" => loc[v].write # loc[w].write

(* The streams a write has still to be told to.                            *)
Pending(w) ==
    IF pc[w] \in {"reread", "check", "lock"} THEN Connections
    ELSE IF pc[w] = "append" THEN loc[w].todo
    ELSE IF pc[w] = "post" THEN loc[w].todo \ {First(w)}
    ELSE {}

(* They have not been told of it; nobody was told of what is to come, and  *)
(* a stream that is not open yet of nothing.                               *)
NotTold ==
    \A c \in Connections :
      /\ \A i \in DOMAIN Events(c) : Events(c)[i].write <= writes
      /\ \A w \in Writers : c \in Pending(w) =>
           \A i \in DOMAIN Events(c) : Events(c)[i].write # loc[w].write
      /\ stream[c] = "new" => Events(c) = <<>>

Inv == TypeOK /\ Notifying /\ Numbered /\ NotTold /\ StreamFaithful

-----------------------------------------------------------------------------
Stages == {"idle", "reread", "check", "lock", "append", "post"}
Locals == [key: Keys \cup {"none"}, write: Nat, value: Nat, kind: Kinds,
           todo: SUBSET Connections, items: Seq(Keys)]

(* A writer has added an item to the map, or has finished.                 *)
Added(w) == \E k \in Keys, kind \in Kinds, items \in Seq(Keys) : Add(w, k, kind, items)
Done(w) == Go(w, "idle", Unused) /\ UNCHANGED <<vault, writes, due>>

(* The part of the types that the writers' steps need.                     *)
LEMMA Typed ==
    ASSUME TypeOK
    PROVE  /\ vault \in [Keys -> Nat] /\ writes \in Nat
           /\ pc \in [Writers -> Stages] /\ loc \in [Writers -> Locals]
BY DEF TypeOK, Stages, Locals

(* The two updates of a writer's locals.                                   *)
LEMMA UpdatedLocals ==
    ASSUME NEW r \in Locals, NEW n \in Nat, NEW S \in SUBSET Connections
    PROVE  [r EXCEPT !.value = n] \in Locals /\ [r EXCEPT !.todo = S] \in Locals
BY DEF Locals

(* Going on to another stage keeps the types.                              *)
LEMMA GoTypes ==
    ASSUME TypeOK, NEW w \in Writers, NEW stage \in Stages, NEW r \in Locals, Go(w, stage, r)
    PROVE  pc' \in [Writers -> Stages] /\ loc' \in [Writers -> Locals]
BY Typed DEF Go

(* A document goes on with an item, or is over.                            *)
LEMMA ProceedSplit ==
    ASSUME TypeOK, NEW w \in Writers, Proceed(w)
    PROVE  Added(w) \/ Done(w)
<1>1. loc[w].items \in Seq(Keys)
  BY Typed DEF Locals
<1>2. CASE loc[w].items = <<>>
  BY <1>2 DEF Proceed, Done
<1>3. CASE loc[w].items # <<>>
  <2>1. Head(loc[w].items) \in Keys /\ Tail(loc[w].items) \in Seq(Keys) /\ "document" \in Kinds
    BY <1>1, <1>3 DEF Kinds
  <2> QED BY <1>3, <2>1 DEF Proceed, Added
<1> QED BY <1>2, <1>3

(* Every way to start a load adds an item.                                 *)
LEMMA LoadSplit ==
    ASSUME NEW w \in Writers, Load(w)
    PROVE  Added(w)
<1>1. CASE \E k \in Keys, kind \in {"copy", "move"} : Add(w, k, kind, <<>>)
  BY <1>1, EmptySeq DEF Added, Kinds
<1>2. CASE Add(w, Head(Document), "document", Tail(Document))
  <2>1. Head(Document) \in Keys /\ Tail(Document) \in Seq(Keys) /\ "document" \in Kinds
    BY StreamAssumption DEF Kinds
  <2> QED BY <1>2, <2>1 DEF Added
<1> QED BY <1>1, <1>2 DEF Load

(* A store of an item, or the end of a load, keeps the types.              *)
LEMMA MapTypes ==
    ASSUME TypeOK, NEW w \in Writers, Added(w) \/ Done(w)
    PROVE  /\ vault' \in [Keys -> Nat] /\ writes' \in Nat
           /\ pc' \in [Writers -> Stages] /\ loc' \in [Writers -> Locals]
<1>1. CASE Done(w)
  <2>1. Unused \in Locals
    <3>1. <<>> \in Seq(Keys)
      OBVIOUS
    <3> QED BY <3>1 DEF Unused, Locals, Kinds
  <2>2. "idle" \in Stages
    BY DEF Stages
  <2> QED BY <1>1, <2>1, <2>2, GoTypes, Typed DEF Done
<1>2. CASE Added(w)
  <2>1. PICK k \in Keys, kind \in Kinds, items \in Seq(Keys) : Add(w, k, kind, items)
    BY <1>2 DEF Added
  <2>2. [key |-> k, write |-> writes + 1, value |-> writes + 1, kind |-> kind, todo |-> {},
         items |-> items] \in Locals
    BY Typed DEF Locals
  <2>3. pc' \in [Writers -> Stages] /\ loc' \in [Writers -> Locals]
    BY <2>1, <2>2, GoTypes DEF Add, Stages
  <2> QED BY <2>1, <2>3, Typed DEF Add
<1> QED BY <1>1, <1>2

(* What the writers' steps assign, and what they leave.                    *)
LEMMA WriterTypes ==
    ASSUME TypeOK, Numbered, NEW w \in Writers, Load(w) \/ load(w)
    PROVE  /\ vault' \in [Keys -> Nat] /\ writes' \in Nat
           /\ pc' \in [Writers -> Stages] /\ loc' \in [Writers -> Locals]
           /\ mutex' \in Writers \cup {Nobody} /\ ops' \in 0..MaxOps
           /\ UNCHANGED <<registered, loop>>
<1>0. mutex \in Writers \cup {Nobody} /\ ops \in 0..MaxOps /\ loc[w] \in Locals
      /\ registered \subseteq Connections
  BY Typed DEF TypeOK
<1>1. CASE Load(w)
  <2>1. ops' \in 0..MaxOps
    BY <1>0, <1>1, StreamAssumption DEF Load
  <2> QED BY <1>0, <1>1, <2>1, LoadSplit, MapTypes DEF Load
<1>2. CASE Reread(w)
  <2>1. loc[w].key \in Keys
    BY <1>2 DEF Reread, Numbered
  <2>2. [loc[w] EXCEPT !.value = vault[loc[w].key]] \in Locals
    BY <1>0, <2>1, UpdatedLocals, Typed
  <2> QED BY <1>0, <1>2, <2>2, GoTypes, Typed DEF Reread, Stages
<1>3. CASE Check(w)
  BY <1>0, <1>3, ProceedSplit, MapTypes, GoTypes, Typed DEF Check, Stages
<1>4. CASE Lock(w)
  <2>1. [loc[w] EXCEPT !.todo = {c \in registered : Wants(c, loc[w].key)}] \in Locals
    BY <1>0, UpdatedLocals
  <2> QED BY <1>0, <1>4, <2>1, GoTypes, Typed DEF Lock, Stages
<1>5. CASE AppendEvent(w)
  BY <1>0, <1>5, GoTypes, Typed DEF AppendEvent, Stages
<1>6. CASE PostResume(w)
  <2>1. [loc[w] EXCEPT !.todo = loc[w].todo \ {First(w)}] \in Locals
    BY <1>0, UpdatedLocals DEF Locals
  <2> QED BY <1>0, <1>6, <2>1, GoTypes, Typed DEF PostResume, Stages
<1>7. CASE Unlock(w)
  BY <1>0, <1>7, ProceedSplit, MapTypes DEF Unlock
<1> QED BY <1>1, <1>2, <1>3, <1>4, <1>5, <1>6, <1>7 DEF load

-----------------------------------------------------------------------------
(* The event of a write is for its streams' buffers.                       *)
LEMMA EventType ==
    ASSUME TypeOK, Numbered, NEW w \in Writers, pc[w] # "idle"
    PROVE  ThisEvent(w) \in Event
<1>1. loc[w] \in Locals /\ loc[w].key \in Keys
  BY Typed DEF Numbered
<1> QED BY <1>1 DEF ThisEvent, Event, Locals

(* What a connection has been given is a sequence of events.               *)
LEMMA EventsType ==
    ASSUME TypeOK, NEW c \in Connections
    PROVE  /\ sent[c] \in Seq(Event) /\ buffer[c] \in Seq(Event) /\ Events(c) \in Seq(Event)
           /\ DOMAIN Events(c) = 1 .. Len(Events(c)) /\ Len(Events(c)) \in Nat
<1>1. sent[c] \in Seq(Event) /\ buffer[c] \in Seq(Event)
  BY DEF TypeOK
<1>2. Events(c) \in Seq(Event)
  BY <1>1 DEF Events
<1> QED BY <1>1, <1>2

(* A sequence cut in two, put together again behind another.               *)
LEMMA ConcatSplit ==
    ASSUME NEW S, NEW s \in Seq(S), NEW b \in Seq(S), NEW n \in 1..Len(b)
    PROVE  (s \o SubSeq(b, 1, n)) \o SubSeq(b, n + 1, Len(b)) = s \o b
<1>1. PICK x \in Seq(S) : x = SubSeq(b, 1, n)
  <2>1. SubSeq(b, 1, n) \in Seq(S)
    OBVIOUS
  <2> QED BY <2>1
<1>2. PICK y \in Seq(S) : y = SubSeq(b, n + 1, Len(b))
  <2>1. SubSeq(b, n + 1, Len(b)) \in Seq(S)
    OBVIOUS
  <2> QED BY <2>1
<1>3. (s \o x) \o y = s \o (x \o y)
  OBVIOUS
<1>4. x \o y = b
  <2>0. n \in Nat /\ Len(b) \in Nat /\ n <= Len(b) /\ 1 <= n
    OBVIOUS
  <2> QED BY <2>0, <1>1, <1>2, ConcatAdjacentSubSeq, SubSeqFull
<1> QED BY <1>1, <1>2, <1>3, <1>4

(* What the generator takes from the buffer is what the client receives.   *)
LEMMA GenerateMoves ==
    ASSUME TypeOK, NEW c \in Connections, Generate(c)
    PROVE  /\ buffer' \in [Connections -> Seq(Event)] /\ sent' \in [Connections -> Seq(Event)]
           /\ \A d \in Connections : Events(d)' = Events(d)
<1>0. /\ buffer \in [Connections -> Seq(Event)] /\ sent \in [Connections -> Seq(Event)]
  BY DEF TypeOK
<1>1. CASE buffer[c] = <<>>
  BY <1>0, <1>1 DEF Generate, Events
<1>2. CASE buffer[c] # <<>>
  <2> DEFINE b == buffer[c]
  <2>1. PICK n \in 1..Len(b) :
          /\ sent' = [sent EXCEPT ![c] = @ \o SubSeq(b, 1, n)]
          /\ buffer' = [buffer EXCEPT ![c] = SubSeq(b, n + 1, Len(b))]
    BY <1>2 DEF Generate
  <2>2. b \in Seq(Event) /\ Len(b) \in Nat /\ n \in Nat
    BY <1>0
  <2>3. SubSeq(b, 1, n) \in Seq(Event) /\ SubSeq(b, n + 1, Len(b)) \in Seq(Event)
    BY <2>2
  <2>5. (sent[c] \o SubSeq(b, 1, n)) \o SubSeq(b, n + 1, Len(b)) = sent[c] \o b
    <3>1. sent[c] \in Seq(Event)
      BY <1>0
    <3> HIDE DEF b
    <3> QED BY <2>2, <3>1, ConcatSplit
  <2>6. sent'[c] = sent[c] \o SubSeq(b, 1, n) /\ buffer'[c] = SubSeq(b, n + 1, Len(b))
    BY <1>0, <2>1
  <2>7. sent[c] \o SubSeq(b, 1, n) \in Seq(Event)
    BY <1>0, <2>3
  <2>8. /\ buffer' \in [Connections -> Seq(Event)] /\ sent' \in [Connections -> Seq(Event)]
    BY <1>0, <2>1, <2>3, <2>7
  <2>9. ASSUME NEW d \in Connections
        PROVE  Events(d)' = Events(d)
    <3>1. CASE d = c
      BY <2>5, <2>6, <3>1 DEF Events
    <3>2. CASE d # c
      BY <1>0, <2>1, <3>2 DEF Events
    <3> QED BY <3>1, <3>2
  <2> QED BY <2>8, <2>9
<1> QED BY <1>1, <1>2

(* The callback adds the event of its write to one stream.                 *)
LEMMA AppendAdds ==
    ASSUME TypeOK, Numbered, NEW w \in Writers, AppendEvent(w)
    PROVE  /\ First(w) \in loc[w].todo /\ First(w) \in Connections
           /\ buffer' \in [Connections -> Seq(Event)] /\ sent' = sent
           /\ \A c \in Connections :
                Events(c)' = IF c = First(w) THEN Append(Events(c), ThisEvent(w)) ELSE Events(c)
<1>0. /\ buffer \in [Connections -> Seq(Event)] /\ sent \in [Connections -> Seq(Event)]
      /\ sent' = sent
  BY DEF TypeOK, AppendEvent, loop
<1>1. First(w) \in loc[w].todo /\ First(w) \in Connections
  BY Typed DEF AppendEvent, First, Locals
<1>2. ThisEvent(w) \in Event
  BY EventType DEF AppendEvent
<1> DEFINE e == ThisEvent(w)
           f == First(w)
<1>3. buffer' = [buffer EXCEPT ![f] = Append(buffer[f], e)]
  BY DEF AppendEvent, Callback
<1> HIDE DEF e, f
<1>4. buffer' \in [Connections -> Seq(Event)]
  BY <1>0, <1>1, <1>2, <1>3 DEF e, f
<1>5. ASSUME NEW c \in Connections
      PROVE  Events(c)' = IF c = f THEN Append(Events(c), e) ELSE Events(c)
  <2>1. CASE c = f
    <3>1. buffer'[c] = Append(buffer[c], e) /\ sent'[c] = sent[c]
      BY <1>0, <1>3, <2>1
    <3>2. e \in Event /\ <<e>> \in Seq(Event)
      BY <1>2 DEF e
    <3>3. Append(buffer[c], e) = buffer[c] \o <<e>>
      BY <1>0, <3>2, AppendIsConcat
    <3>4. sent[c] \o (buffer[c] \o <<e>>) = (sent[c] \o buffer[c]) \o <<e>>
      BY <1>0, <3>2, ConcatAssociative
    <3>5. (sent[c] \o buffer[c]) \o <<e>> = Append(sent[c] \o buffer[c], e)
      BY <1>0, <3>2, AppendIsConcat, ConcatProperties
    <3> QED BY <2>1, <3>1, <3>3, <3>4, <3>5 DEF Events
  <2>2. CASE c # f
    BY <1>0, <1>3, <2>2 DEF Events
  <2> QED BY <2>1, <2>2
<1> QED BY <1>0, <1>1, <1>4, <1>5 DEF e, f

(* The other steps leave the events of the streams alone.                  *)
LEMMA EventsStay ==
    ASSUME UNCHANGED <<sent, buffer>>, NEW c \in Connections
    PROVE  Events(c)' = Events(c)
BY DEF Events

(* A writer gives events to a connection in AppendEvent only.              *)
LEMMA WriterEvents ==
    ASSUME TypeOK, NEW w \in Writers, Load(w) \/ load(w), ~AppendEvent(w)
    PROVE  UNCHANGED <<sent, buffer>>
BY DEF load, Load, Reread, Check, Lock, PostResume, Callback, Unlock, loop

(* Every step keeps the types.                                             *)
LEMMA TypesStep ==
    ASSUME Inv, Next
    PROVE  TypeOK'
<1>0. TypeOK /\ Numbered
  BY DEF Inv
<1>1. ASSUME NEW w \in Writers, Load(w) \/ load(w)
      PROVE  TypeOK'
  <2>1. /\ UNCHANGED <<registered, stream, keys, deferred, sent>>
        /\ buffer' \in [Connections -> Seq(Event)]
    <3>1. CASE AppendEvent(w)
      BY <1>0, <1>1, <3>1, AppendAdds, WriterTypes DEF loop
    <3>2. CASE ~AppendEvent(w)
      BY <1>0, <1>1, <3>2, WriterEvents, WriterTypes DEF loop, TypeOK
    <3> QED BY <3>1, <3>2
  <2>2. posted' \in [Connections -> Nat]
    <3>1. posted \in [Connections -> Nat]
      BY <1>0 DEF TypeOK
    <3>2. UNCHANGED posted \/ posted' = [posted EXCEPT ![First(w)] = @ + 1]
      BY <1>1 DEF load, Load, Reread, Check, Lock, AppendEvent, PostResume, Callback, Unlock
    <3> QED BY <3>1, <3>2
  <2> QED BY <1>0, <1>1, <2>1, <2>2, WriterTypes DEF TypeOK, Stages, Locals
<1>2. ASSUME NEW c \in Connections, Connect(c)
      PROVE  TypeOK'
  <2>1. PICK q \in Queries : keys' = [keys EXCEPT ![c] = q]
    BY <1>2 DEF Connect
  <2>2. q \in SUBSET Keys
    BY StreamAssumption
  <2>3. keys' \in [Connections -> SUBSET Keys]
    BY <1>0, <2>1, <2>2 DEF TypeOK
  <2>4. /\ stream' \in [Connections -> {"new", "open", "closed"}]
        /\ registered' = {d \in Connections : stream'[d] = "open"}
    BY <1>0, <1>2 DEF Connect, TypeOK
  <2> QED BY <1>0, <1>2, <2>3, <2>4 DEF Connect, TypeOK
<1>3. ASSUME NEW c \in Connections, Generate(c)
      PROVE  TypeOK'
  <2>1. deferred' \in [Connections -> BOOLEAN]
    BY <1>0, <1>3 DEF Generate, TypeOK
  <2> QED BY <1>0, <1>3, <2>1, GenerateMoves DEF Generate, TypeOK
<1>4. ASSUME NEW c \in Connections, Resume(c)
      PROVE  TypeOK'
  <2>1. posted' \in [Connections -> Nat] /\ deferred' \in [Connections -> BOOLEAN]
    BY <1>0, <1>4 DEF Resume, TypeOK
  <2> QED BY <1>0, <1>4, <2>1 DEF Resume, TypeOK
<1>5. ASSUME NEW c \in Connections, Close(c)
      PROVE  TypeOK'
  <2>1. /\ stream' \in [Connections -> {"new", "open", "closed"}]
        /\ registered' = {d \in Connections : stream'[d] = "open"}
    BY <1>0, <1>5 DEF Close, TypeOK
  <2> QED BY <1>0, <1>5, <2>1 DEF Close, TypeOK
<1>6. CASE Remove
  <2>1. vault' \in [Keys -> Nat] /\ ops' \in 0..MaxOps
    BY <1>0, <1>6, StreamAssumption DEF Remove, TypeOK, Absent
  <2> QED BY <1>0, <1>6, <2>1 DEF Remove, TypeOK, loop
<1> QED BY <1>1, <1>2, <1>3, <1>4, <1>5, <1>6 DEF Next

(* A step of the connections or a deletion is not one of the writers.      *)
LoopStep == (\E c \in Connections : Connect(c) \/ Generate(c) \/ Resume(c) \/ Close(c)) \/ Remove

(* The loop's steps leave the writers and the mutex alone.                 *)
LEMMA LoopLeaves ==
    ASSUME LoopStep
    PROVE  UNCHANGED <<pc, loc, mutex, writes>>
BY DEF LoopStep, Connect, Generate, Resume, Close, Remove

(* A writer's step is its own.                                             *)
LEMMA WriterOwn ==
    ASSUME TypeOK, NEW w \in Writers, Load(w) \/ load(w)
    PROVE  \A v \in Writers : v # w => pc'[v] = pc[v] /\ loc'[v] = loc[v]
BY Typed DEF load, Load, Reread, Check, Lock, AppendEvent, PostResume, Unlock, Proceed, Add, Go

(* Every step keeps Notifying.                                             *)
LEMMA NotifyingStep ==
    ASSUME Inv, Next
    PROVE  Notifying'
<1>0. TypeOK /\ Notifying /\ Numbered /\ pc \in [Writers -> Stages] /\ loc \in [Writers -> Locals]
  BY Typed DEF Inv
<1>1. ASSUME NEW w \in Writers, Load(w) \/ load(w)
      PROVE  Notifying'
  <2>0. /\ UNCHANGED <<stream, keys>> /\ \A v \in Writers : v # w => pc'[v] = pc[v] /\ loc'[v] = loc[v]
        /\ \A c, k : Wants(c, k)' = Wants(c, k)
    BY <1>0, <1>1, WriterTypes, WriterOwn DEF loop, Wants
  <2>1. CASE mutex' = mutex /\ pc[w] \notin {"append", "post"} /\ pc'[w] \notin {"append", "post"}
    BY <1>0, <2>0, <2>1 DEF Notifying
  <2>2. CASE Lock(w)
    <3>1. /\ mutex = Nobody /\ mutex' = w /\ pc'[w] = "append" /\ loc'[w].key = loc[w].key
          /\ loc'[w].todo = {c \in registered : Wants(c, loc[w].key)}
      BY <1>0, <2>2 DEF Lock, Go, Locals
    <3>2. registered = {c \in Connections : stream[c] = "open"}
      BY <1>0 DEF TypeOK
    <3> QED BY <1>0, <2>0, <3>1, <3>2, StreamAssumption DEF Notifying
  <2>3. CASE AppendEvent(w)
    <3>1. mutex' = mutex /\ pc[w] = "append" /\ pc'[w] = "post" /\ loc'[w] = loc[w] /\ loc[w].todo # {}
      BY <1>0, <2>3 DEF AppendEvent, Go
    <3> QED BY <1>0, <2>0, <3>1 DEF Notifying
  <2>4. CASE PostResume(w)
    <3>1. /\ mutex' = mutex /\ pc[w] = "post" /\ pc'[w] = "append" /\ loc'[w].key = loc[w].key
          /\ loc'[w].todo = loc[w].todo \ {First(w)}
      BY <1>0, <2>4 DEF PostResume, Go, Locals
    <3> QED BY <1>0, <2>0, <3>1 DEF Notifying
  <2>5. CASE Unlock(w)
    <3>1. pc[w] = "append" /\ mutex' = Nobody /\ pc'[w] \notin {"append", "post"}
      BY <1>0, <2>5 DEF Unlock, Proceed, Add, Go
    <3> QED BY <1>0, <2>0, <3>1, StreamAssumption DEF Notifying
  <2>6. ASSUME Load(w) \/ Reread(w) \/ Check(w)
        PROVE  mutex' = mutex /\ pc[w] \notin {"append", "post"} /\ pc'[w] \notin {"append", "post"}
    BY <1>0, <2>6 DEF Load, Reread, Check, Proceed, Add, Go
  <2> QED BY <1>1, <2>1, <2>2, <2>3, <2>4, <2>5, <2>6 DEF load
<1>2. CASE LoopStep
  <2>1. UNCHANGED <<pc, loc, mutex>>
    BY <1>2, LoopLeaves
  <2>2. \/ UNCHANGED <<stream, keys>>
        \/ mutex = Nobody
    BY <1>2 DEF LoopStep, Connect, Generate, Resume, Close, Remove, loop
  <2>3. CASE mutex = Nobody
    BY <1>0, <2>1, <2>3, StreamAssumption DEF Notifying
  <2>4. CASE UNCHANGED <<stream, keys>>
    BY <1>0, <2>1, <2>4 DEF Notifying, Wants
  <2> QED BY <2>2, <2>3, <2>4
<1> QED BY <1>1, <1>2 DEF Next, LoopStep

(* Every step keeps Numbered.                                              *)
LEMMA NumberedStep ==
    ASSUME Inv, Next
    PROVE  Numbered'
<1>0. /\ TypeOK /\ Numbered /\ pc \in [Writers -> Stages] /\ loc \in [Writers -> Locals]
      /\ vault \in [Keys -> Nat] /\ writes \in Nat
  BY Typed DEF Inv
<1>1. ASSUME NEW w \in Writers, Added(w), \A v \in Writers : v # w => pc'[v] = pc[v] /\ loc'[v] = loc[v]
      PROVE  Numbered'
  <2>1. PICK k \in Keys, kind \in Kinds, items \in Seq(Keys) : Add(w, k, kind, items)
    BY <1>1 DEF Added
  <2>2. /\ writes' = writes + 1 /\ vault' = [vault EXCEPT ![k] = writes + 1]
        /\ loc'[w].key = k /\ loc'[w].write = writes + 1 /\ loc'[w].value = writes + 1
    BY <1>0, <2>1 DEF Add, Go
  <2>3. ASSUME NEW v \in Writers, v # w, pc[v] # "idle"
        PROVE  /\ loc[v].key \in Keys /\ 1 <= loc[v].write /\ loc[v].write <= writes + 1
               /\ loc[v].write # writes + 1 /\ loc[v].write \in Nat
               /\ loc[v].value = Absent \/ loc[v].value >= loc[v].write
               /\ vault'[loc[v].key] = Absent \/ vault'[loc[v].key] >= loc[v].write
    <3>1. /\ loc[v].write \in Nat /\ loc[v].key \in Keys /\ 1 <= loc[v].write /\ loc[v].write <= writes
          /\ loc[v].value = Absent \/ loc[v].value >= loc[v].write
          /\ vault[loc[v].key] = Absent \/ vault[loc[v].key] >= loc[v].write
      BY <1>0, <2>3 DEF Numbered, Locals
    <3> QED BY <1>0, <2>2, <3>1
  <2>4. vault'[k] = writes + 1
    BY <1>0, <2>2
  <2>5. ASSUME NEW v \in Writers, pc'[v] # "idle"
        PROVE  /\ loc'[v].key \in Keys /\ 1 <= loc'[v].write /\ loc'[v].write <= writes'
               /\ loc'[v].value = Absent \/ loc'[v].value >= loc'[v].write
               /\ vault'[loc'[v].key] = Absent \/ vault'[loc'[v].key] >= loc'[v].write
    <3>1. CASE v = w
      BY <1>0, <2>2, <2>4, <3>1
    <3>2. CASE v # w
      <4>1. pc[v] # "idle" /\ loc'[v] = loc[v]
        BY <1>1, <2>5, <3>2
      <4> QED BY <2>2, <2>3, <3>2, <4>1
    <3> QED BY <3>1, <3>2
  <2>6. ASSUME NEW u \in Writers, NEW v \in Writers, u # v, pc'[u] # "idle", pc'[v] # "idle"
        PROVE  loc'[u].write # loc'[v].write
    <3>1. CASE u = w
      BY <1>1, <2>2, <2>3, <2>6, <3>1
    <3>2. CASE v = w
      BY <1>1, <2>2, <2>3, <2>6, <3>2
    <3>3. CASE u # w /\ v # w
      BY <1>0, <1>1, <2>6, <3>3 DEF Numbered
    <3> QED BY <3>1, <3>2, <3>3
  <2> QED BY <2>5, <2>6 DEF Numbered
<1>2. ASSUME NEW w \in Writers, Done(w), \A v \in Writers : v # w => pc'[v] = pc[v] /\ loc'[v] = loc[v]
      PROVE  Numbered'
  <2>1. pc'[w] = "idle" /\ UNCHANGED <<vault, writes>>
    BY <1>0, <1>2 DEF Done, Go
  <2> QED BY <1>0, <1>2, <2>1 DEF Numbered
<1>3. ASSUME UNCHANGED <<vault, writes>>, \A v \in Writers : pc'[v] # "idle" => pc[v] # "idle",
             \A v \in Writers : loc'[v].key = loc[v].key /\ loc'[v].write = loc[v].write
                                /\ loc'[v].value = loc[v].value
      PROVE  Numbered'
  BY <1>0, <1>3 DEF Numbered
<1>4. ASSUME NEW w \in Writers, Load(w) \/ load(w)
      PROVE  Numbered'
  <2>0. \A v \in Writers : v # w => pc'[v] = pc[v] /\ loc'[v] = loc[v]
    BY <1>0, <1>4, WriterOwn
  <2>1. CASE Load(w)
    BY <2>0, <2>1, <1>1, LoadSplit
  <2>2. CASE Reread(w)
    <3>1. /\ pc[w] = "reread" /\ loc'[w].key = loc[w].key /\ loc'[w].write = loc[w].write
          /\ loc'[w].value = vault[loc[w].key] /\ UNCHANGED <<vault, writes>>
      BY <1>0, <2>2 DEF Reread, Go, Locals
    <3>2. ASSUME NEW v \in Writers, pc'[v] # "idle"
          PROVE  /\ loc'[v].key \in Keys /\ 1 <= loc'[v].write /\ loc'[v].write <= writes
                 /\ loc'[v].value = Absent \/ loc'[v].value >= loc'[v].write
                 /\ vault[loc'[v].key] = Absent \/ vault[loc'[v].key] >= loc'[v].write
                 /\ pc[v] # "idle" /\ loc'[v].write = loc[v].write
      <4>1. CASE v = w
        BY <1>0, <3>1, <4>1 DEF Numbered
      <4>2. CASE v # w
        BY <1>0, <2>0, <3>2, <4>2 DEF Numbered
      <4> QED BY <4>1, <4>2
    <3> QED BY <1>0, <3>1, <3>2 DEF Numbered
  <2>3. CASE Check(w) /\ Proceed(w)
    BY <1>0, <1>1, <1>2, <2>0, <2>3, ProceedSplit
  <2>4. CASE Unlock(w)
    BY <1>0, <1>1, <1>2, <2>0, <2>4, ProceedSplit DEF Unlock
  <2>5. CASE (Check(w) /\ ~Proceed(w)) \/ Lock(w) \/ AppendEvent(w) \/ PostResume(w)
    <3>1. /\ UNCHANGED <<vault, writes>> /\ pc[w] # "idle"
          /\ loc'[w].key = loc[w].key /\ loc'[w].write = loc[w].write
          /\ loc'[w].value = loc[w].value
      BY <1>0, <2>5 DEF Check, Lock, AppendEvent, PostResume, Go, Locals
    <3> QED BY <1>3, <2>0, <3>1
  <2> QED BY <1>4, <2>1, <2>2, <2>3, <2>4, <2>5 DEF load
<1>5. CASE LoopStep /\ ~Remove
  <2>1. UNCHANGED <<vault, writes, pc, loc>>
    BY <1>5, LoopLeaves DEF LoopStep, Connect, Generate, Resume, Close
  <2> QED BY <1>3, <2>1
<1>6. CASE Remove
  <2>1. UNCHANGED <<writes, pc, loc>> /\ \E k \in Keys : vault' = [vault EXCEPT ![k] = Absent]
    BY <1>6 DEF Remove
  <2> QED BY <1>0, <2>1 DEF Numbered
<1> QED BY <1>4, <1>5, <1>6 DEF Next, LoopStep

(* What is still to be told depends on the writer alone, and becomes more  *)
(* only for a write that is new.                                           *)
LEMMA PendingStays ==
    ASSUME NEW w \in Writers, pc'[w] = pc[w], loc'[w] = loc[w]
    PROVE  Pending(w)' = Pending(w)
BY DEF Pending, First

(* Those a writer is still to tell become fewer, until its next write.     *)
LEMMA PendingShrinks ==
    ASSUME TypeOK, NEW w \in Writers, Load(w) \/ load(w)
    PROVE  \/ writes' = writes + 1 /\ loc'[w].write = writes + 1
           \/ Pending(w)' = {} /\ writes' = writes
           \/ /\ Pending(w)' \subseteq Pending(w) /\ writes' = writes
              /\ loc'[w].write = loc[w].write
<1>0. /\ pc \in [Writers -> Stages] /\ loc \in [Writers -> Locals] /\ loc[w] \in Locals
      /\ loc[w].todo \subseteq Connections /\ registered \subseteq Connections
  BY Typed DEF TypeOK, Locals
<1>1. CASE Added(w)
  BY <1>0, <1>1 DEF Added, Add, Go
<1>2. CASE Done(w)
  BY <1>0, <1>2 DEF Done, Go, Pending
<1>3. CASE Reread(w)
  <2>1. /\ pc[w] = "reread" /\ pc'[w] = "check" /\ writes' = writes
        /\ loc'[w].write = loc[w].write
    BY <1>0, <1>3 DEF Reread, Go, Locals
  <2> QED BY <2>1 DEF Pending
<1>4. CASE Check(w) /\ ~Proceed(w)
  <2>1. /\ pc[w] = "check" /\ pc'[w] = "lock" /\ writes' = writes
        /\ loc'[w].write = loc[w].write
    BY <1>0, <1>4 DEF Check, Go, Locals
  <2> QED BY <2>1 DEF Pending
<1>5. CASE Lock(w)
  <2>1. /\ pc[w] = "lock" /\ pc'[w] = "append" /\ writes' = writes
        /\ loc'[w].write = loc[w].write /\ loc'[w].todo \subseteq Connections
    BY <1>0, <1>5 DEF Lock, Go, Locals
  <2> QED BY <2>1 DEF Pending
<1>6. CASE AppendEvent(w)
  <2>1. /\ pc[w] = "append" /\ pc'[w] = "post" /\ writes' = writes /\ loc'[w] = loc[w]
    BY <1>0, <1>6 DEF AppendEvent, Go
  <2>2. Pending(w) = loc[w].todo /\ Pending(w)' = loc'[w].todo \ {First(w)'}
    BY <2>1 DEF Pending
  <2> QED BY <2>1, <2>2
<1>7. CASE PostResume(w)
  <2>1. /\ pc[w] = "post" /\ pc'[w] = "append" /\ writes' = writes
        /\ loc'[w].write = loc[w].write /\ loc'[w].todo = loc[w].todo \ {First(w)}
    BY <1>0, <1>7 DEF PostResume, Go, Locals
  <2>2. Pending(w) = loc[w].todo \ {First(w)} /\ Pending(w)' = loc'[w].todo
    BY <2>1 DEF Pending
  <2> QED BY <2>1, <2>2
<1> QED BY <1>1, <1>2, <1>3, <1>4, <1>5, <1>6, <1>7, LoadSplit, ProceedSplit DEF load, Check, Unlock

PendingKept(w) ==
    \/ loc'[w].write = writes + 1
    \/ Pending(w)' = {}
    \/ Pending(w)' \subseteq Pending(w) /\ loc'[w].write = loc[w].write

(* A step that adds no event.                                              *)
LEMMA NotToldStays ==
    ASSUME Inv, writes' \in Nat, writes' >= writes,
           \A c \in Connections : Events(c)' = Events(c),
           \A c \in Connections : stream'[c] = "new" => stream[c] = "new",
           \A w \in Writers : PendingKept(w)
    PROVE  NotTold'
<1>0. TypeOK /\ NotTold /\ writes \in Nat
  BY Typed DEF Inv
<1>1. ASSUME NEW c \in Connections, NEW i \in DOMAIN Events(c)
      PROVE  /\ Events(c)[i].write \in Nat /\ Events(c)[i].write <= writes
             /\ \A w \in Writers : c \in Pending(w) => Events(c)[i].write # loc[w].write
  <2>1. Events(c)[i] \in Event
    BY <1>0, <1>1, EventsType
  <2> QED BY <1>0, <1>1, <2>1 DEF NotTold, Event
<1>2. ASSUME NEW c \in Connections, NEW i \in DOMAIN Events(c)
      PROVE  /\ Events(c)[i].write <= writes'
             /\ \A w \in Writers : c \in Pending(w)' => Events(c)[i].write # loc'[w].write
  <2>1. Events(c)[i].write \in Nat /\ Events(c)[i].write <= writes
    BY <1>1
  <2>2. Events(c)[i].write <= writes' /\ Events(c)[i].write # writes + 1
    BY <1>0, <2>1
  <2> QED BY <1>1, <2>2 DEF PendingKept
<1>3. \A c \in Connections : stream'[c] = "new" => Events(c)' = <<>>
  BY <1>0 DEF NotTold
<1> QED BY <1>2, <1>3 DEF NotTold

(* The elements of a sequence with one more.                               *)
LEMMA AppendElements ==
    ASSUME NEW S, NEW s \in Seq(S), NEW e \in S
    PROVE  /\ DOMAIN Append(s, e) = 1 .. Len(s) + 1
           /\ \A i \in 1 .. Len(s) + 1 :
                Append(s, e)[i] = IF i = Len(s) + 1 THEN e ELSE s[i]
OBVIOUS

(* Every step keeps NotTold.                                               *)
LEMMA NotToldStep ==
    ASSUME Inv, Next, TypeOK'
    PROVE  NotTold'
<1>0. /\ TypeOK /\ NotTold /\ Numbered /\ writes \in Nat /\ writes' \in Nat
      /\ loc \in [Writers -> Locals]
  BY Typed DEF Inv, TypeOK
<1>1. ASSUME NEW w \in Writers, Load(w) \/ load(w)
      PROVE  /\ writes' >= writes /\ stream' = stream
             /\ \A v \in Writers : PendingKept(v)
  <2>1. stream' = stream
    BY <1>0, <1>1, WriterTypes DEF loop
  <2>2. \A v \in Writers : v # w => Pending(v)' = Pending(v) /\ loc'[v] = loc[v]
    BY <1>0, <1>1, WriterOwn, PendingStays
  <2> QED BY <1>0, <1>1, <2>1, <2>2, PendingShrinks DEF PendingKept
<1>2. ASSUME NEW w \in Writers, Load(w) \/ load(w), ~AppendEvent(w)
      PROVE  NotTold'
  <2>1. \A c \in Connections : Events(c)' = Events(c)
    BY <1>0, <1>2, WriterEvents, EventsStay
  <2>2. writes' >= writes /\ stream' = stream /\ \A v \in Writers : PendingKept(v)
    BY <1>1, <1>2
  <2> QED BY <1>0, <2>1, <2>2, NotToldStays
<1>3. ASSUME NEW w \in Writers, AppendEvent(w)
      PROVE  NotTold'
  <2>0. PICK f \in Connections, e \in Event : f = First(w) /\ e = ThisEvent(w)
    BY <1>0, <1>3, AppendAdds, EventType DEF AppendEvent
  <2>1. /\ f \in Connections /\ f \in loc[w].todo /\ pc[w] = "append" /\ pc'[w] = "post"
        /\ UNCHANGED <<loc, writes, stream>> /\ \A v \in Writers : v # w => pc'[v] = pc[v]
    BY <1>0, <1>3, <2>0, AppendAdds, Typed DEF AppendEvent, Go, loop
  <2>2. /\ Events(f)' = Append(Events(f), e)
        /\ \A c \in Connections : c # f => Events(c)' = Events(c)
    BY <1>0, <1>3, <2>0, AppendAdds
  <2>3. e.write = loc[w].write /\ e.write <= writes
    BY <1>0, <2>0, <2>1 DEF ThisEvent, Numbered
  <2>4. Pending(w) = loc[w].todo /\ Pending(w)' = loc[w].todo \ {f}
    <3>1. First(w)' = First(w)
      BY <2>1 DEF First
    <3> QED BY <2>0, <2>1, <3>1 DEF Pending
  <2>5. \A v \in Writers : v # w => Pending(v)' = Pending(v)
    BY <2>1, PendingStays
  <2>6. \A v \in Writers : v # w /\ Pending(v) # {} => loc[v].write # e.write
    BY <1>0, <2>1, <2>3 DEF Numbered, Pending
  <2>7. Events(f) \in Seq(Event) /\ Len(Events(f)) \in Nat /\ DOMAIN Events(f) = 1 .. Len(Events(f))
    BY <1>0, <2>1, EventsType
  <2>8. stream[f] = "open"
    BY <1>0, <2>1 DEF Inv, Notifying
  <2>9. ASSUME NEW i \in DOMAIN Events(f)'
        PROVE  Events(f)'[i] = e \/ (i \in DOMAIN Events(f) /\ Events(f)'[i] = Events(f)[i])
    BY <2>2, <2>7, AppendElements
  <2>10. ASSUME NEW c \in Connections
         PROVE  /\ \A i \in DOMAIN Events(c)' : Events(c)'[i].write <= writes'
                /\ \A v \in Writers : c \in Pending(v)' =>
                     \A i \in DOMAIN Events(c)' : Events(c)'[i].write # loc'[v].write
                /\ stream'[c] = "new" => Events(c)' = <<>>
    <3>1. CASE c # f
      BY <1>0, <2>1, <2>2, <2>4, <2>5, <3>1 DEF NotTold
    <3>2. CASE c = f
      <4>1. \A i \in DOMAIN Events(c)' : Events(c)'[i].write <= writes'
        BY <1>0, <2>1, <2>3, <2>9, <3>2 DEF NotTold
      <4>2. ASSUME NEW v \in Writers, c \in Pending(v)'
            PROVE  \A i \in DOMAIN Events(c)' : Events(c)'[i].write # loc'[v].write
        <5>1. v # w /\ c \in Pending(v) /\ loc[v].write # e.write
          BY <2>4, <2>5, <2>6, <3>2, <4>2
        <5> QED BY <1>0, <2>1, <2>9, <3>2, <5>1 DEF NotTold
      <4> QED BY <2>1, <2>8, <3>2, <4>1, <4>2
    <3> QED BY <3>1, <3>2
  <2> QED BY <2>10 DEF NotTold
<1>4. CASE LoopStep
  <2>1. UNCHANGED <<pc, loc, writes>> /\ \A w \in Writers : Pending(w)' = Pending(w)
    BY <1>4, LoopLeaves, PendingStays
  <2>2. \A c \in Connections : Events(c)' = Events(c)
    BY <1>0, <1>4, GenerateMoves, EventsStay DEF LoopStep, Connect, Resume, Close, Remove, loop
  <2>3. \A c \in Connections : stream'[c] = "new" => stream[c] = "new"
    <3>1. stream \in [Connections -> {"new", "open", "closed"}]
      BY <1>0 DEF TypeOK
    <3>2. \/ stream' = stream
          \/ \E c \in Connections : stream' = [stream EXCEPT ![c] = "open"]
          \/ \E c \in Connections : stream' = [stream EXCEPT ![c] = "closed"]
      BY <1>4 DEF LoopStep, Connect, Generate, Resume, Close, Remove, loop
    <3> QED BY <3>1, <3>2
  <2>4. writes' >= writes /\ \A w \in Writers : PendingKept(w)
    BY <1>0, <2>1 DEF PendingKept
  <2> QED BY <1>0, <2>2, <2>3, <2>4, NotToldStays
<1> QED BY <1>2, <1>3, <1>4 DEF Next, LoopStep

(* Every step keeps StreamFaithful.                                        *)
LEMMA FaithfulStep ==
    ASSUME Inv, Next
    PROVE  StreamFaithful'
<1>0. TypeOK /\ Notifying /\ Numbered /\ NotTold /\ StreamFaithful
  BY DEF Inv
<1>1. ASSUME \A c \in Connections : Events(c)' = Events(c),
             \A c \in Connections : keys'[c] = keys[c] \/ Events(c) = <<>>
      PROVE  StreamFaithful'
  BY <1>0, <1>1 DEF StreamFaithful, Wants
<1>2. ASSUME NEW w \in Writers, Load(w) \/ load(w), ~AppendEvent(w)
      PROVE  StreamFaithful'
  BY <1>0, <1>1, <1>2, WriterEvents, EventsStay, WriterTypes DEF loop
<1>3. ASSUME NEW w \in Writers, AppendEvent(w)
      PROVE  StreamFaithful'
  <2>0. PICK f \in Connections, e \in Event : f = First(w) /\ e = ThisEvent(w)
    BY <1>0, <1>3, AppendAdds, EventType DEF AppendEvent
  <2>1. f \in Connections /\ f \in loc[w].todo /\ pc[w] = "append" /\ keys' = keys
    BY <1>0, <1>3, <2>0, AppendAdds DEF AppendEvent, loop
  <2>2. /\ Events(f)' = Append(Events(f), e)
        /\ \A c \in Connections : c # f => Events(c)' = Events(c)
    BY <1>0, <1>3, <2>0, AppendAdds
  <2>3. /\ e.key = loc[w].key /\ e.write = loc[w].write /\ e.value = loc[w].value
        /\ e.value = Absent \/ e.value >= e.write
    BY <1>0, <2>0, <2>1 DEF ThisEvent, Numbered
  <2>4. Wants(f, e.key)
    BY <1>0, <2>1, <2>3 DEF Notifying
  <2>5. \A i \in DOMAIN Events(f) : Events(f)[i].write # e.write
    BY <1>0, <2>1, <2>3 DEF NotTold, Pending
  <2>6. Events(f) \in Seq(Event) /\ Len(Events(f)) \in Nat /\ DOMAIN Events(f) = 1 .. Len(Events(f))
    BY <1>0, <2>1, EventsType
  <2>7. \A c, k : Wants(c, k)' = Wants(c, k)
    BY <2>1 DEF Wants
  <2>8. ASSUME NEW i \in DOMAIN Events(f)'
        PROVE  \/ Events(f)'[i] = e /\ i = Len(Events(f)) + 1
               \/ i \in DOMAIN Events(f) /\ Events(f)'[i] = Events(f)[i]
    BY <2>2, <2>6, AppendElements
  <2>9. ASSUME NEW c \in Connections
        PROVE  /\ \A i \in DOMAIN Events(c)' :
                     /\ Wants(c, Events(c)[i].key)'
                     /\ Events(c)'[i].value = Absent \/ Events(c)'[i].value >= Events(c)'[i].write
               /\ \A i, j \in DOMAIN Events(c)' :
                    i # j => Events(c)'[i].write # Events(c)'[j].write
    <3>1. CASE c # f
      BY <1>0, <2>2, <2>7, <3>1 DEF StreamFaithful
    <3>2. CASE c = f
      <4>1. ASSUME NEW i \in DOMAIN Events(f)'
            PROVE  /\ Wants(f, Events(f)'[i].key)
                   /\ Events(f)'[i].value = Absent \/ Events(f)'[i].value >= Events(f)'[i].write
        BY <1>0, <2>1, <2>3, <2>4, <2>8 DEF StreamFaithful
      <4>2. ASSUME NEW i \in DOMAIN Events(f)', NEW j \in DOMAIN Events(f)', i # j
            PROVE  Events(f)'[i].write # Events(f)'[j].write
        BY <1>0, <2>1, <2>5, <2>8, <4>2 DEF StreamFaithful
      <4> QED BY <2>7, <3>2, <4>1, <4>2
    <3> QED BY <3>1, <3>2
  <2> QED BY <2>9 DEF StreamFaithful
<1>4. CASE LoopStep
  <2>1. \A c \in Connections : Events(c)' = Events(c)
    BY <1>0, <1>4, GenerateMoves, EventsStay DEF LoopStep, Connect, Resume, Close, Remove, loop
  <2>2. \A c \in Connections : keys'[c] = keys[c] \/ stream[c] = "new"
    BY <1>0, <1>4 DEF LoopStep, Connect, Generate, Resume, Close, Remove, loop, TypeOK
  <2> QED BY <1>0, <1>1, <2>1, <2>2 DEF NotTold
<1> QED BY <1>2, <1>3, <1>4 DEF Next, LoopStep

-----------------------------------------------------------------------------
(* The invariant holds at the start.                                       *)
LEMMA InitInv == Init => Inv
<1> SUFFICES ASSUME Init PROVE Inv
  OBVIOUS
<1>1. \A c \in Connections : Events(c) = <<>>
  BY DEF Init, Events
<1>2. TypeOK
  <2>1. Unused \in Locals
    <3>1. <<>> \in Seq(Keys)
      OBVIOUS
    <3> QED BY <3>1 DEF Unused, Locals, Kinds
  <2>2. <<>> \in Seq(Event)
    OBVIOUS
  <2>3. loc \in [Writers -> Locals]
    BY <2>1 DEF Init
  <2>4. buffer \in [Connections -> Seq(Event)] /\ sent \in [Connections -> Seq(Event)]
    BY <2>2 DEF Init
  <2> QED BY <2>3, <2>4, StreamAssumption DEF Init, TypeOK, Locals, Absent
<1>3. Notifying
  BY StreamAssumption DEF Init, Notifying
<1>4. Numbered
  BY DEF Init, Numbered
<1>5. NotTold
  BY <1>1 DEF Init, NotTold, Pending
<1>6. StreamFaithful
  BY <1>1 DEF StreamFaithful
<1> QED BY <1>2, <1>3, <1>4, <1>5, <1>6 DEF Inv

(* A step that changes nothing keeps it.                                   *)
LEMMA StutterInv == Inv /\ UNCHANGED vars => Inv'
<1> SUFFICES ASSUME Inv, UNCHANGED vars PROVE Inv'
  OBVIOUS
<1>0. /\ TypeOK /\ Notifying /\ Numbered /\ NotTold /\ StreamFaithful
      /\ UNCHANGED <<vault, registered, mutex, pc, loc, stream, keys, deferred, sent,
                     posted, buffer, ops, writes>>
  BY DEF Inv, vars, loop
<1>1. /\ \A c, k : Wants(c, k)' = Wants(c, k)
      /\ \A c \in Connections : Events(c)' = Events(c)
      /\ \A w \in Writers : Pending(w)' = Pending(w)
  BY <1>0, EventsStay, PendingStays DEF Wants
<1>2. TypeOK'
  BY <1>0 DEF TypeOK
<1>3. Notifying'
  BY <1>0, <1>1 DEF Notifying
<1>4. Numbered'
  BY <1>0 DEF Numbered
<1>5. NotTold'
  BY <1>0, <1>1 DEF NotTold
<1>6. StreamFaithful'
  BY <1>0, <1>1 DEF StreamFaithful
<1> QED BY <1>2, <1>3, <1>4, <1>5, <1>6 DEF Inv

(* The invariant of a stream and of the notifications that feed it.        *)
THEOREM Invariance == Spec => []Inv
<1>1. Inv /\ Next => Inv'
  BY TypesStep, NotifyingStep, NumberedStep, NotToldStep, FaithfulStep DEF Inv
<1> QED BY <1>1, InitInv, StutterInv, PTL DEF Spec

(* SseManager::notify tells a stream of the writes that it watches alone,  *)
(* of each of them once, and never with a value that is older.             *)
THEOREM StreamIsFaithful == Spec => []StreamFaithful
<1>1. Inv => StreamFaithful
  BY DEF Inv
<1> QED BY <1>1, Invariance, PTL
=============================================================================
