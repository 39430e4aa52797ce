---------------------------- MODULE VaultStream ----------------------------
(***************************************************************************)
(* The event stream of the vault: Vault::load and its variants on any      *)
(* worker, SseManager, and the handler of GET vault/events, whose          *)
(* generator, posted resumptions and close run on the event loop of the    *)
(* connection.                                                             *)
(*                                                                         *)
(* A write is numbered; an event carries the number of the write that      *)
(* caused it and the value that was formatted.                             *)
(***************************************************************************)
EXTENDS Integers, Sequences, FiniteSets

CONSTANTS
    Writers,      \* workers that write the vault
    Connections,  \* streams a client may open
    Keys,
    Queries,      \* the sets of keys a client may ask for; {} is all of them
    Document,     \* a body of POST vault: its keys, in their order
    MaxOps        \* bound on the operations, deletions included

Nobody == "nobody"

ASSUME StreamAssumption ==
    /\ MaxOps \in Nat
    /\ Document \in Seq(Keys) /\ Document # <<>>
    /\ Queries \subseteq SUBSET Keys
    /\ Nobody \notin Writers

(* An operation may write every item of a document.                        *)
MaxWrites == MaxOps * Len(Document)

Absent == 0

VARIABLES
    vault,       \* the map: the number of the write that set each key
    registered,  \* SseManager::connections_
    mutex,       \* SseManager::mutex_
    pc, loc,     \* where each writer is, and its local variables
    stream,      \* each stream: "new", "open" or "closed"
    keys,        \* the keys it watches
    deferred,    \* nghttp2 waits for a resumption of the stream
    posted,      \* resumptions posted to the event loop
    buffer,      \* the bytes not sent yet, as events
    sent,        \* what the client received
    ops, writes,
    due          \* history: the writes each stream has to tell of

loop == <<stream, keys, deferred, sent>>
vars == <<vault, registered, mutex, pc, loc, loop, posted, buffer, ops, writes, due>>

Kinds == {"copy", "move", "document"}
Event == [key: Keys, write: Nat, value: Nat]

Wants(c, k) == keys[c] = {} \/ k \in keys[c]

TypeOK ==
    /\ vault \in [Keys -> Nat] /\ writes \in Nat /\ ops \in 0..MaxOps
    /\ mutex \in Writers \cup {Nobody}
    /\ pc \in [Writers -> {"idle", "reread", "check", "lock", "append", "post"}]
    /\ loc \in [Writers -> [key: Keys \cup {"none"}, write: Nat, value: Nat, kind: Kinds,
                            todo: SUBSET Connections, items: Seq(Keys)]]
    /\ stream \in [Connections -> {"new", "open", "closed"}]
    /\ registered = {c \in Connections : stream[c] = "open"}
    /\ keys \in [Connections -> SUBSET Keys]
    /\ deferred \in [Connections -> BOOLEAN] /\ posted \in [Connections -> Nat]
    /\ buffer \in [Connections -> Seq(Event)] /\ sent \in [Connections -> Seq(Event)]

Unused == [key |-> "none", write |-> 0, value |-> 0, kind |-> "copy", todo |-> {}, items |-> <<>>]

Init ==
    /\ vault = [k \in Keys |-> Absent]
    /\ registered = {} /\ mutex = Nobody
    /\ pc = [w \in Writers |-> "idle"] /\ loc = [w \in Writers |-> Unused]
    /\ stream = [c \in Connections |-> "new"]
    /\ keys = [c \in Connections |-> {}]
    /\ deferred = [c \in Connections |-> FALSE]
    /\ posted = [c \in Connections |-> 0]
    /\ buffer = [c \in Connections |-> <<>>]
    /\ sent = [c \in Connections |-> <<>>]
    /\ ops = 0 /\ writes = 0
    /\ due = [c \in Connections |-> {}]

-----------------------------------------------------------------------------
Go(w, stage, r) ==
    /\ pc' = [pc EXCEPT ![w] = stage]
    /\ loc' = [loc EXCEPT ![w] = r]

(* Mutant: the event is formatted from what the map held before.           *)
AddStale(w, k, kind, items) ==
    /\ writes' = writes + 1
    /\ vault' = [vault EXCEPT ![k] = writes + 1]
    /\ due' = [c \in Connections |->
                 IF c \in registered /\ Wants(c, k) THEN due[c] \cup {writes + 1} ELSE due[c]]
    /\ Go(w, IF kind = "move" THEN "reread" ELSE "check",
          [key |-> k, write |-> writes + 1, value |-> vault[k],
           kind |-> kind, todo |-> {}, items |-> items])

(* The map takes the value; load(&&) and loadAtPath then read it again.    *)
Add(w, k, kind, items) ==
    /\ writes' = writes + 1
    /\ vault' = [vault EXCEPT ![k] = writes + 1]
    /\ due' = [c \in Connections |->
                 IF c \in registered /\ Wants(c, k) THEN due[c] \cup {writes + 1} ELSE due[c]]
    /\ Go(w, IF kind = "move" THEN "reread" ELSE "check",
          [key |-> k, write |-> writes + 1, value |-> writes + 1,
           kind |-> kind, todo |-> {}, items |-> items])

Load(w) ==
    /\ pc[w] = "idle"
    /\ ops < MaxOps /\ ops' = ops + 1
    /\ \/ \E k \in Keys, kind \in {"copy", "move"} : Add(w, k, kind, <<>>)
       \/ Add(w, Head(Document), "document", Tail(Document))
    /\ UNCHANGED <<registered, mutex, loop, posted, buffer>>

(* tryGet: the value of another write, or nothing, if it came in between.  *)
Reread(w) ==
    /\ pc[w] = "reread"
    /\ Go(w, "check", [loc[w] EXCEPT !.value = vault[loc[w].key]])
    /\ UNCHANGED <<vault, registered, mutex, loop, posted, buffer, writes, due, ops>>

(* loadJson goes on with the next item of its document.                    *)
Proceed(w) ==
    IF loc[w].items = <<>>
      THEN Go(w, "idle", Unused) /\ UNCHANGED <<vault, writes, due>>
      ELSE Add(w, Head(loc[w].items), "document", Tail(loc[w].items))

(* notify, first part: no connection, nothing to format.                   *)
Check(w) ==
    /\ pc[w] = "check" /\ mutex = Nobody
    /\ IF registered = {}
         THEN Proceed(w)
         ELSE Go(w, "lock", loc[w]) /\ UNCHANGED <<vault, writes, due>>
    /\ UNCHANGED <<registered, mutex, loop, posted, buffer, ops>>

(* Second part: with the lock, every connection that watches the key.      *)
Lock(w) ==
    /\ pc[w] = "lock" /\ mutex = Nobody
    /\ mutex' = w
    /\ Go(w, "append", [loc[w] EXCEPT !.todo = {c \in registered : Wants(c, loc[w].key)}])
    /\ UNCHANGED <<vault, registered, loop, posted, buffer, writes, due, ops>>

ThisEvent(w) == [key |-> loc[w].key, write |-> loc[w].write, value |-> loc[w].value]

(* Mutant: the stream is resumed before the event is in the buffer.        *)
CallbackSwapped(w, c, part) ==
    IF part = "post"
      THEN buffer' = [buffer EXCEPT ![c] = Append(@, ThisEvent(w))] /\ UNCHANGED posted
      ELSE posted' = [posted EXCEPT ![c] = @ + 1] /\ UNCHANGED buffer

(* The write callback of a connection: the event goes to its buffer, then  *)
(* a resumption is posted to its event loop.                               *)
Callback(w, c, part) ==
    IF part = "append"
      THEN buffer' = [buffer EXCEPT ![c] = Append(@, ThisEvent(w))] /\ UNCHANGED posted
      ELSE posted' = [posted EXCEPT ![c] = @ + 1] /\ UNCHANGED buffer

First(w) == CHOOSE c \in loc[w].todo : TRUE

AppendEvent(w) ==
    /\ pc[w] = "append" /\ loc[w].todo # {}
    /\ Callback(w, First(w), "append")
    /\ Go(w, "post", loc[w])
    /\ UNCHANGED <<vault, registered, mutex, loop, writes, due, ops>>

PostResume(w) ==
    /\ pc[w] = "post"
    /\ Callback(w, First(w), "post")
    /\ Go(w, "append", [loc[w] EXCEPT !.todo = @ \ {First(w)}])
    /\ UNCHANGED <<vault, registered, mutex, loop, writes, due, ops>>

Unlock(w) ==
    /\ pc[w] = "append" /\ loc[w].todo = {}
    /\ mutex' = Nobody
    /\ Proceed(w)
    /\ UNCHANGED <<registered, loop, posted, buffer, ops>>

(* DELETE vault, or an eraser: the map only, nobody is told.               *)
Remove ==
    /\ ops < MaxOps /\ ops' = ops + 1
    /\ \E k \in Keys : vault[k] # Absent /\ vault' = [vault EXCEPT ![k] = Absent]
    /\ UNCHANGED <<registered, mutex, pc, loc, loop, posted, buffer, writes, due>>

-----------------------------------------------------------------------------
(* The handler: the keys of the query, the generator, the registration.    *)
Connect(c) ==
    /\ stream[c] = "new" /\ mutex = Nobody
    /\ stream' = [stream EXCEPT ![c] = "open"]
    /\ \E q \in Queries : keys' = [keys EXCEPT ![c] = q]
    /\ registered' = registered \cup {c}
    /\ UNCHANGED <<vault, mutex, pc, loc, deferred, sent, posted, buffer, writes, due, ops>>

(* nghttp2 asks for data: as much of the buffer as fits, or the stream is  *)
(* deferred.                                                               *)
Generate(c) ==
    /\ stream[c] = "open" /\ ~deferred[c]
    /\ IF buffer[c] = <<>>
         THEN deferred' = [deferred EXCEPT ![c] = TRUE] /\ UNCHANGED <<sent, buffer>>
         ELSE \E n \in 1..Len(buffer[c]) :
                /\ sent' = [sent EXCEPT ![c] = @ \o SubSeq(buffer[c], 1, n)]
                /\ buffer' = [buffer EXCEPT ![c] = SubSeq(@, n + 1, Len(@))]
                /\ UNCHANGED deferred
    /\ UNCHANGED <<vault, registered, mutex, pc, loc, stream, posted, writes, due, ops, keys>>

Resume(c) ==
    /\ posted[c] > 0
    /\ posted' = [posted EXCEPT ![c] = @ - 1]
    /\ deferred' = [deferred EXCEPT ![c] = FALSE]
    /\ UNCHANGED <<vault, registered, mutex, pc, loc, stream, sent, buffer, writes, due, ops, keys>>

(* on_close: the connection is removed, once no notification is under way. *)
Close(c) ==
    /\ stream[c] = "open" /\ mutex = Nobody
    /\ stream' = [stream EXCEPT ![c] = "closed"]
    /\ registered' = registered \ {c}
    /\ UNCHANGED <<vault, mutex, pc, loc, deferred, sent, posted, buffer, writes, due, ops, keys>>

load(w) == Reread(w) \/ Check(w) \/ Lock(w) \/ AppendEvent(w) \/ PostResume(w) \/ Unlock(w)

Next ==
    \/ \E w \in Writers : Load(w) \/ load(w)
    \/ \E c \in Connections : Connect(c) \/ Generate(c) \/ Resume(c) \/ Close(c)
    \/ Remove

Spec == Init /\ [][Next]_vars

(* Workers and event loops run; nobody has to write, connect or close.     *)
(* At most MaxOps operations contend for the mutex, so a thread that waits *)
(* for it gets it in the end.                                              *)
FairSpec ==
    /\ Spec
    /\ \A w \in Writers : WF_vars(load(w))
    /\ \A c \in Connections : WF_vars(Generate(c)) /\ WF_vars(Resume(c))

-----------------------------------------------------------------------------
Told(c) == {sent[c][i].write : i \in DOMAIN sent[c]}
Events(c) == sent[c] \o buffer[c]

(* "If key= params provided: only matching vault mutations are pushed", by *)
(* SseManager::notify, each of them once, and none shows a value older     *)
(* than the write that caused it, though load(&&) formats what it reads    *)
(* afterwards: that write's, a later one's, or nothing if the key was      *)
(* deleted.                                                                *)
StreamFaithful ==
    \A c \in Connections :
      /\ \A i \in DOMAIN Events(c) :
           LET e == Events(c)[i]
           IN  Wants(c, e.key) /\ (e.value = Absent \/ e.value >= e.write)
      /\ \A i, j \in DOMAIN Events(c) : i # j => Events(c)[i].write # Events(c)[j].write

(* No wakeup is lost between the generator that finds the buffer empty and *)
(* the callback that fills it: a write that a stream was registered for    *)
(* reaches its client, unless the stream closes.                           *)
EveryWriteStreamed ==
    \A c \in Connections : \A n \in 1..MaxWrites :
      n \in due[c] ~> (n \in Told(c) \/ stream[c] = "closed")
=============================================================================
