--------------------------- MODULE TrafficServer ---------------------------
(***************************************************************************)
(* The traffic server: MyTrafficHttp2Server::receive and streamClose on    *)
(* several worker threads, over the store of server events                 *)
(* (MockServerData, MockData, MockEventsHistory), with the threads that    *)
(* remove events meanwhile (the admin DELETE, the serverEvent target of a  *)
(* transformation) and the admin PUT that changes what is stored.          *)
(*                                                                         *)
(* A step is one operation of the map or of one history: each has a lock   *)
(* of its own and none is held across two of them.  Matching and           *)
(* transformation are reduced to their result: whether the state has a     *)
(* provision, the out-state it leads to, the foreign key of a virtual      *)
(* out-state.                                                              *)
(***************************************************************************)
EXTENDS Integers, Sequences, FiniteSets

CONSTANTS
    Workers,            \* traffic worker threads
    Removers,           \* threads that remove events
    Keys,               \* data keys (method and uri)
    ForeignKeys,        \* keys a virtual out-state may name
    WarmKeys,           \* keys that have an event when the model starts
    Provisioned,        \* states with a provision
    OutStates,          \* out-states a transformation can produce
    MaxRecv,            \* bound on the requests received
    Configurable,       \* the flags the admin PUT changes
    KeepHistory,        \* initial server_data_key_history_
    Exclusive           \* no two threads work on one key at a time

Threads == Workers \cup Removers

NoKey == "none"

ASSUME TrafficAssumption ==
    /\ IsFiniteSet(Keys) /\ NoKey \notin Keys
    /\ WarmKeys \subseteq Keys /\ ForeignKeys \subseteq Keys
    /\ IsFiniteSet(Threads) /\ Workers \cap Removers = {}
    /\ MaxRecv \in Nat
    /\ Configurable \subseteq {"data", "history", "purge"}
    /\ {KeepHistory, Exclusive} \subseteq BOOLEAN

(* A history object; as many as keys and threads can refer to at once.     *)
HistoryIds == 1 .. Cardinality(Keys) + Cardinality(Threads)
NoHistory == 0

States == Provisioned \cup OutStates \cup {"", "initial"}

BaseEvent(s) == [recv |-> 0, state |-> s]
Event(r, s) == [BaseEvent(s) EXCEPT !.recv = r]
NoEvent == Event(0, "")
Events == [recv: 0 .. MaxRecv, state: States]

VARIABLES
    map,         \* the map of MockData: [Keys -> HistoryIds \cup {NoHistory}]
    hist,        \* the history objects: events_ and chain_variables_
    lastLoaded,  \* MockServerData::last_loaded_event_
    pending,     \* MyTrafficHttp2Server::pending_events_
    conf,        \* server_data_, server_data_key_history_, purge_execution_
    received,    \* the last reception identifier
    pc,          \* where each thread is
    loc,         \* the local variables of each thread
    open,        \* the answered requests whose stream is not closed yet
    stored,      \* history: <<key, recv>> loaded and not removed since
    latest       \* history: recv of the last event loaded per key, 0 unknown

vars == <<map, hist, lastLoaded, pending, conf, received, pc, loc, open,
          stored, latest>>

data == <<map, hist, lastLoaded>>
ghosts == <<stored, latest>>

Locals == [recv: 0 .. MaxRecv, key: Keys \cup {NoKey}, in: States,
           chain: 0 .. MaxRecv, out: States, own: States, foreign: Keys \cup {NoKey},
           target: Keys \cup {NoKey}, ref: HistoryIds \cup {NoHistory},
           maiden: BOOLEAN, keep: BOOLEAN]

Unused == [recv |-> 0, key |-> NoKey, in |-> "", chain |-> 0, out |-> "",
           own |-> "", foreign |-> NoKey, target |-> NoKey, ref |-> NoHistory,
           maiden |-> FALSE, keep |-> TRUE]

Stages == {"idle", "find", "state", "vars", "match", "get", "push", "add",
           "last", "pend", "storeget", "storeset", "purgeget", "purge",
           "rmevent", "rmsize", "rmkey"}

(* Where a thread uses the history it looked up.                           *)
Dereferencing == {"state", "vars", "push", "add", "last", "storeset",
                  "rmevent", "rmsize", "rmkey"}

TypeOK ==
    /\ map \in [Keys -> HistoryIds \cup {NoHistory}]
    /\ hist \in [HistoryIds -> [evs: Seq(Events), chain: 0 .. MaxRecv]]
    /\ lastLoaded \in Events
    /\ pending \in [1 .. MaxRecv -> Events]
    /\ conf \in [data: BOOLEAN, history: BOOLEAN, purge: BOOLEAN]
    /\ received \in 0 .. MaxRecv
    /\ pc \in [Threads -> Stages]
    /\ loc \in [Threads -> Locals]
    /\ \A t \in Threads : pc[t] \in Dereferencing => loc[t].ref \in HistoryIds
    /\ open \subseteq 1 .. MaxRecv
    /\ stored \subseteq Keys \X (0 .. MaxRecv)
    /\ latest \in [Keys -> 0 .. MaxRecv]

NewHistory == [evs |-> <<>>, chain |-> 0]

(* Some placement of the warm keys' histories.                             *)
Placement ==
    CHOOSE f \in [WarmKeys -> HistoryIds] : \A j, k \in WarmKeys : j # k => f[j] # f[k]

Init ==
    /\ map = [k \in Keys |-> IF k \in WarmKeys THEN Placement[k] ELSE NoHistory]
    /\ hist = [h \in HistoryIds |->
                 IF \E k \in WarmKeys : Placement[k] = h
                   THEN [evs |-> <<Event(0, "initial")>>, chain |-> 0]
                   ELSE NewHistory]
    /\ lastLoaded = NoEvent
    /\ pending = [r \in 1 .. MaxRecv |-> NoEvent]
    /\ conf = [data |-> TRUE, history |-> KeepHistory, purge |-> TRUE]
    /\ received = 0
    /\ pc = [t \in Threads |-> "idle"]
    /\ loc = [t \in Threads |-> Unused]
    /\ open = {}
    /\ stored = {}
    /\ latest = [k \in Keys |-> 0]

-----------------------------------------------------------------------------
Go(t, stage, l) ==
    /\ pc' = [pc EXCEPT ![t] = stage]
    /\ loc' = [loc EXCEPT ![t] = l]

(* No other thread is working on the key, if that is assumed.              *)
Free(k) == Exclusive => \A t \in Threads : k \notin {loc[t].key, loc[t].foreign}

(* The history object that make_shared returns: one nobody refers to.      *)
Fresh == CHOOSE h \in HistoryIds : /\ \A k \in Keys : map[k] # h
                                   /\ \A t \in Threads : loc[t].ref # h

Back(evs) == evs[Len(evs)]

(* receive() ends and the answer can be sent.                              *)
Answer(w) ==
    /\ Go(w, "idle", Unused)
    /\ open' = open \cup {loc[w].recv}

(* A request arrives and a worker takes it.                                *)
Receive(w) ==
    /\ pc[w] = "idle"
    /\ received < MaxRecv
    /\ received' = received + 1
    /\ \E k \in Keys :
         /\ Free(k)
         /\ Go(w, "find", [Unused EXCEPT !.recv = received', !.key = k])
    /\ UNCHANGED <<data, pending, conf, open, ghosts>>

(* MockData::findLastRegisteredRequestState: the map is read ...           *)
FindMissing(w) ==
    /\ pc[w] = "find"
    /\ map[loc[w].key] = NoHistory
    /\ Go(w, "match", [loc[w] EXCEPT !.in = "initial", !.chain = 0])
    /\ UNCHANGED <<data, pending, conf, received, open, ghosts>>

FindHistory(w) ==
    /\ pc[w] = "find"
    /\ map[loc[w].key] # NoHistory
    /\ Go(w, "state", [loc[w] EXCEPT !.ref = map[loc[w].key]])
    /\ UNCHANGED <<data, pending, conf, received, open, ghosts>>

(* ... then the state of the last event under the history's lock; back()   *)
(* of an empty vector is undefined, whatever state can come out of it ...  *)
FindState(w) ==
    /\ pc[w] = "state"
    /\ LET evs == hist[loc[w].ref].evs IN
         \E s \in IF evs # <<>> THEN {Back(evs).state} ELSE States :
           Go(w, "vars", [loc[w] EXCEPT !.in = s])
    /\ UNCHANGED <<data, pending, conf, received, open, ghosts>>

(* ... and the chain variables under the same lock, taken again.  The      *)
(* empty state of an unprovisioned event counts as none.                   *)
FindVars(w) ==
    /\ pc[w] = "vars"
    /\ Go(w, "match",
          IF loc[w].in = ""
            THEN [loc[w] EXCEPT !.in = "initial", !.chain = 0, !.ref = NoHistory]
            ELSE [loc[w] EXCEPT !.chain = hist[loc[w].ref].chain, !.ref = NoHistory])
    /\ UNCHANGED <<data, pending, conf, received, open, ghosts>>

(* A provision is found and transformed.  The out-state is the one of the  *)
(* provision or one a transformation sets, possibly for a foreign key; the *)
(* own key then gets the provision's out-state.  (Naming the own key as a  *)
(* foreign one is left out: the code warns that it is redundant.)          *)
Match(w) ==
    /\ pc[w] = "match"
    /\ loc[w].in \in Provisioned
    /\ \E out, own \in OutStates, f \in ForeignKeys \cup {NoKey} :
         /\ IF f = NoKey THEN own = out ELSE f # loc[w].key /\ Free(f)
         /\ LET l == [loc[w] EXCEPT !.out = out, !.own = own, !.foreign = f, !.keep = conf.history,
                                    !.target = loc[w].key]
            IN  \/ /\ conf.purge /\ out = "purge"
                   /\ Go(w, "purgeget", l)
                   /\ UNCHANGED open
                \/ /\ ~(conf.purge /\ out = "purge")
                   /\ conf.data
                   /\ Go(w, "get", l)
                   /\ UNCHANGED open
                \/ /\ ~(conf.purge /\ out = "purge")
                   /\ ~conf.data
                   /\ Answer(w)
    /\ UNCHANGED <<data, pending, conf, received, ghosts>>

(* No provision, not even the default one: 501, stored with empty states   *)
(* and always with history.                                                *)
NoMatch(w) ==
    /\ pc[w] = "match"
    /\ loc[w].in \notin Provisioned
    /\ IF conf.data
         THEN /\ Go(w, "get", [loc[w] EXCEPT !.out = "", !.own = "", !.keep = TRUE,
                                             !.target = loc[w].key])
              /\ UNCHANGED open
         ELSE Answer(w)
    /\ UNCHANGED <<data, pending, conf, received, ghosts>>

(* MockServerData::loadEvent: the history is looked up, or a new one made  *)
(* that is not in the map yet ...                                          *)
LoadGet(w) ==
    /\ pc[w] = "get"
    /\ LET h == map[loc[w].target] IN
         IF h # NoHistory
           THEN /\ Go(w, "push", [loc[w] EXCEPT !.ref = h, !.maiden = FALSE])
                /\ UNCHANGED hist
           ELSE /\ Go(w, "push", [loc[w] EXCEPT !.ref = Fresh, !.maiden = TRUE])
                /\ hist' = [hist EXCEPT ![Fresh] = NewHistory]
    /\ UNCHANGED <<map, lastLoaded, pending, conf, received, open, ghosts>>

(* The state stored: the transformed out-state if the out-state is for the *)
(* key that is loaded, the provision's one otherwise.                      *)
StoredState(w) ==
    IF loc[w].target = loc[w].key THEN loc[w].own ELSE loc[w].out

(* Mutant: a new event goes to the front of the history.                   *)
LoadedInFront(evs, e, keep) ==
    IF ~keep /\ Len(evs) # 0 THEN [evs EXCEPT ![1] = e] ELSE <<e>> \o evs

Loaded(evs, e, keep) ==
    IF ~keep /\ Len(evs) # 0 THEN [evs EXCEPT ![1] = e] ELSE Append(evs, e)

(* ... the event goes into the history ...                                 *)
LoadPush(w) ==
    /\ pc[w] = "push"
    /\ hist' = [hist EXCEPT ![loc[w].ref].evs =
                  Loaded(@, Event(loc[w].recv, StoredState(w)), loc[w].keep)]
    /\ latest' = [latest EXCEPT ![loc[w].target] = loc[w].recv]
    /\ Go(w, IF loc[w].maiden THEN "add" ELSE "last", loc[w])
    /\ UNCHANGED <<map, lastLoaded, pending, conf, received, open, stored>>

(* Mutant: the new history is never put into the map.                      *)
LoadAddForgotten(w) ==
    /\ pc[w] = "add"
    /\ Go(w, "last", loc[w])
    /\ UNCHANGED <<data, pending, conf, received, open, ghosts>>

(* ... a new history goes into the map ...                                 *)
LoadAdd(w) ==
    /\ pc[w] = "add"
    /\ map' = [map EXCEPT ![loc[w].target] = loc[w].ref]
    /\ Go(w, "last", loc[w])
    /\ UNCHANGED <<hist, lastLoaded, pending, conf, received, open, ghosts>>

(* ... and the last event of the history is remembered for all threads.    *)
(* A virtual event ends the request.                                       *)
LoadLast(w) ==
    /\ pc[w] = "last"
    /\ LET evs == hist[loc[w].ref].evs IN
         lastLoaded' = IF evs = <<>> THEN NoEvent ELSE Back(evs)
    /\ stored' = stored \cup {<<loc[w].target, loc[w].recv>>}
    /\ IF loc[w].target = loc[w].key
         THEN /\ Go(w, "pend", [loc[w] EXCEPT !.ref = NoHistory])
              /\ UNCHANGED open
         ELSE Answer(w)
    /\ UNCHANGED <<map, hist, pending, conf, received, latest>>

(* The event is registered for the closing of the stream.                  *)
RegisterPending(w) ==
    /\ pc[w] = "pend"
    /\ pending' = [pending EXCEPT ![loc[w].recv] = lastLoaded]
    /\ IF loc[w].out = ""
         THEN Answer(w)
         ELSE /\ Go(w, "storeget", loc[w])
              /\ UNCHANGED open
    /\ UNCHANGED <<data, conf, received, ghosts>>

(* After the chain variables, a virtual out-state is loaded to its key.    *)
AfterChain(w) ==
    IF loc[w].foreign = NoKey
      THEN Answer(w)
      ELSE /\ Go(w, "get", [loc[w] EXCEPT !.target = loc[w].foreign,
                                          !.ref = NoHistory, !.keep = conf.history])
           /\ UNCHANGED open

(* MockData::storeChainVariables: the history is looked up again.          *)
StoreGet(w) ==
    /\ pc[w] = "storeget"
    /\ LET h == map[loc[w].key] IN
         IF h = NoHistory
           THEN AfterChain(w)
           ELSE Go(w, "storeset", [loc[w] EXCEPT !.ref = h]) /\ UNCHANGED open
    /\ UNCHANGED <<data, pending, conf, received, ghosts>>

StoreSet(w) ==
    /\ pc[w] = "storeset"
    /\ hist' = [hist EXCEPT ![loc[w].ref].chain = loc[w].recv]
    /\ AfterChain(w)
    /\ UNCHANGED <<map, lastLoaded, pending, conf, received, ghosts>>

(* The out-state "purge": MockData::clear of the own key.                  *)
PurgeGet(w) ==
    /\ pc[w] = "purgeget"
    /\ IF map[loc[w].key] = NoHistory
         THEN Answer(w)
         ELSE Go(w, "purge", loc[w]) /\ UNCHANGED open
    /\ UNCHANGED <<data, pending, conf, received, ghosts>>

Dropped(k) ==
    /\ map' = [map EXCEPT ![k] = NoHistory]
    /\ stored' = {p \in stored : p[1] # k}
    /\ latest' = [latest EXCEPT ![k] = 0]

Purge(w) ==
    /\ pc[w] = "purge"
    /\ Dropped(loc[w].key)
    /\ Answer(w)
    /\ UNCHANGED <<hist, lastLoaded, pending, conf, received>>

(* The stream of an answered request closes: its event is taken out of the *)
(* pending ones (and stamped with the sending time).                       *)
streamClose(r) ==
    /\ r \in open
    /\ open' = open \ {r}
    /\ pending' = IF conf.data THEN [pending EXCEPT ![r] = NoEvent] ELSE pending
    /\ UNCHANGED <<data, conf, received, pc, loc, stored, latest>>

-----------------------------------------------------------------------------
(* MockData::clear with a key, removeEventByRecvSeq: the history is looked *)
(* up, nothing happens when the key is not in the map.                     *)
RemoveGet(a) ==
    /\ pc[a] = "idle"
    /\ \E k \in Keys, stage \in {"rmkey", "rmevent"} :
         /\ Free(k)
         /\ map[k] # NoHistory
         /\ Go(a, stage, [Unused EXCEPT !.key = k, !.ref = map[k]])
    /\ UNCHANGED <<data, pending, conf, received, open, ghosts>>

Erased(evs, i) ==
    [j \in 1 .. Len(evs) - 1 |-> IF j < i THEN evs[j] ELSE evs[j + 1]]

(* One event is erased under the history's lock ...                        *)
RemoveEvent(a) ==
    /\ pc[a] = "rmevent"
    /\ LET h == loc[a].ref
           evs == hist[h].evs
       IN  \E i \in 1 .. Len(evs) :
             /\ hist' = [hist EXCEPT ![h].evs = Erased(evs, i)]
             /\ stored' = stored \ {<<loc[a].key, evs[i].recv>>}
             /\ latest' = [latest EXCEPT ![loc[a].key] = 0]
    /\ Go(a, "rmsize", loc[a])
    /\ UNCHANGED <<map, lastLoaded, pending, conf, received, open>>

(* ... or there is none with that number or sequence; clear() looks at the *)
(* size all the same.                                                      *)
RemoveNothing(a) ==
    /\ pc[a] = "rmevent"
    /\ Go(a, "idle", Unused) \/ Go(a, "rmsize", loc[a])
    /\ UNCHANGED <<data, pending, conf, received, open, ghosts>>

(* Mutant: the key of an empty history stays in the map.                   *)
RemoveSizeKeepsKey(a) ==
    /\ pc[a] = "rmsize"
    /\ Go(a, "idle", Unused)
    /\ UNCHANGED <<data, pending, conf, received, open, ghosts>>

(* The size is read without the lock; the key of an empty history goes.    *)
RemoveSize(a) ==
    /\ pc[a] = "rmsize"
    /\ IF hist[loc[a].ref].evs = <<>>
         THEN Go(a, "rmkey", loc[a])
         ELSE Go(a, "idle", Unused)
    /\ UNCHANGED <<data, pending, conf, received, open, ghosts>>

RemoveKey(a) ==
    /\ pc[a] = "rmkey"
    /\ Dropped(loc[a].key)
    /\ Go(a, "idle", Unused)
    /\ UNCHANGED <<hist, lastLoaded, pending, conf, received, open>>

(* DELETE /admin/v1/server-data without a key: Map::clear.                 *)
ClearAll(a) ==
    /\ pc[a] = "idle"
    /\ \A k \in Keys : Free(k)
    /\ map' = [k \in Keys |-> NoHistory]
    /\ stored' = {}
    /\ latest' = [k \in Keys |-> 0]
    /\ UNCHANGED <<hist, lastLoaded, pending, conf, received, pc, loc, open>>

(* PUT /admin/v1/server-data/configuration: a flag changes at any moment.  *)
Configure ==
    /\ \E flag \in Configurable : conf' = [conf EXCEPT ![flag] = ~@]
    /\ UNCHANGED <<data, pending, received, pc, loc, open, ghosts>>

receive(w) ==
    \/ FindMissing(w) \/ FindHistory(w) \/ FindState(w) \/ FindVars(w)
    \/ Match(w) \/ NoMatch(w)
    \/ LoadGet(w) \/ LoadPush(w) \/ LoadAdd(w) \/ LoadLast(w)
    \/ RegisterPending(w) \/ StoreGet(w) \/ StoreSet(w)
    \/ PurgeGet(w) \/ Purge(w)

Remove(a) ==
    \/ RemoveGet(a) \/ RemoveEvent(a) \/ RemoveNothing(a) \/ RemoveSize(a)
    \/ RemoveKey(a) \/ ClearAll(a)

Next ==
    \/ \E w \in Workers : Receive(w) \/ receive(w)
    \/ \E r \in open : streamClose(r)
    \/ \E a \in Removers : Remove(a)
    \/ Configure

Spec == Init /\ [][Next]_vars

-----------------------------------------------------------------------------
(* The events a reader of the map finds under a key.                       *)
Visible(k) == IF map[k] = NoHistory THEN <<>> ELSE hist[map[k]].evs

(* "discard=false&discardKeyHistory=false: everything is stored": an event *)
(* that loadEvent has put into the store and nobody has removed is there.  *)
EverythingStored ==
    \A p \in stored : \E i \in DOMAIN Visible(p[1]) : Visible(p[1])[i].recv = p[2]

(* "By design, there are no keys without history": a thread that takes the *)
(* state of the last event finds one.                                      *)
NoEmptyHistoryRead ==
    \A w \in Workers : pc[w] = "state" => hist[loc[w].ref].evs # <<>>

(* "the last request for an specific key, is used to know the state": the  *)
(* event at the back of a key's history, whose state the next request      *)
(* gets, is the last one loaded for the key.                               *)
LatestDecidesState ==
    \A k \in Keys :
      (latest[k] # 0 /\ Visible(k) # <<>> /\ \A t \in Threads : loc[t].target # k)
         => Back(Visible(k)).recv = latest[k]

(* Threads that do not work on the same key at the same time see the store *)
(* of events as EventHistories promises it, although every operation is    *)
(* several steps of the map and of a history.                              *)
VisibleChain(k) ==
    IF Visible(k) = <<>> THEN 0 ELSE hist[map[k]].chain

Histories ==
    INSTANCE EventHistories WITH
      Events <- Events, Chains <- 0 .. MaxRecv,
      store <- [k \in Keys |-> Visible(k)],
      chain <- [k \in Keys |-> VisibleChain(k)]

ImplementsEventHistories == Histories!HistoriesSpec
=============================================================================
