----------------------------- MODULE ClientChain -----------------------------
(***************************************************************************)
(* A client flow: MyAdminHttp2Server::sendClientRequest sends the request  *)
(* of a provision, and its callback, on the thread of the connection,      *)
(* stores the event in MockClientData and goes on with the provision whose *)
(* in-state is the out-state, or purges the events of the chain.           *)
(*                                                                         *)
(* Chains run concurrently with each other and with the administrator, who *)
(* deletes and adds provisions and recreates the endpoint.  Transformation *)
(* is reduced to its outcome: an error, the data key of the request, the   *)
(* out-state, the validation of the response.                              *)
(***************************************************************************)
EXTENDS Integers, Sequences, FiniteSets

CONSTANTS
    Chains,        \* triggered flows, each named by its (positive) sequence
    Keys,          \* data keys: endpoint, method and uri
    KeysOf,        \* [Chains -> SUBSET Keys]: keys the requests of a flow have
    Outs,          \* [in-states -> SUBSET out-states] of the provisions
    SingleShot,    \* flows triggered with ?sequence=N, the others by a tick
    KeepHistory,   \* client_data_key_history_
    AdminOps,      \* what the administrator may do meanwhile
    MaxAdmin       \* bound on the administrative operations

States == DOMAIN Outs
OutStates == UNION {Outs[s] : s \in States}

ASSUME ChainAssumption ==
    /\ Chains \subseteq Nat \ {0}
    /\ KeysOf \in [Chains -> SUBSET Keys]
    /\ "initial" \in States /\ "purge" \notin States
    /\ SingleShot \subseteq Chains /\ KeepHistory \in BOOLEAN
    /\ AdminOps \subseteq {"clear", "add", "endpoint"} /\ MaxAdmin \in Nat

HistoryIds == 1 .. Cardinality(Keys) + Cardinality(Chains)
NoHistory == 0

VARIABLES
    provisions,  \* in-states that have a provision
    pseq,        \* seq_ of the provisions
    endpoint,    \* the current object of the endpoint
    sendSeq,     \* send_seq_ of each endpoint object
    map, hist,   \* MockClientData: keys to histories, histories to events
    pc, loc,     \* where each chain is, and its local variables
    admin,       \* administrative operations so far
    mixed        \* history: chains that sent with the sequence of another one

data == <<map, hist>>
config == <<provisions, endpoint, admin>>
vars == <<config, pseq, sendSeq, data, pc, loc, mixed>>

Versions == 0 .. MaxAdmin

(* given is the sequence handed to sendClientRequest, 0 for none (-1 in    *)
(* the code); own are the purgeKeys; todo those still to be purged.        *)
Unused == [in |-> "initial", out |-> "", given |-> 0, version |-> 0, key |-> "",
           send |-> 0, valid |-> TRUE, own |-> <<>>, todo |-> <<>>,
           ref |-> NoHistory, purged |-> FALSE]

Stages == {"idle", "send", "wait", "load", "purge", "erase", "size", "drop", "done"}

TypeOK ==
    /\ provisions \subseteq States
    /\ pseq \in [States -> Chains \cup {0}]
    /\ map \in [Keys -> HistoryIds \cup {NoHistory}]
    /\ \A h \in HistoryIds : \A i \in DOMAIN hist[h] :
         hist[h][i].chain \in Chains /\ hist[h][i].send > 0
    /\ pc \in [Chains -> Stages]
    /\ \A c \in Chains :
         /\ pc[c] \in {"wait", "load"} => loc[c].key \in KeysOf[c]
         /\ pc[c] \in {"erase", "size", "drop"} =>
              loc[c].ref \in HistoryIds /\ loc[c].todo # <<>>

Init ==
    /\ provisions \in SUBSET States
    /\ pseq = [s \in States |-> 0]
    /\ endpoint = 0
    /\ sendSeq = [v \in Versions |-> 0]
    /\ map = [k \in Keys |-> NoHistory]
    /\ hist = [h \in HistoryIds |-> <<>>]
    /\ pc = [c \in Chains |-> "idle"]
    /\ loc = [c \in Chains |-> Unused]
    /\ admin = 0
    /\ mixed = {}

-----------------------------------------------------------------------------
Go(c, stage, l) ==
    /\ pc' = [pc EXCEPT ![c] = stage]
    /\ loc' = [loc EXCEPT ![c] = l]

Done(c) == Go(c, "done", [loc[c] EXCEPT !.ref = NoHistory, !.todo = <<>>])

(* The flow is triggered: ?sequence=N sets the provision's sequence, a     *)
(* tick hands over the one it captured.                                    *)
Trigger(c) ==
    /\ pc[c] = "idle"
    /\ "initial" \in provisions
    /\ IF c \in SingleShot
         THEN /\ pseq' = [pseq EXCEPT !["initial"] = c]
              /\ Go(c, "send", [Unused EXCEPT !.version = endpoint])
         ELSE /\ Go(c, "send", [Unused EXCEPT !.version = endpoint, !.given = c])
              /\ UNCHANGED pseq
    /\ UNCHANGED <<config, sendSeq, data, mixed>>

(* sendClientRequest: the transformation fails ...                         *)
TransformError(c) ==
    /\ pc[c] = "send"
    /\ Done(c)
    /\ UNCHANGED <<config, pseq, sendSeq, data, mixed>>

(* ... or the request is sent, with the sequence handed over or else the   *)
(* current one of the provision.                                           *)
Send(c) ==
    /\ pc[c] = "send"
    /\ LET l == loc[c]
           used == IF l.given # 0 THEN l.given ELSE pseq[l.in]
           send == sendSeq[l.version] + 1
       IN  /\ sendSeq' = [sendSeq EXCEPT ![l.version] = send]
           /\ mixed' = IF used = c THEN mixed ELSE mixed \cup {c}
           /\ \E k \in KeysOf[c], out \in Outs[l.in] :
                Go(c, "wait", [l EXCEPT !.given = used, !.send = send, !.key = k,
                                        !.out = out])
    /\ UNCHANGED <<config, pseq, data>>

(* The callback: a transport error or a timeout breaks the chain and       *)
(* nothing is stored ...                                                   *)
TransportError(c) ==
    /\ pc[c] = "wait"
    /\ Done(c)
    /\ UNCHANGED <<config, pseq, sendSeq, data, mixed>>

(* ... an answer is transformed and validated by the provision, if it is   *)
(* still there ...                                                         *)
Response(c) ==
    /\ pc[c] = "wait"
    /\ IF loc[c].in \in provisions
         THEN \E out \in Outs[loc[c].in], valid \in BOOLEAN :
                Go(c, "load", [loc[c] EXCEPT !.out = out, !.valid = valid])
         ELSE Go(c, "load", [loc[c] EXCEPT !.valid = TRUE])
    /\ UNCHANGED <<config, pseq, sendSeq, data, mixed>>

Event(c) == [send |-> loc[c].send, chain |-> c]

Loaded(evs, e) ==
    IF ~KeepHistory /\ Len(evs) # 0 THEN [evs EXCEPT ![1] = e] ELSE Append(evs, e)

Fresh == CHOOSE h \in HistoryIds : /\ \A k \in Keys : map[k] # h
                                   /\ \A c \in Chains : loc[c].ref # h

(* Mutant: the key is looked up and a new history added whatever is there. *)
LoadEventAlwaysNew(c) ==
    /\ hist' = [hist EXCEPT ![Fresh] = <<Event(c)>>]
    /\ map' = [map EXCEPT ![loc[c].key] = Fresh]

(* MockClientData::loadEvent: one operation of the map.                    *)
LoadEvent(c) ==
    IF map[loc[c].key] # NoHistory
      THEN /\ hist' = [hist EXCEPT ![map[loc[c].key]] = Loaded(@, Event(c))]
           /\ UNCHANGED map
      ELSE /\ hist' = [hist EXCEPT ![Fresh] = Loaded(<<>>, Event(c))]
           /\ map' = [map EXCEPT ![loc[c].key] = Fresh]

(* Mutants: the sequence is not handed to the next step; the purge keys of *)
(* the next step start afresh.                                             *)
ProgressNoSequence(c) ==
    LET l == [loc[c] EXCEPT !.own = Append(@, <<loc[c].key, loc[c].send>>)] IN
      IF l.valid /\ l.out # l.in /\ l.out \in provisions
        THEN /\ pseq' = [pseq EXCEPT ![l.out] = l.given]
             /\ Go(c, "send", [l EXCEPT !.in = l.out, !.out = "", !.given = 0])
        ELSE Done(c) /\ UNCHANGED pseq

ProgressForgetsKeys(c) ==
    LET l == [loc[c] EXCEPT !.own = <<<<loc[c].key, loc[c].send>>>>] IN
      IF l.valid /\ l.out = "purge"
        THEN Go(c, "purge", [l EXCEPT !.todo = l.own]) /\ UNCHANGED pseq
        ELSE IF l.valid /\ l.out # l.in /\ l.out \in provisions
          THEN /\ pseq' = [pseq EXCEPT ![l.out] = l.given]
               /\ Go(c, "send", [l EXCEPT !.in = l.out, !.out = ""])
          ELSE Done(c) /\ UNCHANGED pseq

(* After the event is stored: a response that is not valid ends the chain, *)
(* "purge" purges, another state that has a provision goes on with it.     *)
Progress(c) ==
    LET l == [loc[c] EXCEPT !.own = Append(@, <<loc[c].key, loc[c].send>>)] IN
      \/ /\ l.valid /\ l.out = "purge"
         /\ Go(c, "purge", [l EXCEPT !.todo = Append(l.own, <<l.key, l.send>>)])
         /\ UNCHANGED pseq
      \/ /\ l.valid /\ l.out # "purge" /\ l.out # l.in /\ l.out \in provisions
         /\ pseq' = [pseq EXCEPT ![l.out] = l.given]
         /\ Go(c, "send", [l EXCEPT !.in = l.out, !.out = ""])
      \/ /\ ~l.valid \/ (l.out # "purge" /\ (l.out = l.in \/ l.out \notin provisions))
         /\ Go(c, "done", l)
         /\ UNCHANGED pseq

Callback(c) ==
    /\ pc[c] = "load"
    /\ LoadEvent(c)
    /\ Progress(c)
    /\ UNCHANGED <<config, sendSeq, mixed>>

-----------------------------------------------------------------------------
(* removeEventBySendSeq for each purge key: the history is looked up ...   *)
NextPurge(c) == [loc[c] EXCEPT !.todo = Tail(@), !.ref = NoHistory]

PurgeGet(c) ==
    /\ pc[c] = "purge" /\ loc[c].todo # <<>>
    /\ LET h == map[Head(loc[c].todo)[1]] IN
         IF h = NoHistory
           THEN Go(c, "purge", NextPurge(c))
           ELSE Go(c, "erase", [loc[c] EXCEPT !.ref = h])
    /\ UNCHANGED <<config, pseq, sendSeq, data, mixed>>

Erased(evs, i) ==
    [j \in 1 .. Len(evs) - 1 |-> IF j < i THEN evs[j] ELSE evs[j + 1]]

(* Mutant: an event that is not there is waited for.                       *)
PurgeEraseWaits(c) ==
    /\ pc[c] = "erase"
    /\ LET h == loc[c].ref IN
         \E i \in DOMAIN hist[h] :
           /\ hist[h][i].send = Head(loc[c].todo)[2]
           /\ hist' = [hist EXCEPT ![h] = Erased(@, i)]
    /\ Go(c, "size", loc[c])
    /\ UNCHANGED <<config, pseq, sendSeq, map, mixed>>

(* ... the first event with that number is erased ...                      *)
PurgeErase(c) ==
    /\ pc[c] = "erase"
    /\ LET h == loc[c].ref
           hits == {i \in DOMAIN hist[h] : hist[h][i].send = Head(loc[c].todo)[2]}
       IN  IF hits = {}
             THEN Go(c, "purge", NextPurge(c)) /\ UNCHANGED hist
             ELSE /\ LET i == CHOOSE n \in hits : \A j \in hits : n <= j
                     IN  hist' = [hist EXCEPT ![h] = Erased(@, i)]
                  /\ Go(c, "size", loc[c])
    /\ UNCHANGED <<config, pseq, sendSeq, map, mixed>>

(* ... and the key of an empty history goes.                               *)
PurgeSize(c) ==
    /\ pc[c] = "size"
    /\ IF hist[loc[c].ref] = <<>>
         THEN Go(c, "drop", loc[c])
         ELSE Go(c, "purge", NextPurge(c))
    /\ UNCHANGED <<config, pseq, sendSeq, data, mixed>>

PurgeKey(c) ==
    /\ pc[c] = "drop"
    /\ map' = [map EXCEPT ![Head(loc[c].todo)[1]] = NoHistory]
    /\ Go(c, "purge", NextPurge(c))
    /\ UNCHANGED <<config, pseq, sendSeq, hist, mixed>>

PurgeEnd(c) ==
    /\ pc[c] = "purge" /\ loc[c].todo = <<>>
    /\ Go(c, "done", [loc[c] EXCEPT !.purged = TRUE])
    /\ UNCHANGED <<config, pseq, sendSeq, data, mixed>>

-----------------------------------------------------------------------------
(* The administrator deletes the provisions, adds one, or deletes the      *)
(* endpoint and adds it again.                                             *)
ClearProvisions ==
    /\ "clear" \in AdminOps
    /\ provisions' = {}
    /\ UNCHANGED <<pseq, endpoint>>

AddProvision ==
    /\ "add" \in AdminOps
    /\ \E s \in States \ provisions :
         /\ provisions' = provisions \cup {s}
         /\ pseq' = [pseq EXCEPT ![s] = 0]
    /\ UNCHANGED endpoint

RecreateEndpoint ==
    /\ "endpoint" \in AdminOps
    /\ endpoint' = endpoint + 1
    /\ UNCHANGED <<provisions, pseq>>

Administer ==
    /\ admin < MaxAdmin
    /\ admin' = admin + 1
    /\ ClearProvisions \/ AddProvision \/ RecreateEndpoint
    /\ UNCHANGED <<sendSeq, data, pc, loc, mixed>>

Step(c) ==
    \/ TransformError(c) \/ Send(c) \/ TransportError(c) \/ Response(c) \/ Callback(c)
    \/ PurgeGet(c) \/ PurgeErase(c) \/ PurgeSize(c) \/ PurgeKey(c) \/ PurgeEnd(c)

Next ==
    \/ \E c \in Chains : Trigger(c) \/ Step(c)
    \/ Administer

Spec == Init /\ [][Next]_vars

(* The threads run, and every request ends: with an answer, an error of    *)
(* the connection or a timeout.                                            *)
FairSpec == Spec /\ \A c \in Chains : WF_vars(Step(c))

-----------------------------------------------------------------------------
Visible(k) == IF map[k] = NoHistory THEN <<>> ELSE hist[map[k]]

Stored(c, k, send) ==
    \E i \in DOMAIN Visible(k) : Visible(k)[i] = [send |-> send, chain |-> c]

(* No other flow has requests with this key.                               *)
Private(c, k) == \A d \in Chains \ {c} : k \notin KeysOf[d]

(* "Incomplete chains retain their full event history": what a chain has   *)
(* stored stays until the chain itself purges.  Only for keys no other     *)
(* flow uses: removeEventBySendSeq drops the key of a history it saw empty *)
(* although another chain has stored an event meanwhile.                   *)
IncompleteRetained ==
    \A c \in Chains :
      (pc[c] \in {"send", "wait", "load", "done"} /\ ~loc[c].purged) =>
        \A i \in DOMAIN loc[c].own :
          LET e == loc[c].own[i] IN Private(c, e[1]) => Stored(c, e[1], e[2])

(* "purge clears all events accumulated during the chain": a chain that    *)
(* has purged has left nothing behind.  Flows that share a key have to be  *)
(* of one endpoint object, whose send sequence names their events.         *)
PurgeClearsChain ==
    \A c \in Chains : (loc[c].purged /\ \A d \in Chains : loc[d].version = loc[c].version) =>
      \A k \in Keys : \A i \in DOMAIN Visible(k) : Visible(k)[i].chain # c

(* Every request of a ticked chain carries the sequence it was triggered   *)
(* with, although the provisions' own sequence is shared by all chains.    *)
(* A single shot reads that shared one back, and may find another's.       *)
SequenceAsTriggered == mixed \subseteq SingleShot

(* A triggered chain ends: self-loops are cut, a provision deleted in      *)
(* flight, a failed validation or a transport error breaks it.             *)
EveryChainEnds == \A c \in Chains : pc[c] = "send" ~> pc[c] = "done"
==============================================================================
