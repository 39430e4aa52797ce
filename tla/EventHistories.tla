--------------------------- MODULE EventHistories ---------------------------
(***************************************************************************)
(* What the store of mock events promises: a map from data keys to         *)
(* non-empty histories of events, each with the chain variables of its     *)
(* key, whose operations are atomic.  A key without events is not in the   *)
(* map, which the empty sequence stands for here.                          *)
(*                                                                         *)
(* MockServerData offers these operations as several steps of a map and of *)
(* a history, each under a lock of its own; TrafficServer models them and  *)
(* shows when they implement this specification.                           *)
(***************************************************************************)
EXTENDS Integers, Sequences

CONSTANTS
    Keys,     \* data keys (method and uri)
    Events,   \* what is stored for a request
    Chains    \* values of the chain variables, 0 for none

VARIABLES
    store,    \* [Keys -> Seq(Events)]
    chain     \* [Keys -> Chains]

(* MockEventsHistory::loadEvent: without history the first event is        *)
(* overwritten.                                                            *)
Loaded(evs, e, keep) ==
    IF ~keep /\ Len(evs) # 0 THEN [evs EXCEPT ![1] = e] ELSE Append(evs, e)

(* events_.erase: the event at position i is taken out.                    *)
Erased(evs, i) ==
    [j \in 1 .. Len(evs) - 1 |-> IF j < i THEN evs[j] ELSE evs[j + 1]]

EmptyStore ==
    /\ store = [k \in Keys |-> <<>>]
    /\ chain = [k \in Keys |-> 0]

LoadEvent(k, e, keep) ==
    /\ store' = [store EXCEPT ![k] = Loaded(@, e, keep)]
    /\ UNCHANGED chain

(* MockData::storeChainVariables does nothing for a key not in the map.    *)
StoreChain(k, c) ==
    /\ store[k] # <<>>
    /\ chain' = [chain EXCEPT ![k] = c]
    /\ UNCHANGED store

ClearKey(k) ==
    /\ store' = [store EXCEPT ![k] = <<>>]
    /\ chain' = [chain EXCEPT ![k] = 0]

(* Removing the last event of a key removes the key and its variables.     *)
RemoveEvent(k, i) ==
    /\ i \in 1 .. Len(store[k])
    /\ store' = [store EXCEPT ![k] = Erased(@, i)]
    /\ chain' = [chain EXCEPT ![k] = IF Len(store[k]) = 1 THEN 0 ELSE @]

ClearAll ==
    /\ store' = [k \in Keys |-> <<>>]
    /\ chain' = [k \in Keys |-> 0]

StoreStep ==
    \/ \E k \in Keys, e \in Events, keep \in BOOLEAN : LoadEvent(k, e, keep)
    \/ \E k \in Keys, c \in Chains : StoreChain(k, c)
    \/ \E k \in Keys : ClearKey(k)
    \/ \E k \in Keys : \E i \in 1 .. Len(store[k]) : RemoveEvent(k, i)
    \/ ClearAll

HistoriesSpec == EmptyStore /\ [][StoreStep]_<<store, chain>>
=============================================================================
