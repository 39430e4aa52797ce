---------------------------- MODULE EventQueries ----------------------------
(***************************************************************************)
(* The queries of the admin interface on the stored events of the mock     *)
(* server and of the mock client (MockData and its keys).  A storage is a  *)
(* function from data keys to histories; a data key is <<method, uri>> on  *)
(* the server side and <<endpoint, method, uri>> on the client side, and   *)
(* an event has the timestamps of its two halves, 0 for one not there yet. *)
(***************************************************************************)
EXTENDS Integers, Sequences, FiniteSets, SequencesExt, FiniteSetsExt

\* string2uint64andSign: a number text is digits, maybe after a '-', or something else.
Number(text) ==
    [given |-> text.kind # "empty", valid |-> text.kind \in {"digits", "minus"},
     value |-> IF text.kind \in {"digits", "minus"} THEN text.digits ELSE 0,
     reverse |-> text.kind = "minus"]
NoNumber == [kind |-> "empty"]

-----------------------------------------------------------------------------
(* DataKey, EventKey, EventLocationKey: the parts of a query that are      *)
(* given; an absent part is the empty string.                              *)

DataKeyEmpty(key) == \A i \in DOMAIN key : key[i] = ""
DataKeyComplete(key) == \A i \in DOMAIN key : key[i] # ""
DataKeySelects(key) == DataKeyComplete(key) \/ DataKeyEmpty(key)

\* The method is the last but one part of the key.
MethodOf(key) == key[Len(key) - 1]
UriOf(key) == key[Len(key)]

EventKeyEmpty(q) == DataKeyEmpty(q.key) /\ ~Number(q.number).given
EventKeyComplete(q) == DataKeyComplete(q.key) /\ Number(q.number).given
EventKeySelects(q) == DataKeySelects(q.key) /\ (Number(q.number).given => MethodOf(q.key) # "")
LocationSelects(q) == EventKeySelects(q) /\ (q.path # "" => Number(q.number).given)

-----------------------------------------------------------------------------
(* MockEventsHistory: events are numbered from 1, from the end in reverse. *)

InHistory(h, n) == n \in 1 .. Len(h)
Position(h, n, reverse) == IF reverse THEN Len(h) - n + 1 ELSE n
Nth(h, n, reverse) == h[Position(h, n, reverse)]
removeEvent(h, n, reverse) == IF InHistory(h, n) THEN RemoveAt(h, Position(h, n, reverse)) ELSE h

Without(store, key) == [k \in DOMAIN store \ {key} |-> store[k]]

\* MockData::clear
NothingCleared(store, valid) == [valid |-> valid, deleted |-> FALSE, store |-> store]
KeepsEmptyHistory(store, q) ==   \* Mutant: the key stays when its last event goes.
    LET n == Number(q.number)
        h == removeEvent(store[q.key], n.value, n.reverse)
    IN  [valid |-> TRUE, deleted |-> h # store[q.key], store |-> [store EXCEPT ![q.key] = h]]
ClearEvent(store, q) ==
    LET n == Number(q.number)
        h == removeEvent(store[q.key], n.value, n.reverse)
    IN  [valid |-> TRUE, deleted |-> h # store[q.key],
         store |-> IF h = <<>> THEN Without(store, q.key) ELSE [store EXCEPT ![q.key] = h]]
clearEvents(store, q) ==
    IF EventKeyEmpty(q) THEN [valid |-> TRUE, deleted |-> DOMAIN store # {}, store |-> <<>>]
    ELSE IF ~EventKeySelects(q) THEN NothingCleared(store, FALSE)
    ELSE IF q.key \notin DOMAIN store THEN NothingCleared(store, TRUE)
    ELSE IF ~Number(q.number).given THEN [valid |-> TRUE, deleted |-> TRUE, store |-> Without(store, q.key)]
    ELSE IF ~Number(q.number).valid THEN NothingCleared(store, FALSE)
    ELSE ClearEvent(store, q)

\* MockData::asJsonString: the histories shown, with the path inside the one event asked for.
Shown(valid, histories, path) == [valid |-> valid, histories |-> histories, path |-> path]
eventsAsJson(store, q) ==
    IF EventKeyEmpty(q) THEN Shown(TRUE, store, "")
    ELSE IF ~LocationSelects(q) THEN Shown(FALSE, <<>>, "")
    ELSE IF q.key \notin DOMAIN store THEN Shown(TRUE, <<>>, "")
    ELSE IF ~Number(q.number).given THEN Shown(TRUE, (q.key :> store[q.key]), "")
    ELSE IF ~Number(q.number).valid THEN Shown(FALSE, <<>>, "")
    ELSE LET n == Number(q.number)
         IN  IF ~InHistory(store[q.key], n.value) THEN Shown(TRUE, <<>>, "")
             ELSE Shown(TRUE, (q.key :> <<Nth(store[q.key], n.value, n.reverse)>>), q.path)

\* MockData::getEvent
getEvent(store, q) ==
    LET n == Number(q.number)
    IN  IF /\ EventKeyComplete(q) /\ q.key \in DOMAIN store
           /\ n.valid /\ InHistory(store[q.key], n.value)
        THEN {Nth(store[q.key], n.value, n.reverse)} ELSE {}

\* MockData::summary: all keys count, at most maxKeys of them are listed.
summary(store, maxKeys) ==
    LET n == Number(maxKeys)
    IN  [totalKeys |-> Cardinality(DOMAIN store),
         totalEvents |-> MapThenSumSet(LAMBDA k : Len(store[k]), DOMAIN store),
         displayed |-> IF n.valid /\ n.value < Cardinality(DOMAIN store) THEN n.value
                       ELSE Cardinality(DOMAIN store)]

-----------------------------------------------------------------------------
(* getSequence: the two halves of each exchange in order of time.          *)

InWindow(t, from, to) == (from = 0 \/ t >= from) /\ (to = 0 \/ t <= to)
Entry(k, i, direction, t) == [key |-> k, event |-> i, direction |-> direction, t |-> t]
Selected(store, method, uris) ==
    {k \in DOMAIN store : (method = "" \/ MethodOf(k) = method) /\ UriOf(k) \in uris}

\* The first half of an exchange always has a timestamp.
Halves(store, from, to, method, uris, first, second) ==
    UNION {{Entry(k, i, first, store[k][i].first) : i \in {n \in DOMAIN store[k] : InWindow(store[k][n].first, from, to)}}
           \cup {Entry(k, i, second, store[k][i].second) :
                    i \in {n \in DOMAIN store[k] : store[k][n].second # 0 /\ InWindow(store[k][n].second, from, to)}}
           : k \in Selected(store, method, uris)}

\* std::sort leaves the order of equal timestamps open.
InTimeOrder(s) == \A i, k \in DOMAIN s : i < k => s[i].t <= s[k].t
serverSequence(store, from, to, method, uris) ==
    {s \in SetToSeqs(Halves(store, from, to, method, uris, "recv", "send")) : InTimeOrder(s)}
clientSequence(store, from, to, method, uris) ==
    {s \in SetToSeqs(Halves(store, from, to, method, uris, "send", "recv")) : InTimeOrder(s)}
=============================================================================
