--------------------------- MODULE ServerMatching ---------------------------
(***************************************************************************)
(* Which provision a request gets: the matching part of                    *)
(* MyTrafficHttp2Server::receive on the traffic workers, over the server   *)
(* provisions (AdminServerProvisionData: a map, and the order in which the *)
(* keys came, with a lock of its own) and the matching configuration       *)
(* (AdminServerMatchingData), while admin workers load, clear and list     *)
(* them.                                                                   *)
(*                                                                         *)
(* A key is the uri of a provision; method and in-state, which only make   *)
(* it longer, are left out.  A uri is <<path>> or <<path, query>>, a query *)
(* is a sequence of parameters separated by ampersands.                    *)
(***************************************************************************)
EXTENDS Integers, Sequences, FiniteSets

CONSTANTS
    Workers,            \* traffic workers
    Admins,             \* admin workers
    Requests,           \* uris that are requested
    Keys,               \* uris, or patterns, of the provisions
    RegexMatch(_, _),   \* std::regex_match of a uri with a key taken as a pattern
    Replaced(_),        \* std::regex_replace of a uri by rgx and fmt
    MatchingDocs,       \* bodies of POST server-matching
    ProvisionDocs,      \* bodies of POST server-provision: sequences of items
    MaxRequests,        \* bound on the requests received
    MaxOps              \* bound on the admin operations

(* The provision without uri is the one to fall back to.                   *)
Default == <<>>

None == <<"none">>
Nobody == "nobody"

Algorithms == {"FullMatching", "FullMatchingRegexReplace", "RegexMatching"}
Filters == {"Sort", "PassBy", "Ignore"}
Separators == {"Ampersand", "Semicolon"}
Configs == [algorithm: Algorithms, filter: Filters, separator: Separators]

Items == [key: Keys, valid: BOOLEAN, regex: BOOLEAN]

ASSUME MatchingAssumption ==
    /\ Default \in Keys /\ None \notin Keys
    /\ Nobody \notin Admins
    /\ \A u \in Requests : Len(u) \in {1, 2}
    /\ MatchingDocs \subseteq
         [schema: BOOLEAN, algorithm: Algorithms, rgx: {"no", "good", "bad"},
          fmt: BOOLEAN, filter: Filters, separator: Separators]
    /\ ProvisionDocs \subseteq Seq(Items)
    /\ MaxRequests \in Nat /\ MaxOps \in Nat

VARIABLES
    config,      \* AdminServerMatchingData::config_, an immutable snapshot
    provisions,  \* the map: for each key "absent", "plain" or "compiled"
    ordered,     \* ordered_keys_
    writer,      \* rw_mutex_: the admin worker that holds it exclusively
    readers,     \* rw_mutex_: the traffic workers that share it
    pc, req,     \* where each traffic worker is, and its local variables
    apc, job,    \* where each admin worker is, and its operation
    received, ops,
    seen         \* history: what lookups at once would have found meanwhile

store == <<config, provisions, ordered>>
lock == <<writer, readers>>
traffic == <<pc, req, received>>
admin == <<apc, job, ops>>
vars == <<store, lock, traffic, admin, seen>>

Present(k) == k \in Keys /\ provisions[k] # "absent"

Unused == [config |-> config, uri |-> None, next |-> 0, result |-> None]
Nothing == [todo |-> <<>>, regex |-> FALSE, code |-> 0]

Init ==
    /\ config = [algorithm |-> "FullMatching", filter |-> "Sort", separator |-> "Ampersand"]
    /\ provisions = [k \in Keys |-> "absent"]
    /\ ordered = <<>>
    /\ writer = Nobody /\ readers = {}
    /\ pc = [w \in Workers |-> "idle"] /\ req = [w \in Workers |-> Unused]
    /\ apc = [a \in Admins |-> "idle"] /\ job = [a \in Admins |-> Nothing]
    /\ received = 0 /\ ops = 0
    /\ seen = [w \in Workers |-> [specific |-> {}, default |-> {}]]

-----------------------------------------------------------------------------
(* extractQueryParameters: the parameters in the order of their names; a   *)
(* repeated one empties the query, and with the other separator the query  *)
(* is a single parameter.                                                  *)
Names(q) == {q[i] : i \in DOMAIN q}

Normalized(separator, q) ==
    IF separator = "Semicolon" THEN q
    ELSE IF Cardinality(Names(q)) < Len(q) THEN <<>>
    ELSE CHOOSE s \in [DOMAIN q -> Names(q)] : \A i, j \in DOMAIN q : i < j => s[i] < s[j]

(* The classification uri of a request under a configuration.              *)
Filtered(c, u) ==
    IF Len(u) = 1 \/ c.filter = "Ignore" THEN <<u[1]>>
    ELSE IF c.filter = "PassBy" THEN u
    ELSE <<u[1], Normalized(c.separator, u[2])>>

ClassificationUri(c, u) ==
    IF c.algorithm = "FullMatchingRegexReplace"
      THEN Replaced(Filtered(c, u)) ELSE Filtered(c, u)

Go(w, stage, r) ==
    /\ pc' = [pc EXCEPT ![w] = stage]
    /\ req' = [req EXCEPT ![w] = r]

(* What the variables hold.                                                *)
Uris == {ClassificationUri(c, u) : c \in Configs, u \in Requests}

TypeOK ==
    /\ config \in Configs
    /\ provisions \in [Keys -> {"absent", "plain", "compiled"}]
    /\ ordered \in Seq(Keys)
    /\ writer \in Admins \cup {Nobody} /\ readers \subseteq Workers
    /\ pc \in [Workers -> {"idle", "find", "search", "fallback", "done"}]
    /\ req \in [Workers -> [config: Configs, uri: Uris \cup {None}, next: Nat,
                            result: Keys \cup {None}]]
    /\ apc \in [Admins -> {"idle", "load", "add", "clear"}]
    /\ job \in [Admins -> [todo: Seq(Items), regex: BOOLEAN,
                           code: {0, 200, 201, 204, 400}]]

(* A request is received: the configuration is taken once.                 *)
Receive(w) ==
    /\ pc[w] \in {"idle", "done"}
    /\ received < MaxRequests
    /\ received' = received + 1
    /\ \E u \in Requests :
         Go(w, "find", [Unused EXCEPT !.uri = ClassificationUri(config, u)])
    /\ UNCHANGED <<store, lock, admin>>

(* Mutant: the algorithm is that of the current configuration.             *)
FindCurrent(w) ==
    /\ pc[w] = "find" /\ config.algorithm # "RegexMatching"
    /\ IF Present(req[w].uri)
         THEN Go(w, "done", [req[w] EXCEPT !.result = req[w].uri])
         ELSE Go(w, "fallback", req[w])
    /\ UNCHANGED <<store, lock, received, admin>>

(* AdminServerProvisionData::find: one operation of the map.               *)
Find(w) ==
    /\ pc[w] = "find" /\ req[w].config.algorithm # "RegexMatching"
    /\ IF Present(req[w].uri)
         THEN Go(w, "done", [req[w] EXCEPT !.result = req[w].uri])
         ELSE Go(w, "fallback", req[w])
    /\ UNCHANGED <<store, lock, received, admin>>

(* findRegexMatching: the keys in their order, with the lock shared.       *)
LockShared(w) ==
    /\ pc[w] = "find" /\ req[w].config.algorithm = "RegexMatching"
    /\ writer = Nobody
    /\ readers' = readers \cup {w}
    /\ Go(w, "search", [req[w] EXCEPT !.next = 1])
    /\ UNCHANGED <<store, writer, received, admin>>

(* A provision that was loaded under another algorithm has no pattern.     *)
Matches(k, u) == provisions[k] = "compiled" /\ RegexMatch(k, u)

Search(w) ==
    /\ pc[w] = "search"
    /\ \/ /\ req[w].next > Len(ordered)
          /\ readers' = readers \ {w}
          /\ Go(w, "fallback", req[w])
       \/ /\ req[w].next <= Len(ordered)
          /\ Matches(ordered[req[w].next], req[w].uri)
          /\ readers' = readers \ {w}
          /\ Go(w, "done", [req[w] EXCEPT !.result = ordered[req[w].next]])
       \/ /\ req[w].next <= Len(ordered)
          /\ ~Matches(ordered[req[w].next], req[w].uri)
          /\ Go(w, "search", [req[w] EXCEPT !.next = @ + 1])
          /\ UNCHANGED readers
    /\ UNCHANGED <<store, writer, received, admin>>

(* The default provision, in a lookup of its own.                          *)
Fallback(w) ==
    /\ pc[w] = "fallback"
    /\ Go(w, "done", [req[w] EXCEPT !.result = IF Present(Default) THEN Default ELSE None])
    /\ UNCHANGED <<store, lock, received, admin>>

-----------------------------------------------------------------------------
Operate(a) ==
    /\ apc[a] = "idle"
    /\ ops < MaxOps
    /\ ops' = ops + 1

Answer(a, code) ==
    /\ apc' = [apc EXCEPT ![a] = "idle"]
    /\ job' = [job EXCEPT ![a] = [Nothing EXCEPT !.code = code]]

(* AdminServerMatchingData::load: rgx compiles if it is there, and both    *)
(* rgx and fmt are there for the replacement, none of them otherwise.      *)
Coherent(m) ==
    /\ m.schema /\ m.rgx # "bad"
    /\ IF m.algorithm = "FullMatchingRegexReplace"
         THEN m.rgx = "good" /\ m.fmt
         ELSE m.rgx = "no" /\ ~m.fmt

PostMatching(a) ==
    /\ Operate(a)
    /\ \E m \in MatchingDocs :
         \/ /\ Coherent(m)
            /\ config' = [algorithm |-> m.algorithm, filter |-> m.filter,
                          separator |-> m.separator]
            /\ Answer(a, 201)
         \/ /\ ~Coherent(m)
            /\ Answer(a, 400)
            /\ UNCHANGED config
    /\ UNCHANGED <<provisions, ordered, lock, traffic>>

(* The algorithm is looked at once for all items of a document.            *)
PostProvisions(a) ==
    /\ Operate(a)
    /\ \E doc \in ProvisionDocs :
         job' = [job EXCEPT ![a] = [todo |-> doc, code |-> 0,
                                    regex |-> config.algorithm = "RegexMatching"]]
    /\ apc' = [apc EXCEPT ![a] = "load"]
    /\ UNCHANGED <<store, lock, traffic>>

(* The schema, or AdminServerProvision::load: the key compiles if it is to *)
(* be a pattern.                                                           *)
Loads(a, item) == item.valid /\ (job[a].regex => item.regex)

(* An item that does not load ends the operation; the ones before it stay. *)
LoadFails(a) ==
    /\ apc[a] = "load" /\ job[a].todo # <<>>
    /\ ~Loads(a, Head(job[a].todo))
    /\ Answer(a, 400)
    /\ UNCHANGED <<store, lock, traffic, ops>>

LockExclusive(a) ==
    /\ writer = Nobody /\ readers = {}
    /\ writer' = a
    /\ UNCHANGED readers

(* Mutant: a key that is loaded again is pushed again.                     *)
PushKeyAgain(a) ==
    /\ apc[a] = "load" /\ job[a].todo # <<>>
    /\ Loads(a, Head(job[a].todo))
    /\ LockExclusive(a)
    /\ ordered' = Append(ordered, Head(job[a].todo).key)
    /\ apc' = [apc EXCEPT ![a] = "add"]
    /\ UNCHANGED <<config, provisions, traffic, job, ops>>

(* loadSingle, with the lock: a new key goes to the end of the order ...   *)
PushKey(a) ==
    /\ apc[a] = "load" /\ job[a].todo # <<>>
    /\ Loads(a, Head(job[a].todo))
    /\ LockExclusive(a)
    /\ LET k == Head(job[a].todo).key
       IN  ordered' = IF Present(k) THEN ordered ELSE Append(ordered, k)
    /\ apc' = [apc EXCEPT ![a] = "add"]
    /\ UNCHANGED <<config, provisions, traffic, job, ops>>

(* ... and the provision into the map, where find() may see it before the  *)
(* lock is released.                                                       *)
AddProvision(a) ==
    /\ apc[a] = "add"
    /\ provisions' = [provisions EXCEPT ![Head(job[a].todo).key] =
                        IF job[a].regex THEN "compiled" ELSE "plain"]
    /\ writer' = Nobody
    /\ job' = [job EXCEPT ![a].todo = Tail(@)]
    /\ apc' = [apc EXCEPT ![a] = "load"]
    /\ UNCHANGED <<config, ordered, readers, traffic, ops>>

LoadEnd(a) ==
    /\ apc[a] = "load" /\ job[a].todo = <<>>
    /\ Answer(a, 201)
    /\ UNCHANGED <<store, lock, traffic, ops>>

(* Mutant: the map is cleared first, and without waiting for the readers.  *)
ClearKeysUnlocked(a) ==
    /\ Operate(a)
    /\ writer = Nobody /\ writer' = a
    /\ provisions' = [k \in Keys |-> "absent"]
    /\ apc' = [apc EXCEPT ![a] = "clear"]
    /\ UNCHANGED <<config, ordered, readers, traffic, job>>

(* DELETE server-provision: the order and the map, with the lock.          *)
ClearKeys(a) ==
    /\ Operate(a)
    /\ LockExclusive(a)
    /\ ordered' = <<>>
    /\ apc' = [apc EXCEPT ![a] = "clear"]
    /\ UNCHANGED <<config, provisions, traffic, job>>

ClearMap(a) ==
    /\ apc[a] = "clear"
    /\ provisions' = [k \in Keys |-> "absent"]
    /\ writer' = Nobody
    /\ Answer(a, IF \E k \in Keys : Present(k) THEN 200 ELSE 204)
    /\ UNCHANGED <<config, ordered, readers, traffic, ops>>

(* GET server-provision: asJsonString, with the lock shared.               *)
List(a) ==
    /\ Operate(a)
    /\ writer = Nobody
    /\ Answer(a, IF config.algorithm = "RegexMatching"
                   THEN IF ordered = <<>> THEN 204 ELSE 200
                   ELSE IF \E k \in Keys : Present(k) THEN 200 ELSE 204)
    /\ UNCHANGED <<store, lock, traffic>>

-----------------------------------------------------------------------------
(* What a lookup of the request's uri would find now, were it one step.    *)
Now(w) ==
    LET u == req[w].uri
        hits == {i \in DOMAIN ordered : Matches(ordered[i], u)}
    IN  IF req[w].config.algorithm # "RegexMatching"
          THEN IF Present(u) THEN u ELSE None
          ELSE IF hits = {} THEN None
          ELSE ordered[CHOOSE i \in hits : \A j \in hits : i <= j]

Observe ==
    seen' = [w \in Workers |->
               IF pc'[w] = "idle" THEN seen[w]
               ELSE IF pc[w] # "find" /\ pc'[w] = "find"
                 THEN [specific |-> {Now(w)'}, default |-> {Present(Default)'}]
                 ELSE [specific |-> seen[w].specific \cup {Now(w)'},
                       default |-> seen[w].default \cup {Present(Default)'}]]

receive(w) == Find(w) \/ LockShared(w) \/ Search(w) \/ Fallback(w)

operation(a) == LoadFails(a) \/ PushKey(a) \/ AddProvision(a) \/ LoadEnd(a) \/ ClearMap(a)

Request(a) == PostMatching(a) \/ PostProvisions(a) \/ ClearKeys(a) \/ List(a)

Next ==
    /\ \/ \E w \in Workers : Receive(w) \/ receive(w)
       \/ \E a \in Admins : Request(a) \/ operation(a)
    /\ Observe

Spec == Init /\ [][Next]_vars

-----------------------------------------------------------------------------
(* ordered_keys_ is the map's own set of keys, each once, whenever the     *)
(* lock is free: "we always have both lists available".                    *)
OrderConsistent ==
    writer = Nobody =>
      /\ \A i, j \in DOMAIN ordered : i # j => ordered[i] # ordered[j]
      /\ \A k \in Keys : Present(k) <=> \E i \in DOMAIN ordered : ordered[i] = k

(* findRegexMatching uses what get() returns without a test: the keys it   *)
(* has still to look at are in the map, whatever is cleared meanwhile.     *)
SearchNeverNull ==
    \A w \in Workers : pc[w] = "search" =>
      \A i \in req[w].next .. Len(ordered) : Present(ordered[i])

(* "The incoming URI is tested against them sequentially. First match      *)
(* wins." (docs/api/README.md:251)  The provision a request gets is the    *)
(* one a lookup at one moment would have found, under the configuration    *)
(* the request started with; or it is the default, or none, and there was  *)
(* a moment without a match.                                               *)
ClassificationIsAtomic ==
    \A w \in Workers : pc[w] = "done" =>
      LET r == req[w].result
      IN  \/ r # None /\ r \in seen[w].specific
          \/ r \in {Default, None} /\ None \in seen[w].specific
             /\ (r = Default) \in seen[w].default
=============================================================================
