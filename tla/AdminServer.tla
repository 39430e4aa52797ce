---------------------------- MODULE AdminServer ----------------------------
(***************************************************************************)
(* MyAdminHttp2Server: the requests of the administrative interface, taken *)
(* by concurrent worker threads, and the data they load, list, configure   *)
(* and delete.  A thread carries out its requests one after another, and   *)
(* other threads run between any two accesses to shared data.  A thread    *)
(* also stands for a worker of the traffic server that triggers a client   *)
(* provision (method "TRIGGER").                                           *)
(*                                                                         *)
(* A request has a method, a path suffix, a query (a function on the names *)
(* given) and a body: [kind |-> "invalid" | "object" | "array", docs].     *)
(***************************************************************************)
EXTENDS ItemLoading, EventQueries, CommandLine

CONSTANTS
    Threads,    \* the worker threads
    Scenarios,  \* groups of what is requested of an agent (programs, options, events)
    LogLevels,  \* the levels the logger knows
    BadSchemas  \* documents that are no JSON schema

VARIABLES
    setup,     \* the scenario
    db,        \* AdminData and the vault
    heap,      \* the client endpoint objects ever made
    settings,  \* what PUT requests configure
    events,    \* MockServerData and MockClientData
    program,   \* [Threads -> requests still to come]
    job,       \* [Threads -> the request being carried out]
    answer,    \* [Threads -> the last response]
    sent,      \* the client requests sent: [object, address]
    running,   \* FALSE once a null pointer has been followed
    warned,    \* history: sides whose silent loss has been reported
    excused,   \* history: provisions made active by a request that was refused
    raced      \* history: endpoints updated while a client towards the old address was being made

ghosts == <<warned, excused, raced>>
data == <<db, heap, settings, events>>
vars == <<setup, data, program, job, answer, sent, running, ghosts>>

Empty == <<>>
EmptyData == [schema |-> Empty, matching |-> "FullMatching", server |-> Empty, order |-> <<>>,
              client |-> Empty, endpoint |-> Empty, vault |-> Empty,
              made |-> 0, wired |-> {}]  \* client provision objects, and those with their resources
Storing == [store |-> TRUE, history |-> TRUE, purge |-> TRUE]
Defaults == [server |-> Storing, client |-> Storing, receiveBody |-> TRUE, reserveBody |-> TRUE,
             readCache |-> TRUE, level |-> "Warning"]

Put(f, k, v) == (k :> v) @@ f
Idle == [pc |-> "idle"]
None == [code |-> 0, warning |-> FALSE, content |-> <<>>]

Sides == {"server", "client"}
Lazy == configuration(setup.options).lazyClientConnection

-----------------------------------------------------------------------------
(* Loading one document.                                                   *)

\* The schemas of the documents.
SchemaOfSchema(j) == DOMAIN j = {"id", "schema"}
SchemaOfVault(j) == \A k \in DOMAIN j : k \notin setup.dotted
SchemaOfMatching(j) ==
    /\ "algorithm" \in DOMAIN j /\ DOMAIN j \subseteq {"algorithm", "rgx", "fmt", "uriPathQueryParameters"}
    /\ "uriPathQueryParameters" \in DOMAIN j =>
         LET q == j.uriPathQueryParameters IN
         /\ "filter" \in DOMAIN q /\ q.filter \in {"Sort", "PassBy", "Ignore"}
         /\ Get(q, "separator", "Ampersand") \in {"Ampersand", "Semicolon"}
    /\ j.algorithm \in {"FullMatching", "FullMatchingRegexReplace", "RegexMatching"}

\* JsonSchema::setJson
setJson(schema) == schema \notin BadSchemas
SchemaDocAccepted(j) == SchemaOfSchema(j) /\ setJson(j.schema)

\* AdminServerMatchingData::load
MatchingAccepted(j) ==
    /\ SchemaOfMatching(j)
    /\ Get(j, "rgx", "") \notin BadRegexes
    /\ IF j.algorithm = "FullMatchingRegexReplace" THEN {"rgx", "fmt"} \subseteq DOMAIN j
       ELSE {"rgx", "fmt"} \cap DOMAIN j = {}

EndpointAccepted(j) ==
    /\ {"id", "host", "port"} \subseteq DOMAIN j
    /\ DOMAIN j \subseteq {"id", "host", "port", "secure", "permit"}
    /\ NoHash(j, {"id"}) /\ j.port \in 0 .. 65536

\* AdminClientEndpoint::load on a new object, which refuses empty names.
NoConnection == <<>>
NewEndpoint(j) ==
    [ok |-> j.id # "" /\ j.host # "", id |-> j.id, host |-> j.host, port |-> j.port,
     secure |-> Get(j, "secure", FALSE), permit |-> Get(j, "permit", TRUE), conn |-> NoConnection]
Address(e) == <<e.host, e.port, e.secure>>

VaultAccepted(j) == SchemaOfVault(j)

\* AdminServerProvisionData::loadSingle; a key already there keeps its place in the order.
AddServerProvision(d, p) ==
    [d EXCEPT !.server = Put(@, p.key, p), !.order = IF p.key \in DOMAIN d.server THEN @ ELSE Append(@, p.key)]

\* AdminClientProvisionData::loadSingle: added first, given its resources afterwards.
AddClientProvision(d, p) ==
    [d EXCEPT !.client = Put(@, p.key, p @@ [object |-> d.made + 1]), !.made = @ + 1]
SetResources(d, object) == [d EXCEPT !.wired = @ \cup {object}]

\* connect(): clients that are missing are created, towards the address of the object.
Connected(e) == IF e.conn = NoConnection THEN [e EXCEPT !.conn = Address(e)] ELSE e

-----------------------------------------------------------------------------
(* Storage warnings.                                                       *)

serverNeeds == \E k \in DOMAIN db.server : serverNeedsStorage(db.server[k])
clientNeeds == \E k \in DOMAIN db.client : clientNeedsStorage(db.client[k])
Needs(side) == IF side = "server" THEN serverNeeds ELSE clientNeeds

\* Events that active provisions ask for are not stored.
Losing(side) == Needs(side) /\ ~settings[side].store

\* A report holds as long as the loss it is about.
Reported(side, told) == {s \in warned \cup (IF told THEN {side} ELSE {}) : Losing(s)'}

-----------------------------------------------------------------------------
(* Steps of a thread.                                                      *)

Goto(t, fields) == job' = [job EXCEPT ![t] = fields @@ @]
Respond(t, code, warning, content) ==
    /\ answer' = [answer EXCEPT ![t] = [code |-> code, warning |-> warning, content |-> content]]
    /\ job' = [job EXCEPT ![t] = Idle]
At(t, pc) == running /\ job[t].pc = pc
Quiet == UNCHANGED <<program, sent, running>>

\* checkMethodIsAllowed, checkHeaders and the dispatch of receive().
Allowed(r) == r.method \in {"POST", "GET", "DELETE", "PUT"}
checkHeaders(r) ==
    \/ r.method # "POST"
    \/ IF r.type # "none" THEN r.type = "json" ELSE r.length # 0
PostPaths == {"server-matching", "server-provision", "client-endpoint", "client-provision", "schema", "vault"}
\* The path behind /admin/v1/, without a slash at its end.
getPathSuffix(path) ==
    IF path # "" /\ SubSeq(path, Len(path), Len(path)) = "/" THEN SubSeq(path, 1, Len(path) - 1) ELSE path
receive(t) ==
    /\ At(t, "idle") /\ program[t] # <<>>
    /\ \E r \in {[Head(program[t]) EXCEPT !.path = getPathSuffix(@)]} :
       /\ program' = [program EXCEPT ![t] = Tail(@)]
       /\ UNCHANGED <<setup, data, sent, running, ghosts>>
       /\ CASE r.method = "TRIGGER" -> Goto(t, [pc |-> "find", r |-> r]) /\ UNCHANGED answer
            [] r.method # "TRIGGER" /\ (~Allowed(r) \/ ~checkHeaders(r)) -> Respond(t, 405, FALSE, <<>>)
            [] Allowed(r) /\ checkHeaders(r) /\ r.path = "" -> Respond(t, 400, FALSE, <<>>)
            [] OTHER -> Goto(t, [pc |-> r.method, r |-> r]) /\ UNCHANGED answer

Body(t) == job[t].r.body

\* receivePOST: documents that cannot be parsed, unknown operations, and the others.
Route(path) ==
    CASE path = "server-matching" -> "matching"
      [] path = "server-provision" -> "server"
      [] path = "client-endpoint" -> "endpoint"
      [] path = "client-provision" -> "client"
      [] path = "schema" -> "schema"
      [] path = "vault" -> "vault"
receivePOST(t) ==
    /\ At(t, "POST") /\ UNCHANGED <<setup, data, ghosts>> /\ Quiet
    /\ LET path == job[t].r.path IN
       IF Body(t).kind = "invalid" THEN Respond(t, 400, FALSE, <<>>)
       ELSE IF path \notin PostPaths THEN Respond(t, 501, FALSE, <<>>)
       ELSE /\ Goto(t, [pc |-> Route(path), i |-> 1, keys |-> {}, accepted |-> FALSE,
                        regex |-> db.matching = "RegexMatching"])
            /\ UNCHANGED answer

Doc(t) == Body(t).docs[job[t].i]
Finished(t) == job[t].i > Len(Body(t).docs)

serverMatching(t) ==
    /\ At(t, "matching") /\ Quiet /\ UNCHANGED <<setup, heap, settings, events, ghosts>>
    /\ IF MatchingAccepted(Doc(t)) /\ Body(t).kind = "object"
       THEN db' = [db EXCEPT !.matching = Doc(t).algorithm] /\ Respond(t, 201, FALSE, <<>>)
       ELSE Respond(t, 400, FALSE, <<>>) /\ UNCHANGED db

loadSchema(t) ==
    IF ~SchemaDocAccepted(Doc(t)) THEN Respond(t, 400, FALSE, <<>>) /\ UNCHANGED db
    ELSE /\ db' = [db EXCEPT !.schema = Put(@, Doc(t).id, Doc(t).schema)]
         /\ Goto(t, [i |-> job[t].i + 1]) /\ UNCHANGED answer
schema(t) ==
    /\ At(t, "schema") /\ Quiet /\ UNCHANGED <<setup, heap, settings, events, ghosts>>
    /\ IF Finished(t) THEN Respond(t, 201, FALSE, <<>>) /\ UNCHANGED db ELSE loadSchema(t)

vault(t) ==
    /\ At(t, "vault") /\ Quiet /\ UNCHANGED <<setup, heap, settings, events, ghosts>>
    /\ IF Body(t).kind = "object" /\ VaultAccepted(Doc(t))
       THEN db' = [db EXCEPT !.vault = Doc(t) @@ @] /\ Respond(t, 201, FALSE, <<>>)
       ELSE Respond(t, 400, FALSE, <<>>) /\ UNCHANGED db

\* Provisions, one element after another until one is refused.
loadServerElement(t) ==
    \E p \in {loadServerProvision(Doc(t), job[t].regex)} :
        IF ~p.ok
        THEN /\ Respond(t, 400, FALSE, <<>>) /\ UNCHANGED db
             /\ excused' = [excused EXCEPT !.server = @ \cup job[t].keys]
        ELSE /\ db' = AddServerProvision(db, p)
             /\ Goto(t, [i |-> job[t].i + 1, keys |-> job[t].keys \cup {p.key}])
             /\ UNCHANGED <<answer, excused>>
serverProvision(t) ==
    /\ At(t, "server") /\ Quiet /\ UNCHANGED <<setup, heap, settings, events, raced>>
    /\ IF Finished(t) THEN Goto(t, [pc |-> "needs", side |-> "server"]) /\ UNCHANGED <<db, answer, excused>>
       ELSE loadServerElement(t)
    /\ warned' = Reported("server", FALSE)

loadClientElement(t) ==
    \E p \in {loadClientProvision(Doc(t))} :
        IF ~p.ok
        THEN /\ Respond(t, 400, FALSE, <<>>) /\ UNCHANGED db
             /\ excused' = [excused EXCEPT !.client = @ \cup job[t].keys]
        ELSE /\ db' = AddClientProvision(db, p)
             /\ Goto(t, [pc |-> "resources", object |-> db.made + 1, keys |-> job[t].keys \cup {p.key}])
             /\ UNCHANGED <<answer, excused>>
clientProvision(t) ==
    /\ At(t, "client") /\ Quiet /\ UNCHANGED <<setup, heap, settings, events, raced>>
    /\ IF Finished(t) THEN Goto(t, [pc |-> "needs", side |-> "client"]) /\ UNCHANGED <<db, answer, excused>>
       ELSE loadClientElement(t)
    /\ warned' = Reported("client", FALSE)

setClientResources(t) ==
    /\ At(t, "resources") /\ Quiet /\ UNCHANGED <<setup, heap, settings, events, answer, ghosts>>
    /\ db' = SetResources(db, job[t].object)
    /\ Goto(t, [pc |-> "client", i |-> job[t].i + 1])

\* needsStorage() && ... && !isDataStored(), after all elements are in.
checkNeeds(t) ==
    /\ At(t, "needs") /\ Quiet /\ UNCHANGED <<setup, data, answer, ghosts>>
    /\ Goto(t, [pc |-> "stored", needs |-> Needs(job[t].side)])
HasStorage(side) == side = "client" \/ trafficServerEnabled(setup.options)
checkStored(t) ==
    /\ At(t, "stored") /\ Quiet /\ UNCHANGED <<setup, data, raced>>
    /\ LET side == job[t].side
           told == job[t].needs /\ HasStorage(side) /\ ~settings[side].store IN
       /\ Respond(t, 201, told, <<>>)
       /\ excused' = [excused EXCEPT ![side] = @ \ job[t].keys]
       /\ warned' = Reported(side, told)

-----------------------------------------------------------------------------
(* Client endpoints.  An object is looked up, and only then added or       *)
(* updated, field by field.                                                *)

loadEndpointElement(t) ==
    IF ~EndpointAccepted(Doc(t)) \/ ~NewEndpoint(Doc(t)).ok
    THEN Respond(t, 400, FALSE, <<>>) /\ UNCHANGED heap
    ELSE LET e == NewEndpoint(Doc(t)) IN
         /\ UNCHANGED answer
         /\ IF e.id \notin DOMAIN db.endpoint
            THEN heap' = Append(heap, e) /\ Goto(t, [pc |-> "register", object |-> Len(heap) + 1])
            ELSE /\ UNCHANGED heap
                 /\ LET object == db.endpoint[e.id] IN
                    IF Address(heap[object]) # Address(e)
                    THEN Goto(t, [pc |-> "host", object |-> object])
                    ELSE Goto(t, [i |-> job[t].i + 1])  \* nothing is updated
clientEndpoint(t) ==
    /\ At(t, "endpoint") /\ Quiet /\ UNCHANGED <<setup, db, settings, events, ghosts>>
    /\ IF Finished(t)
       THEN Respond(t, IF job[t].accepted THEN 202 ELSE 201, FALSE, <<>>) /\ UNCHANGED heap
       ELSE loadEndpointElement(t)

register(t) ==
    /\ At(t, "register") /\ Quiet /\ UNCHANGED <<setup, heap, settings, events, answer, ghosts>>
    /\ db' = [db EXCEPT !.endpoint = Put(@, heap[job[t].object].id, job[t].object)]
    /\ Goto(t, IF Lazy THEN [pc |-> "endpoint", i |-> job[t].i + 1] ELSE [pc |-> "connect"])

Same(t, e) == heap' = [heap EXCEPT ![job[t].object] = e]
Making(o) == \E t \in Threads : job[t].pc = "keep" /\ job[t].object = o
Racing(t, before) == raced' = before \cup ({job[t].object} \cap {o \in DOMAIN heap : Making(o)})
loadHost(t) ==
    /\ At(t, "host") /\ Quiet /\ UNCHANGED <<setup, db, settings, events, answer, warned, excused>>
    /\ Racing(t, raced)
    /\ Same(t, [heap[job[t].object] EXCEPT !.host = Doc(t).host])
    /\ Goto(t, [pc |-> "rest"])
loadRest(t) ==
    /\ At(t, "rest") /\ Quiet /\ UNCHANGED <<setup, db, settings, events, answer, warned, excused>>
    /\ Racing(t, raced)
    /\ LET e == NewEndpoint(Doc(t))
       IN  Same(t, [heap[job[t].object] EXCEPT !.port = e.port, !.secure = e.secure, !.permit = e.permit])
    /\ Goto(t, IF Lazy THEN [pc |-> "endpoint", i |-> job[t].i + 1, accepted |-> TRUE]
                ELSE [pc |-> "drop"])

\* connect(true): the clients are dropped, and created again.
KeepClients(t) ==   \* Mutant: connect(false)
    /\ At(t, "drop") /\ Quiet /\ UNCHANGED <<setup, data, answer, warned, excused>>
    /\ Racing(t, raced)
    /\ Goto(t, [pc |-> "connect", accepted |-> TRUE])
dropClients(t) ==
    /\ At(t, "drop") /\ Quiet /\ UNCHANGED <<setup, db, settings, events, answer, warned, excused>>
    /\ Racing(t, raced \ {job[t].object})
    /\ Same(t, [heap[job[t].object] EXCEPT !.conn = NoConnection])
    /\ Goto(t, [pc |-> "connect", accepted |-> TRUE])
\* connect(): a client that is missing is made with the address read now, and then kept.
After(t) == IF "p" \in DOMAIN job[t] THEN [pc |-> "send"] ELSE [pc |-> "endpoint", i |-> job[t].i + 1]
connect(t) ==
    /\ At(t, "connect") /\ Quiet /\ UNCHANGED <<setup, data, answer, ghosts>>
    /\ LET e == heap[job[t].object]
       IN  Goto(t, IF e.conn = NoConnection THEN [pc |-> "keep", client |-> Address(e)] ELSE After(t))
keepClient(t) ==
    /\ At(t, "keep") /\ Quiet /\ UNCHANGED <<setup, db, settings, events, answer, ghosts>>
    /\ Same(t, [heap[job[t].object] EXCEPT !.conn = job[t].client])
    /\ Goto(t, After(t))

-----------------------------------------------------------------------------
(* receivePUT                                                              *)

Flag(q, name) == Get(q, name, "") = "true"
Boolean(text) == text \in {"true", "false"}
Asked(q, names) == \E n \in names : Get(q, n, "") # ""
DataFlags == {"discard", "discardKeyHistory", "disablePurge"}

putLogging(t) ==
    /\ At(t, "PUT") /\ job[t].r.path = "logging" /\ Quiet /\ UNCHANGED <<setup, db, heap, events, ghosts>>
    /\ LET level == Get(job[t].r.query, "level", "?") IN
       IF level \in LogLevels
       THEN settings' = [settings EXCEPT !.level = level] /\ Respond(t, 200, FALSE, <<>>)
       ELSE UNCHANGED settings /\ Respond(t, 400, FALSE, <<>>)

\* The first flag is set even when the second one is then refused.
putServer(t) ==
    /\ At(t, "PUT") /\ job[t].r.path = "server/configuration" /\ Quiet
    /\ UNCHANGED <<setup, db, heap, events, ghosts>>
    /\ LET q == job[t].r.query
           receives == Get(q, "receiveRequestBody", "")
           reserves == Get(q, "preReserveRequestBody", "")
           first == receives = "" \/ Boolean(receives)
           second == reserves = "" \/ Boolean(reserves) IN
       IF ~trafficServerEnabled(setup.options) THEN UNCHANGED settings /\ Respond(t, 404, FALSE, <<>>)
       ELSE /\ settings' = [settings EXCEPT
                  !.receiveBody = IF Boolean(receives) THEN receives = "true" ELSE @,
                  !.reserveBody = IF first /\ Boolean(reserves) THEN reserves = "true" ELSE @]
            /\ Respond(t, IF (receives # "" \/ reserves # "") /\ first /\ second THEN 200 ELSE 400, FALSE, <<>>)

putFiles(t) ==
    /\ At(t, "PUT") /\ job[t].r.path = "files/configuration" /\ Quiet
    /\ UNCHANGED <<setup, db, heap, events, ghosts>>
    /\ LET cache == Get(job[t].r.query, "readCache", "") IN
       IF Boolean(cache)
       THEN settings' = [settings EXCEPT !.readCache = (cache = "true")] /\ Respond(t, 200, FALSE, <<>>)
       ELSE UNCHANGED settings /\ Respond(t, 400, FALSE, <<>>)

\* <side>-data/configuration: the flags that are given are set ...
SideOf(path) == IF path = "server-data/configuration" THEN "server" ELSE "client"
Incoherent(q) ==
    Get(q, "discard", "") = "true" /\ Get(q, "discardKeyHistory", "") \notin {"", "true"}
NewFlags(f, q) ==
    [store |-> IF Asked(q, {"discard"}) THEN ~Flag(q, "discard") ELSE f.store,
     history |-> IF Asked(q, {"discardKeyHistory"}) THEN ~Flag(q, "discardKeyHistory") ELSE f.history,
     purge |-> IF Asked(q, {"disablePurge"}) THEN ~Flag(q, "disablePurge") ELSE f.purge]
putData(t) ==
    /\ At(t, "PUT") /\ job[t].r.path \in {"server-data/configuration", "client-data/configuration"} /\ Quiet
    /\ UNCHANGED <<setup, db, heap, events, excused, raced>>
    /\ LET q == job[t].r.query
           side == SideOf(job[t].r.path) IN
       IF ~HasStorage(side) THEN UNCHANGED settings /\ Respond(t, 404, FALSE, <<>>)
       ELSE IF ~Asked(q, DataFlags) \/ Incoherent(q) THEN UNCHANGED settings /\ Respond(t, 400, FALSE, <<>>)
       ELSE /\ settings' = [settings EXCEPT ![side] = NewFlags(@, q)]
            /\ IF Flag(q, "discard") THEN Goto(t, [pc |-> "discarded", side |-> side]) /\ UNCHANGED answer
               ELSE Respond(t, 200, FALSE, <<>>)
    /\ warned' = Reported("server", FALSE)

\* ... and then the provisions are asked whether they need what is discarded.
AsksServerSide(t) ==   \* Mutant: the server provisions are asked for both sides.
    /\ At(t, "discarded") /\ Quiet /\ UNCHANGED <<setup, data, excused, raced>>
    /\ Respond(t, 200, Needs("server"), <<>>)
    /\ warned' = Reported(job[t].side, Needs("server"))
checkDiscarded(t) ==
    /\ At(t, "discarded") /\ Quiet /\ UNCHANGED <<setup, data, excused, raced>>
    /\ Respond(t, 200, Needs(job[t].side), <<>>)
    /\ warned' = Reported(job[t].side, Needs(job[t].side))

putUnknown(t) ==
    /\ At(t, "PUT") /\ Quiet /\ UNCHANGED <<setup, data, ghosts>>
    /\ job[t].r.path \notin {"logging", "server/configuration", "files/configuration",
                             "server-data/configuration", "client-data/configuration"}
    /\ Respond(t, 400, FALSE, <<>>)

-----------------------------------------------------------------------------
(* receiveDELETE                                                           *)

Cleared(something) == IF something THEN 200 ELSE 204
EventQuery(q, parts) ==
    [key |-> [i \in DOMAIN parts |-> Get(q, parts[i], "")],
     number |-> Get(q, "eventNumber", NoNumber), path |-> Get(q, "eventPath", "")]
ServerKey == <<"requestMethod", "requestUri">>
ClientKey == <<"clientEndpointId", "requestMethod", "requestUri">>
SideKey(side) == IF side = "server" THEN ServerKey ELSE ClientKey

deleteProvisions(t) ==
    /\ At(t, "DELETE") /\ job[t].r.path \in {"server-provision", "client-provision"} /\ Quiet
    /\ UNCHANGED <<setup, heap, settings, events, raced>>
    /\ LET side == IF job[t].r.path = "server-provision" THEN "server" ELSE "client" IN
       /\ db' = IF side = "server" THEN [db EXCEPT !.server = Empty, !.order = <<>>]
                ELSE [db EXCEPT !.client = Empty]
       /\ Respond(t, Cleared(DOMAIN db[side] # {}), FALSE, <<>>)
       /\ excused' = [excused EXCEPT ![side] = {}]
       /\ warned' = Reported(side, FALSE)

deleteOthers(t) ==
    /\ At(t, "DELETE") /\ job[t].r.path \in {"client-endpoint", "schema"} /\ Quiet
    /\ UNCHANGED <<setup, heap, settings, events, ghosts>>
    /\ LET name == IF job[t].r.path = "schema" THEN "schema" ELSE "endpoint" IN
       /\ db' = [db EXCEPT ![name] = Empty]
       /\ Respond(t, Cleared(DOMAIN db[name] # {}), FALSE, <<>>)

deleteVault(t) ==
    /\ At(t, "DELETE") /\ job[t].r.path = "vault" /\ Quiet
    /\ UNCHANGED <<setup, heap, settings, events, ghosts>>
    /\ LET q == job[t].r.query
           name == Get(q, "name", "") IN
       IF DOMAIN q # {} /\ name = "" THEN UNCHANGED db /\ Respond(t, 400, FALSE, <<>>)
       ELSE IF name = ""
       THEN db' = [db EXCEPT !.vault = Empty] /\ Respond(t, Cleared(DOMAIN db.vault # {}), FALSE, <<>>)
       ELSE db' = [db EXCEPT !.vault = Without(@, name)] /\ Respond(t, Cleared(name \in DOMAIN db.vault), FALSE, <<>>)

deleteData(t) ==
    /\ At(t, "DELETE") /\ job[t].r.path \in {"server-data", "client-data"} /\ Quiet
    /\ UNCHANGED <<setup, db, heap, settings, ghosts>>
    /\ LET side == IF job[t].r.path = "server-data" THEN "server" ELSE "client"
           result == clearEvents(events[side], EventQuery(job[t].r.query, SideKey(side))) IN
       /\ events' = [events EXCEPT ![side] = result.store]
       /\ Respond(t, IF ~result.valid THEN 400 ELSE Cleared(result.deleted), FALSE, <<>>)

deleteUnknown(t) ==
    /\ At(t, "DELETE") /\ Quiet /\ UNCHANGED <<setup, data, ghosts>>
    /\ job[t].r.path \notin {"server-provision", "client-provision", "client-endpoint", "schema", "vault",
                             "server-data", "client-data"}
    /\ Respond(t, 400, FALSE, <<>>)

-----------------------------------------------------------------------------
(* receiveGET: what is shown of the data, and the status code.             *)

Page(code, content) == [code |-> code, content |-> content]
Listing(content, empty) == Page(IF content = empty THEN 204 ELSE 200, content)

SchemaPages == {p \o "/schema" : p \in PostPaths}

\* Under RegexMatching the server provisions are listed in the order they were given.
serverProvisionPage ==
    IF db.matching = "RegexMatching" THEN Listing([i \in DOMAIN db.order |-> db.server[db.order[i]].doc], <<>>)
    ELSE Listing({db.server[k].doc : k \in DOMAIN db.server}, {})
clientProvisionPage == Listing({db.client[k].doc : k \in DOMAIN db.client}, {})
EndpointShown(e) == <<e.id, e.host, e.port, e.secure, e.permit, e.conn # NoConnection>>
endpointPage == Listing({EndpointShown(heap[db.endpoint[id]]) : id \in DOMAIN db.endpoint}, {})
schemaPage == Listing({<<id, db.schema[id]>> : id \in DOMAIN db.schema}, {})

vaultPage(q) ==
    LET name == Get(q, "name", "") IN
    IF DOMAIN q # {} /\ name = "" THEN Page(400, <<>>)
    ELSE IF name = "" THEN Listing({<<k, db.vault[k]>> : k \in DOMAIN db.vault}, {})
    ELSE Listing({<<k, db.vault[k]>> : k \in {name} \cap DOMAIN db.vault}, {})

serverSummaryPage(q) == Page(200, summary(events.server, Get(q, "maxKeys", NoNumber)))
clientSummaryPage(q) == Page(200, summary(events.client, Get(q, "maxKeys", NoNumber)))

\* The regular expression is the set of the uris it finds something in.
UriRegex(q, store) == Get(q, "uriRegex", [compiles |-> TRUE, finds |-> {UriOf(k) : k \in DOMAIN store}])
FromTimestamp(q) == Get(q, "fromTimestampUs", 0)
ToTimestamp(q) == Get(q, "toTimestampUs", 0)
serverSequencePages(q) ==
    LET regex == UriRegex(q, events.server) IN
    IF ~regex.compiles THEN {Page(400, <<>>)}
    ELSE {Listing(s, <<>>) : s \in serverSequence(events.server, FromTimestamp(q), ToTimestamp(q),
                                                  Get(q, "requestMethod", ""), regex.finds)}
clientSequencePages(q) ==
    LET regex == UriRegex(q, events.client) IN
    IF ~regex.compiles THEN {Page(400, <<>>)}
    ELSE {Listing(s, <<>>) : s \in clientSequence(events.client, FromTimestamp(q), ToTimestamp(q),
                                                  Get(q, "requestMethod", ""), regex.finds)}

DataPage(store, q) ==
    LET shown == eventsAsJson(store, q) IN
    IF ~shown.valid THEN Page(400, <<>>)
    ELSE Page(IF DOMAIN shown.histories = {} THEN 204 ELSE 200, <<shown.histories, shown.path>>)
serverDataPage(q) == DataPage(events.server, EventQuery(q, ServerKey))
clientDataPage(q) == DataPage(events.client, EventQuery(q, ClientKey))

\* The configuration pages of the traffic server are missing without one.
serverConfigurationPage ==
    IF trafficServerEnabled(setup.options) THEN Page(200, <<settings.receiveBody, settings.reserveBody>>) ELSE Page(404, <<>>)
serverDataConfigurationPage ==
    IF trafficServerEnabled(setup.options) THEN Page(200, <<settings.server, serverNeeds>>) ELSE Page(404, <<>>)
clientDataConfigurationPage == Page(200, <<settings.client, clientNeeds>>)
configurationShown == configuration(setup.options)
OtherPages ==
    [configuration |-> configurationShown, logging |-> settings.level, health |-> "healthy"]
    @@ ("files/configuration" :> settings.readCache)

Pages(path, q) ==
    CASE path \in SchemaPages -> {Page(200, path)}
      [] path = "server-matching" -> {Page(200, db.matching)}
      [] path = "server-provision" -> {serverProvisionPage}
      [] path = "client-provision" -> {clientProvisionPage}
      [] path = "client-endpoint" -> {endpointPage}
      [] path = "schema" -> {schemaPage}
      [] path = "vault" -> {vaultPage(q)}
      [] path = "server-data" -> {serverDataPage(q)}
      [] path = "client-data" -> {clientDataPage(q)}
      [] path = "server-data/summary" -> {serverSummaryPage(q)}
      [] path = "client-data/summary" -> {clientSummaryPage(q)}
      [] path = "server-data/sequence" -> serverSequencePages(q)
      [] path = "client-data/sequence" -> clientSequencePages(q)
      [] path = "server/configuration" -> {serverConfigurationPage}
      [] path = "server-data/configuration" -> {serverDataConfigurationPage}
      [] path = "client-data/configuration" -> {clientDataConfigurationPage}
      [] path \in DOMAIN OtherPages -> {Page(200, OtherPages[path])}
      [] OTHER -> {Page(400, <<>>)}

receiveGET(t) ==
    /\ At(t, "GET") /\ job[t].r.path # "trigger" /\ Quiet /\ UNCHANGED <<setup, data, ghosts>>
    /\ \E page \in Pages(job[t].r.path, job[t].r.query) : Respond(t, page.code, FALSE, page.content)

-----------------------------------------------------------------------------
(* Client requests, triggered by the administrator (GET                    *)
(* client-provision/<id>, triggerClientOperation without rate) or by a     *)
(* worker of the traffic server (triggerClientProvision).  What is found   *)
(* is held while other threads go on.                                      *)

TriggerKey(r) == <<Get(r.query, "inState", "initial"), r.id>>
Done(t, code) ==
    IF job[t].r.method = "GET" THEN Respond(t, code, FALSE, <<>>)
    ELSE job' = [job EXCEPT ![t] = Idle] /\ UNCHANGED answer

triggerClientOperation(t) ==
    /\ At(t, "GET") /\ job[t].r.path = "trigger" /\ Quiet /\ UNCHANGED <<setup, data, ghosts>>
    /\ LET r == job[t].r
           k == TriggerKey(r) IN
       IF \/ Asked(r.query, {"sequence"}) /\ Asked(r.query, {"sequenceBegin", "sequenceEnd", "cps", "repeat"})
       THEN Respond(t, 400, FALSE, <<>>)
       ELSE IF k \notin DOMAIN db.client THEN Respond(t, 404, FALSE, <<>>)
       ELSE IF Get(r.query, "sequence", "1") \notin {"1", ""} THEN Respond(t, 400, FALSE, <<>>)
       ELSE Goto(t, [pc |-> "locate", p |-> db.client[k]]) /\ UNCHANGED answer

triggerClientProvision(t) ==
    /\ At(t, "find") /\ Quiet /\ UNCHANGED <<setup, data, answer, ghosts>>
    /\ LET k == TriggerKey(job[t].r) IN
       IF k \in DOMAIN db.client THEN Goto(t, [pc |-> "locate", p |-> db.client[k]])
       ELSE job' = [job EXCEPT ![t] = Idle]

locateEndpoint(t) ==
    /\ At(t, "locate") /\ Quiet /\ UNCHANGED <<setup, data, ghosts>>
    /\ LET id == job[t].p.endpoint IN
       IF id \notin DOMAIN db.endpoint THEN Done(t, 404)
       ELSE IF ~heap[db.endpoint[id]].permit THEN Done(t, 403)
       ELSE Goto(t, [pc |-> "transform", object |-> db.endpoint[id]]) /\ UNCHANGED answer

\* Transformation follows the pointers of the resources its items name.
UsesResources(item) ==
    \/ item.source.type \in {"SGVar", "ServerEvent", "ClientEvent", "STxtFile", "SBinFile"}
    \/ item.target.type \in {"TGVar", "TGVarJson_Object", "TGVarJson_JsonString", "TTxtFile", "TBinFile",
                             "UDPSocket", "ServerEventToPurge", "ClientEventToPurge"}
    \/ item.filter.type = "SchemaId"
FollowsPointers(p) == p.schemas[1] # "" \/ \E i \in DOMAIN p.items : UsesResources(p.items[i])
transform(t) ==
    /\ At(t, "transform") /\ UNCHANGED <<setup, data, program, sent, ghosts>>
    /\ LET p == job[t].p IN
       IF FollowsPointers(p) /\ p.object \notin db.wired
       THEN running' = FALSE /\ UNCHANGED <<job, answer>>
       ELSE /\ UNCHANGED running
            /\ \/ Goto(t, [pc |-> "connect"]) /\ UNCHANGED answer
               \/ p.items # <<>> /\ Done(t, 200)  \* an error: nothing is sent

\* getClient() finds none while another thread has just dropped it.
asyncSend(t) ==
    /\ At(t, "send") /\ UNCHANGED <<setup, data, program, ghosts>>
    /\ LET conn == heap[job[t].object].conn IN
       IF conn = NoConnection THEN running' = FALSE /\ UNCHANGED <<job, answer, sent>>
       ELSE sent' = sent \cup {[object |-> job[t].object, to |-> conn]} /\ UNCHANGED running /\ Done(t, 200)

-----------------------------------------------------------------------------
InitAdmin ==
    /\ \E i \in DOMAIN Scenarios : \E k \in DOMAIN Scenarios[i] : setup = Scenarios[i][k]
    /\ db = EmptyData /\ heap = <<>> /\ settings = Defaults /\ events = setup.events
    /\ program = setup.program
    /\ job = [t \in Threads |-> Idle]
    /\ answer = [t \in Threads |-> None]
    /\ sent = {} /\ running = TRUE
    /\ warned = {} /\ excused = [s \in Sides |-> {}] /\ raced = {}

Step(t) ==
    \/ receive(t) \/ receivePOST(t) \/ serverMatching(t) \/ schema(t) \/ vault(t)
    \/ serverProvision(t) \/ clientProvision(t) \/ setClientResources(t) \/ checkNeeds(t) \/ checkStored(t)
    \/ clientEndpoint(t) \/ register(t) \/ loadHost(t) \/ loadRest(t) \/ dropClients(t) \/ connect(t) \/ keepClient(t)
    \/ putLogging(t) \/ putServer(t) \/ putFiles(t) \/ putData(t) \/ checkDiscarded(t) \/ putUnknown(t)
    \/ deleteProvisions(t) \/ deleteOthers(t) \/ deleteVault(t) \/ deleteData(t) \/ deleteUnknown(t)
    \/ receiveGET(t) \/ triggerClientOperation(t) \/ triggerClientProvision(t) \/ locateEndpoint(t)
    \/ transform(t) \/ asyncSend(t)

AllIdle == \A t \in Threads : job[t] = Idle
=============================================================================
