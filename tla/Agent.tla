------------------------------- MODULE Agent -------------------------------
(***************************************************************************)
(* The process: main() reads the command line, creates the parts of the    *)
(* agent, hands them to each other, loads the files given, starts the      *)
(* admin and the traffic server, and waits.  The requests of AdminServer   *)
(* are served from then on.  An error, or a signal (handled by the main    *)
(* thread, which is the one the system picks), runs stopAgent().           *)
(***************************************************************************)
EXTENDS AdminServer

VARIABLES
    main,     \* where the main thread is
    parts,    \* the objects that exist
    refs,     \* [server -> the parts it has been given]
    serving,  \* the servers that take requests
    stopped,  \* what stop() has been called for
    given     \* history: the parts the admin server had when a file was loaded

process == <<main, parts, refs, serving, stopped, given>>
agentVars == <<vars, process>>

General == {"timers", "configuration", "vault", "files", "sockets"}
MockParts == {"serverData", "clientData", "wait", "sse"}
Servers == {"admin", "traffic"}

\* What the handlers of each server follow without a check.
Needed ==
    [admin |-> General \cup MockParts, traffic |-> {"serverData", "clientData", "vault", "adminData", "trigger"}]

-----------------------------------------------------------------------------
(* Creation, in the order of main().                                       *)

Main(from, to) == main = from /\ main' = to
Give(server, what) == refs' = [refs EXCEPT ![server] = @ \cup what]

readCommandLine ==
    /\ main = "parse" /\ UNCHANGED <<vars, parts, refs, serving, stopped, given>>
    /\ \/ Refuses(setup.options, LogLevels) /\ main' = "stop"
       \/ ~Refuses(setup.options, LogLevels) /\ main' = "metrics"
       \/ EmptyHistogram(setup.options) /\ main' = "crashed"

\* The prometheus exposer may fail to bind.
startMetrics ==
    /\ main = "metrics" /\ UNCHANGED <<vars, refs, serving, stopped, given>>
    /\ IF configuration(setup.options).disableMetrics THEN UNCHANGED parts ELSE parts' = parts \cup {"metrics"}
    /\ \/ main' = "admin"
       \/ ~configuration(setup.options).disableMetrics /\ main' = "stop"

createAdmin ==
    /\ Main("admin", "pool") /\ UNCHANGED <<vars, serving, stopped, given>>
    /\ parts' = parts \cup {"admin"}
    /\ Give("admin", General)

createPool ==
    /\ Main("pool", "mock") /\ UNCHANGED <<vars, serving, stopped, given>>
    /\ IF poolThreads(setup.options, setup.nproc) > 0
       THEN parts' = parts \cup {"pool"} /\ Give("admin", {"pool"})
       ELSE UNCHANGED <<parts, refs>>

MockOnlyForTraffic ==   \* Mutant: without traffic server the admin server gets no mock data.
    /\ Main("mock", "traffic") /\ UNCHANGED <<vars, serving, stopped, given>>
    /\ parts' = parts \cup MockParts
    /\ IF trafficServerEnabled(setup.options) THEN Give("admin", MockParts) ELSE UNCHANGED refs
createMock ==
    /\ Main("mock", "traffic") /\ UNCHANGED <<vars, serving, stopped, given>>
    /\ parts' = parts \cup MockParts
    /\ Give("admin", MockParts)

createTraffic ==
    /\ Main("traffic", "schemaFile") /\ UNCHANGED <<vars, serving, stopped, given>>
    /\ IF trafficServerEnabled(setup.options)
       THEN parts' = parts \cup {"traffic"} /\ Give("traffic", {"serverData", "clientData", "vault"})
       ELSE UNCHANGED <<parts, refs>>

-----------------------------------------------------------------------------
(* The files.  The result of a load is a status code taken for a boolean,  *)
(* so a refused file goes unnoticed: only what precedes the refused        *)
(* element is loaded.                                                      *)

Documents(name) == IF name \in DOMAIN setup.files /\ setup.files[name].kind # "invalid"
                   THEN setup.files[name].docs ELSE <<>>
Prefix(docs, Loads(_)) ==
    LET bad == SelectInSeq(docs, LAMBDA d : ~Loads(d)) IN IF bad = 0 THEN docs ELSE SubSeq(docs, 1, bad - 1)
Accepted(provisions) == Prefix(provisions, LAMBDA p : p.ok)

loadSchemaFile ==
    /\ Main("schemaFile", "matchingFile") /\ given' = given \cup {refs.admin}
    /\ LET good == Prefix(Documents("schema"), SchemaDocAccepted) IN
       db' = [db EXCEPT !.schema = FoldLeft(LAMBDA f, e : Put(f, e.id, e.schema), @, good)]
    /\ UNCHANGED <<setup, heap, settings, events, program, job, answer, sent, running, ghosts>>
    /\ UNCHANGED <<parts, refs, serving, stopped>>

\* Matching, server provisions and the flags of the server: only with a traffic server.
loadServerFiles ==
    /\ Main("matchingFile", "flags") /\ given' = given \cup {refs.admin}
    /\ LET matching == Prefix(Documents("server-matching"), MatchingAccepted)
           algorithm == IF matching = <<>> THEN db.matching ELSE matching[1].algorithm
           docs == Documents("server-provision")
           loaded == [i \in DOMAIN docs |-> loadServerProvision(docs[i], algorithm = "RegexMatching")] IN
       IF ~trafficServerEnabled(setup.options) THEN UNCHANGED <<db, excused>>
       ELSE /\ db' = FoldLeft(AddServerProvision, [db EXCEPT !.matching = algorithm], Accepted(loaded))
            /\ excused' = [excused EXCEPT !.server = DOMAIN db'.server]
    /\ UNCHANGED <<setup, heap, settings, events, program, job, answer, sent, running, warned, raced>>
    /\ UNCHANGED <<parts, refs, serving, stopped>>

setServerFlags ==
    /\ Main("flags", "endpointFile")
    /\ settings' = IF ~trafficServerEnabled(setup.options) THEN settings ELSE
          [settings EXCEPT
             !.receiveBody = ~Given(setup.options, "traffic-server-ignore-request-body"),
             !.reserveBody = ~Given(setup.options, "traffic-server-dynamic-request-body-allocation"),
             !.server = [store |-> ~discardData(setup.options), history |-> ~discardDataKeyHistory(setup.options),
                         purge |-> ~Given(setup.options, "disable-purge")]]
    /\ UNCHANGED <<setup, db, heap, events, program, job, answer, sent, running, ghosts>>
    /\ UNCHANGED <<parts, refs, serving, stopped, given>>

\* One element of the endpoint file: a new object, or the same one with a new address.
EndpointLoaded(acc, e) ==
    LET new == NewEndpoint(e)
        ready == IF Lazy THEN new ELSE Connected(new)
        known == new.id \in DOMAIN acc.endpoint
        object == IF known THEN acc.endpoint[new.id] ELSE Len(acc.heap) + 1
    IN  IF ~known THEN [heap |-> Append(acc.heap, ready), endpoint |-> Put(acc.endpoint, new.id, object)]
        ELSE IF Address(acc.heap[object]) = Address(new) THEN acc
        ELSE [acc EXCEPT !.heap[object] = IF Lazy THEN [new EXCEPT !.conn = acc.heap[object].conn] ELSE ready]
loadEndpointFile ==
    /\ Main("endpointFile", "clientFile") /\ given' = given \cup {refs.admin}
    /\ LET good == Prefix(Documents("client-endpoint"), LAMBDA j : EndpointAccepted(j) /\ NewEndpoint(j).ok)
           loaded == FoldLeft(EndpointLoaded, [heap |-> heap, endpoint |-> db.endpoint], good) IN
       /\ heap' = loaded.heap
       /\ db' = [db EXCEPT !.endpoint = loaded.endpoint]
    /\ UNCHANGED <<setup, settings, events, program, job, answer, sent, running, ghosts>>
    /\ UNCHANGED <<parts, refs, serving, stopped>>

loadClientFile ==
    /\ Main("clientFile", "vaultFile") /\ given' = given \cup {refs.admin}
    /\ LET docs == Documents("client-provision")
           loaded == [i \in DOMAIN docs |-> loadClientProvision(docs[i])] IN
       db' = FoldLeft(LAMBDA d, p : SetResources(AddClientProvision(d, p), d.made + 1), db, Accepted(loaded))
    /\ UNCHANGED <<setup, heap, settings, events, program, job, answer, sent, running, ghosts>>
    /\ UNCHANGED <<parts, refs, serving, stopped>>

loadVaultFile ==
    /\ Main("vaultFile", "associate") /\ given' = given \cup {refs.admin}
    /\ LET good == Prefix(Documents("vault"), VaultAccepted) IN
       db' = [db EXCEPT !.vault = FoldLeft(LAMBDA v, e : e @@ v, @, good)]
    /\ UNCHANGED <<setup, heap, settings, events, program, job, answer, sent, running, ghosts>>
    /\ UNCHANGED <<parts, refs, serving, stopped>>

associate ==
    /\ Main("associate", "serve") /\ UNCHANGED <<vars, parts, serving, stopped, given>>
    /\ IF trafficServerEnabled(setup.options) THEN Give("traffic", {"adminData", "trigger"}) ELSE UNCHANGED refs

-----------------------------------------------------------------------------
(* Serving and stopping.                                                   *)

\* The two serving threads; a server that cannot bind its port returns at once.
Started == {s \in Servers : s \in parts}
serve ==
    /\ Main("serve", "check") /\ UNCHANGED <<vars, parts, refs, stopped, given>>
    /\ serving' = Started \cap setup.binds
checkServing ==
    /\ main = "check" /\ UNCHANGED <<vars, parts, refs, serving, stopped, given>>
    /\ main' = IF serving = Started THEN "wait" ELSE "stop"

Handled == {"metrics", "admin", "pool", "mock", "traffic", "schemaFile", "matchingFile", "flags", "endpointFile",
            "clientFile", "vaultFile", "associate", "serve", "check", "wait"}
sighndl ==
    /\ setup.signal /\ main \in Handled /\ main' = "stop"
    /\ UNCHANGED <<vars, parts, refs, serving, stopped, given>>

\* stopAgent: everything that runs is stopped, and then everything is deleted.
ForgetsTraffic == <<"timers", "pool", "admin">>   \* Mutant: the traffic server is not stopped.
StopOrder == <<"timers", "pool", "admin", "traffic">>
DeleteOrder == <<"serverData", "wait", "sse", "metrics", "traffic", "admin", "files", "sockets", "vault",
                 "configuration", "timers", "pool">>
stopAgent ==
    LET left == SelectSeq(StopOrder, LAMBDA p : p \in parts /\ p \notin stopped)
        kept == SelectSeq(DeleteOrder, LAMBDA p : p \in parts) IN
    /\ main = "stop" /\ UNCHANGED <<vars, refs, given>>
    /\ IF left # <<>>
       THEN /\ stopped' = stopped \cup {Head(left)} /\ serving' = serving \ {Head(left)}
            /\ UNCHANGED <<main, parts>>
       ELSE /\ UNCHANGED <<stopped, serving>>
            /\ IF kept # <<>> THEN parts' = parts \ {Head(kept)} /\ UNCHANGED main
               ELSE main' = "exited" /\ UNCHANGED parts

-----------------------------------------------------------------------------
Init ==
    /\ InitAdmin
    /\ main = "parse" /\ parts = General
    /\ refs = [s \in Servers |-> {}] /\ serving = {} /\ stopped = {} /\ given = {}

MainStep ==
    \/ readCommandLine \/ startMetrics \/ createAdmin \/ createPool \/ createMock \/ createTraffic
    \/ loadSchemaFile \/ loadServerFiles \/ setServerFlags \/ loadEndpointFile \/ loadClientFile
    \/ loadVaultFile \/ associate \/ serve \/ checkServing \/ sighndl \/ stopAgent

\* A request is taken by its server while it serves, and carried out unless the
\* data goes (handlers still running at that point are left out).
Serves(t) ==
    /\ job[t] = Idle /\ program[t] # <<>> =>
          IF Head(program[t]).method = "TRIGGER" THEN "traffic" \in serving ELSE "admin" \in serving
    /\ General \cup MockParts \subseteq parts
WorkerStep == \E t \in Threads : Serves(t) /\ Step(t) /\ UNCHANGED process

Finish ==
    /\ \/ main \in {"exited", "crashed"} \/ ~running
       \/ main = "wait" /\ AllIdle /\ \A t \in Threads :
             program[t] # <<>> => Head(program[t]).method = "TRIGGER" /\ "traffic" \notin serving
    /\ UNCHANGED agentVars

Next == MainStep \/ WorkerStep \/ Finish
Spec == Init /\ [][Next]_agentVars

-----------------------------------------------------------------------------
(* A server takes requests only when every pointer its handlers follow has *)
(* been set, and the provisions of the files were given all the parts:     *)
(* main() hands the mock data to the admin server "even when traffic       *)
(* server is disabled" (main.cpp:1146), before it loads the files.         *)
ServesOnlyWired ==
    /\ \A s \in serving : Needed[s] \subseteq refs[s]
    /\ \A had \in given : Needed.admin \subseteq had

(* stopAgent() deletes nothing that a server which still takes requests    *)
(* has been given, at whatever point of the start a signal or an error     *)
(* came.                                                                   *)
StoppedBeforeDeleted ==
    main = "stop" => \A s \in serving : Needed[s] \subseteq parts \cup {"adminData", "trigger"}

(* A loss of events that active provisions ask for is reported to an       *)
(* administrator: when no request is in progress and a side does not store *)
(* the events its provisions need, some response since that came about     *)
(* carries the warning, in whatever order the POST, PUT and DELETE         *)
(* requests of several administrators interleave.  Excused are provisions  *)
(* of files and of requests that were refused, which warn of nothing.      *)
SilentLossIsWarned ==
    AllIdle => \A side \in Sides :
        Losing(side) /\ excused[side] = {} => side \in warned

(* Once no request is in progress, the connection of every registered      *)
(* endpoint goes to the address the endpoint has: "host, port or secure    *)
(* changes implies re-creation for the client connection id"               *)
(* (AdminClientEndpointData.cpp:89), however the updates of several        *)
(* administrators and the requests that connect by themselves interleave.  *)
(* Left out are lazy connections, where an old one stays, and an update in *)
(* the very moment another thread is making a client, which nothing locks. *)
ConnectionFollowsEndpoint ==
    AllIdle /\ ~Lazy => \A id \in DOMAIN db.endpoint :
        LET e == heap[db.endpoint[id]]
        IN  db.endpoint[id] \in raced \/ e.conn \in {NoConnection, Address(e)}

(* An item of an active provision is what the form of its source and the   *)
(* form of its target in the schema stand for: the first row of the        *)
(* loader's tables that is hit never belongs to another form, although the *)
(* dots of its regular expressions match any character.                    *)
ItemsReadAsDocumented ==
    /\ \A k \in DOMAIN db.server : \A i \in DOMAIN db.server[k].items :
          ReadAsDocumented(db.server[k].items[i], ServerSources, ServerTargets)
    /\ \A k \in DOMAIN db.client :
          /\ \A i \in DOMAIN db.client[k].items :
                ReadAsDocumented(db.client[k].items[i], ClientSources, ClientTargets)
          /\ \A i \in DOMAIN db.client[k].responseItems :
                ReadAsDocumented(db.client[k].responseItems[i], ResponseSources, ResponseTargets)

(* The queries on the stored events agree after any deletions: a key that  *)
(* is listed has events, numbers from both ends address the same event,    *)
(* and the windows before and after a moment share the exchanges of the    *)
(* whole sequence without losing or repeating a half of one.               *)
QueriesAgree ==
    \A side \in Sides :
        LET store == events[side]
            All(from, to) == Halves(store, from, to, "", {UriOf(k) : k \in DOMAIN store}, "first", "second")
            At1(k, kind, n) == getEvent(store, [key |-> k, path |-> "", number |-> [kind |-> kind, digits |-> n]])
        IN  /\ \A k \in DOMAIN store :
                  /\ store[k] # <<>>
                  /\ \A n \in DOMAIN store[k] :
                        At1(k, "digits", n) = At1(k, "minus", Len(store[k]) - n + 1) /\ At1(k, "digits", n) # {}
            /\ \A e \in All(0, 0) :
                  /\ All(1, e.t) \cap All(e.t + 1, 0) = {}
                  /\ All(1, e.t) \cup All(e.t + 1, 0) = All(0, 0)
            /\ summary(store, NoNumber).totalEvents = Cardinality({e \in All(0, 0) : e.direction = "first"})

(* The variables have the values the code gives them.                      *)
TypeOK ==
    /\ \A t \in Threads : job[t].pc \in {"idle", "POST", "GET", "PUT", "DELETE", "matching", "schema", "vault",
          "server", "client", "resources", "needs", "stored", "endpoint", "register", "host", "rest", "drop",
          "connect", "keep", "discarded", "find", "locate", "transform", "send"}
    /\ Range(db.order) = DOMAIN db.server /\ Len(db.order) = Cardinality(DOMAIN db.server)
    /\ \A id \in DOMAIN db.endpoint : heap[db.endpoint[id]].id = id
    /\ db.wired \subseteq 1 .. db.made
    /\ warned \subseteq Sides /\ serving \subseteq parts
    /\ main \in Handled \cup {"parse", "stop", "exited", "crashed"}
=============================================================================
