------------------------------ MODULE UdpTools ------------------------------
(***************************************************************************)
(* The programs around UDP sockets that go with the agent: udp-client      *)
(* generates datagrams, udp-server-h2client ("bridge") makes an HTTP/2     *)
(* request of each and may write a datagram for each response, udp-server  *)
(* shows what it receives.                                                 *)
(*                                                                         *)
(* A text is a sequence of characters and of patterns such as "@{udp}".    *)
(* Pauses between datagrams and delays of requests are any time that       *)
(* passes.  Of the HTTP/2 library it is assumed that a response, a timeout *)
(* or an error is reported once for each request.                          *)
(***************************************************************************)
EXTENDS CommandLine

CONSTANTS
    Setups,       \* what is started: the options of the programs, faults, signals, other datagrams
    Paths,        \* socket paths
    Statuses,     \* what becomes of a request
    LogLevels,    \* the levels the logger knows
    SeqOffset,    \* the patterns of udp-client, and what each adds to the sequence
    PatternOrder, \* the patterns of the bridge, in the order of a map
    MaxWorkers,   \* bound: threads of the bridge, also its hardware concurrency
    MaxSequence,  \* bound: datagrams of an unlimited udp-client
    BufferSize,   \* BUFFER_SIZE
    LastChars,    \* the characters @{udp8} leaves
    LongRange,    \* number of values of an unsigned long long
    QueueSize     \* datagrams a socket keeps until they are read

VARIABLES
    setup,     \* one of Setups
    state,     \* where the main thread of each program is
    name,      \* [Paths -> the program that bound its socket there, or "none"]
    inbox,     \* [Listeners -> the datagrams its socket keeps]
    sequence,  \* [Programs -> the variable of that name]
    datagram,  \* the one udp-client is sending
    others,    \* the ones others have still to send: [path, text]
    buffer,    \* of the bridge, as udpData
    udpData,
    tasks,     \* posted to the workers of the bridge; they hold nothing but their number
    worker,    \* [1 .. MaxWorkers -> the task being run]
    requests,  \* sent by the bridge
    counts,    \* STATUS_CODES_2xx .. CONNECTION_ERRORS
    outputs,   \* being written on the output socket
    arrived,   \* history: what the bridge received
    emitted    \* history: what udp-client sent

toolVars == <<setup, state, name, inbox, sequence, datagram, others, buffer, udpData, tasks, worker, requests,
              counts, outputs, arrived, emitted>>
pool == <<tasks, worker, requests, counts, outputs>>
memory == <<buffer, udpData, arrived>>
generator == <<datagram, emitted>>

Programs == {"client", "bridge", "server"}
Listeners == {"bridge", "server"}
Ended == {"exited", "crashed"}
Eof == <<"E", "O", "F">>
Stats == <<"S", "T", "A", "T", "S">>
Garbage == <<"?">>
Classes == {"2xx", "3xx", "4xx", "5xx", "timeouts", "connection errors"}

-----------------------------------------------------------------------------
(* Command lines.                                                          *)

PathOf(p) == Option(setup[p], "udp-socket-path", "")
OutputPath == Option(setup.bridge, "udp-output-socket-path", "")

NumbersValid(o, names) == \A n \in names \cap DOMAIN o : o[n].valid

clientRefuses(o) ==
    \/ Given(o, "help") \/ ~Given(o, "udp-socket-path")
    \/ ~NumbersValid(o, {"eps", "rampup-seconds", "initial", "final"})
    \/ Given(o, "eps") /\ o["eps"].n = 0
    \/ NumberOption(o, "print-each", 1) <= 0

serverRefuses(o) ==
    \/ Given(o, "help") \/ ~Given(o, "udp-socket-path")
    \/ NumberOption(o, "print-each", 1) <= 0

bridgeRefuses(o) ==
    \/ Given(o, "help") \/ ~Given(o, "udp-socket-path") \/ ~Given(o, "uri")
    \/ ~NumbersValid(o, {"workers", "timeout-milliseconds", "send-delay-milliseconds"})
    \/ NumberOption(o, "workers", MaxWorkers) <= 0
    \/ NumberOption(o, "print-each", 1) <= 0
    \/ Option(o, "log-level", "Warning") \notin LogLevels
    \/ NumberOption(o, "timeout-milliseconds", 5000) < 0

\* The host and the path of a uri.
tokenize(uri) ==
    LET First(t, s) == SelectInSeq(s, LAMBDA x : x = t)
        Before(t, s) == IF First(t, s) = 0 THEN s ELSE SubSeq(s, 1, First(t, s) - 1)
        After(t, s, none) == IF First(t, s) = 0 THEN none ELSE SubSeq(s, First(t, s) + 1, Len(s))
        authorityPath == After("://", uri, uri)
        hostPort == Before("/", authorityPath)
    IN  [host |-> IF hostPort = <<>> THEN uri ELSE Before(":", hostPort),
         path |-> After("/", authorityPath, <<>>)]

-----------------------------------------------------------------------------
(* Substitutions of the bridge.                                            *)

IsPattern(c) == Len(c) > 3 /\ SubSeq(c, 1, 2) = "@{"
VariableOf(pattern) == SubSeq(pattern, 3, Len(pattern) - 1)
collectVariablePatterns(text) == SelectSeq(PatternOrder, LAMBDA p : \E i \in DOMAIN text : text[i] = p)

searchReplaceAll(text, from, to) ==
    FlattenSeq([i \in DOMAIN text |-> IF text[i] = from THEN to ELSE <<text[i]>>])

replaceVariables(text, vars) ==
    FoldLeft(LAMBDA t, p : IF VariableOf(p) \in DOMAIN vars THEN searchReplaceAll(t, p, vars[VariableOf(p)]) ELSE t,
             text, collectVariablePatterns(text))

extractLastNChars(text) == IF Len(text) < LastChars THEN text ELSE SubSeq(text, Len(text) - LastChars + 1, Len(text))

\* The parts of a datagram between its delimiters, if there are any.
Delimiters(data) == SelectSeq([i \in DOMAIN data |-> i], LAMBDA i : data[i] = "|")
PartUpTo(data, i, end) == SubSeq(data, IF i = 1 THEN 1 ELSE Delimiters(data)[i - 1] + 1, end - 1)
ForgetsLatest(data) ==   \* Mutant: the part behind the last delimiter is not added.
    [i \in DOMAIN Delimiters(data) |-> PartUpTo(data, i, Delimiters(data)[i])]
PartsOf(data) ==
    LET cuts == Delimiters(data)
        ends == Append(cuts, Len(data) + 1)
    IN  IF cuts = <<>> THEN <<>> ELSE [i \in DOMAIN ends |-> PartUpTo(data, i, ends[i])]

\* The variables of a datagram.
Numbered(prefix, parts) ==
    [v \in {prefix \o "." \o ToString(i) : i \in DOMAIN parts} |->
        parts[CHOOSE i \in DOMAIN parts : v = prefix \o "." \o ToString(i)]]
setRequest(data) ==
    ("udp" :> data) @@ ("udp8" :> extractLastNChars(data)) @@ Numbered("udp", PartsOf(data))
    @@ Numbered("udp8", [i \in DOMAIN PartsOf(data) |-> extractLastNChars(PartsOf(data)[i])])

\* What the request and the output are made from.
Template(o) ==
    [method |-> Option(o, "method", <<"GET">>), path |-> tokenize(o["uri"]).path, body |-> Option(o, "body", <<>>),
     headers |-> Option(o, "header", <<>>)]
Fields(o, text) == LET vars == setRequest(text)
                   IN  [f \in DOMAIN Template(o) |-> replaceVariables(Template(o)[f], vars)]
OutputTemplate(o) == Option(o, "udp-output-value", <<"@{udp}">>)

getUdpOutputValue(text) == replaceVariables(OutputTemplate(setup.bridge), setRequest(text))

-----------------------------------------------------------------------------
(* Sockets.  A name that is left by a program that has ended, or removed   *)
(* by another one, reaches nobody.                                         *)

Sendto(path, text) ==
    IF name[path] = "none" \/ state[name[path]] \in Ended
      THEN UNCHANGED inbox   \* an error
      ELSE Len(inbox[name[path]]) < QueueSize /\ inbox' = [inbox EXCEPT ![name[path]] = Append(@, text)]

Unlink(paths) == [q \in Paths |-> IF q \in paths THEN "none" ELSE name[q]]
Goto(p, st) == state' = [state EXCEPT ![p] = st]
Received(p) == SubSeq(Head(inbox[p]), 1, IF Len(Head(inbox[p])) < BufferSize THEN Len(Head(inbox[p])) ELSE BufferSize - 1)

\* The start of udp-server: what is in its way is removed.
startServer ==
    /\ state["server"] = "start"
    /\ IF serverRefuses(setup.server) \/ "socket" \in setup.faults
         THEN Goto("server", "exited") /\ UNCHANGED name
         ELSE Goto("server", "bind") /\ name' = Unlink({PathOf("server")})
    /\ UNCHANGED <<setup, inbox, sequence, others, generator, memory, pool>>

\* The start of udp-server-h2client.  A list of boundaries without a valid one is undefined behaviour.
startBridge ==
    /\ state["bridge"] = "start"
    /\ \/ /\ EmptyHistogram(setup.bridge) /\ ~Given(setup.bridge, "help")
          /\ Goto("bridge", "crashed") /\ UNCHANGED name
       \/ IF \/ bridgeRefuses(setup.bridge) \/ tokenize(setup.bridge["uri"]).host = <<>>
             \/ "metrics" \in setup.faults /\ Option(setup.bridge, "prometheus-port", "8081") # "-1"
             \/ "socket" \in setup.faults
            THEN Goto("bridge", "exited") /\ UNCHANGED name
            ELSE /\ name' = Unlink({PathOf("bridge")})
                 /\ Goto("bridge", IF OutputPath # "" /\ "output" \in setup.faults THEN "exited" ELSE "bind")
    /\ UNCHANGED <<setup, inbox, sequence, others, generator, memory, pool>>

bind(p) ==
    /\ state[p] = "bind"
    /\ IF name[PathOf(p)] # "none"
         THEN Goto(p, "exited") /\ UNCHANGED name
         ELSE Goto(p, "recv") /\ name' = [name EXCEPT ![PathOf(p)] = p]
    /\ UNCHANGED <<setup, inbox, sequence, others, generator, memory, pool>>

\* sighndl of each program; before it is installed, a signal just ends it.
wrapup(p) ==
    CASE state[p] = "start" \/ p = "client" -> {}
      [] p = "server" -> {PathOf(p)}
      [] OTHER -> {PathOf(p), OutputPath}
sighndl(p) ==
    /\ p \in setup.signals /\ state[p] \notin Ended
    /\ Goto(p, "exited") /\ name' = Unlink(wrapup(p))
    /\ UNCHANGED <<setup, inbox, sequence, others, generator, memory, pool>>

-----------------------------------------------------------------------------
(* udp-client.                                                             *)

startClient ==
    /\ state["client"] = "start"
    /\ Goto("client", IF clientRefuses(setup.client) \/ "socket" \in setup.faults THEN "exited" ELSE "loop")
    /\ UNCHANGED <<setup, name, inbox, sequence, others, generator, memory, pool>>

Long(n) == n % LongRange
Initial(o) == IF Given(o, "initial") THEN Long(o["initial"].n) ELSE 0
Final(o) == IF Given(o, "final") THEN Long(o["final"].n) ELSE LongRange - 1
to_string(n) == [i \in 1 .. Len(ToString(n)) |-> SubSeq(ToString(n), i, i)]

\* A template with the patterns replaced; sums are unsigned.
FromTemplate(template, n) ==
    FlattenSeq([i \in DOMAIN template |->
        IF template[i] \in DOMAIN SeqOffset THEN to_string(Long(n + SeqOffset[template[i]])) ELSE <<template[i]>>])

Value == Long(Initial(setup.client) + sequence["client"])
EndsOneEarly == Value >= Final(setup.client)   \* Mutant: the final value is left out.
RangeCovered == Value > Final(setup.client)

\* One round of the loop, up to the datagram.
generate ==
    /\ state["client"] = "loop"
    /\ IF RangeCovered THEN Goto("client", "exited") /\ UNCHANGED <<sequence, generator>>
       ELSE /\ sequence["client"] < MaxSequence
            /\ \E template \in Option(setup.client, "template", {<<"@{seq}">>}) :
                  datagram' = FromTemplate(template, Value)
            /\ sequence' = [sequence EXCEPT !["client"] = @ + 1]
            /\ emitted' = Append(emitted, datagram')
            /\ Goto("client", "send")
    /\ UNCHANGED <<setup, name, inbox, others, memory, pool>>

sendDatagram ==
    /\ state["client"] = "send"
    /\ Sendto(PathOf("client"), datagram)
    /\ Goto("client", "loop")
    /\ UNCHANGED <<setup, name, sequence, others, generator, memory, pool>>

\* Somebody else sends a datagram.
OthersSend ==
    /\ others # <<>>
    /\ Sendto(Head(others).path, Head(others).text)
    /\ others' = Tail(others)
    /\ UNCHANGED <<setup, state, name, sequence, generator, memory, pool>>

-----------------------------------------------------------------------------
(* udp-server, and the main thread of udp-server-h2client.                 *)

\* recvfrom and what follows; nothing at all ends the loop as "EOF" does.
receiveServer ==
    /\ state["server"] = "recv" /\ inbox["server"] # <<>>
    /\ inbox' = [inbox EXCEPT !["server"] = Tail(@)]
    /\ IF Received("server") \in {<<>>, Eof}
         THEN Goto("server", "exited") /\ name' = Unlink({PathOf("server")}) /\ UNCHANGED sequence
         ELSE sequence' = [sequence EXCEPT !["server"] = @ + 1] /\ UNCHANGED <<state, name>>
    /\ UNCHANGED <<setup, others, generator, memory, pool>>

\* From recvfrom to the start of udpData.assign().
receiveBridge ==
    /\ state["bridge"] = "recv" /\ inbox["bridge"] # <<>>
    /\ inbox' = [inbox EXCEPT !["bridge"] = Tail(@)]
    /\ IF Received("bridge") = <<>>
         THEN Goto("bridge", "join") /\ UNCHANGED memory
         ELSE /\ Goto("bridge", "assign") /\ buffer' = Received("bridge")
              /\ arrived' = Append(arrived, Received("bridge")) /\ UNCHANGED udpData
    /\ UNCHANGED <<setup, name, sequence, others, generator, pool>>

\* The rest of the round.  What is posted refers to udpData.  Having left the
\* loop, main() joins the workers, whom the guard of the context keeps running.
handle ==
    /\ state["bridge"] = "assign"
    /\ udpData' = buffer
    /\ IF buffer = Eof THEN Goto("bridge", "join") /\ UNCHANGED <<sequence, tasks>>
       ELSE /\ Goto("bridge", "recv")
            /\ IF buffer = Stats THEN UNCHANGED <<sequence, tasks>>
               ELSE /\ sequence' = [sequence EXCEPT !["bridge"] = @ + 1]
                    /\ tasks' = Append(tasks, Len(arrived))
    /\ UNCHANGED <<setup, name, inbox, others, generator, buffer, arrived, worker, requests, counts, outputs>>

-----------------------------------------------------------------------------
(* Workers and responses of udp-server-h2client.                           *)

StopsAtEof == state["bridge"] \in {"recv", "assign"}   \* Mutant: leaving the loop stops the context.
Running == state["bridge"] \in {"recv", "assign", "join"}
Idle == [pc |-> "idle", number |-> 0, text |-> <<>>, undisturbed |-> FALSE, stream |-> 0]

take(w) ==
    /\ Running
    /\ worker[w].pc = "idle" /\ w <= NumberOption(setup.bridge, "workers", MaxWorkers) /\ tasks # <<>>
    /\ worker' = [worker EXCEPT ![w] = [Idle EXCEPT !.pc = "copy", !.number = Head(tasks)]]
    /\ tasks' = Tail(tasks)
    /\ UNCHANGED <<setup, state, name, inbox, sequence, others, generator, memory, requests, counts, outputs>>

\* A Stream copies udpData, which nothing protects from being assigned.
copy(w) ==
    /\ Running /\ worker[w].pc = "copy"
    /\ \E text \in IF state["bridge"] = "assign" THEN {udpData, buffer, Garbage} ELSE {udpData} :
          worker' = [worker EXCEPT ![w].pc = "process", ![w].text = text,
                                   ![w].undisturbed = (Len(arrived) = worker[w].number)]
    /\ UNCHANGED <<setup, state, name, inbox, sequence, others, generator, memory, tasks, requests, counts, outputs>>

\* setRequest() and process(): Fields has what is sent.
process(w) ==
    /\ Running /\ worker[w].pc = "process"
    /\ requests' = Append(requests,
          [number |-> worker[w].number, text |-> worker[w].text, undisturbed |-> worker[w].undisturbed,
           alive |-> TRUE, status |-> 0])
    /\ worker' = [worker EXCEPT ![w].pc = "release", ![w].stream = Len(requests) + 1]
    /\ UNCHANGED <<setup, state, name, inbox, sequence, others, generator, memory, tasks, counts, outputs>>

\* The Stream ends with the task.
release(w) ==
    /\ Running /\ worker[w].pc = "release"
    /\ requests' = [requests EXCEPT ![worker[w].stream].alive = FALSE]
    /\ worker' = [worker EXCEPT ![w] = Idle]
    /\ UNCHANGED <<setup, state, name, inbox, sequence, others, generator, memory, tasks, counts, outputs>>

\* The counter of a status; a few have none.
Classified(status) ==
    CASE status \in 200 .. 299 -> {"2xx"} [] status \in 300 .. 399 -> {"3xx"}
      [] status \in 400 .. 499 -> {"4xx"} [] status \in 500 .. 599 -> {"5xx"}
      [] status = -2 -> {"timeouts"} [] status \in {-1, -3, -4} -> {"connection errors"}
      [] OTHER -> {}

\* What c_str() of a value that is gone may show, made from members of a
\* Stream that may be gone, too: perhaps another one has its place.
Leftovers(i) ==
    {getUdpOutputValue(requests[i].text), Garbage, <<>>}
    \cup IF requests[i].alive THEN {} ELSE {getUdpOutputValue(requests[j].text) : j \in DOMAIN requests}

\* The response handler, in a thread of the HTTP/2 client.
respond(i) ==
    /\ Running /\ requests[i].status = 0
    /\ \E status \in Statuses :
          /\ requests' = [requests EXCEPT ![i].status = status]
          /\ counts' = [c \in Classes |-> counts[c] + IF c \in Classified(status) THEN 1 ELSE 0]
    /\ \/ OutputPath = "" /\ UNCHANGED <<state, outputs>>
       \/ /\ OutputPath # "" /\ UNCHANGED state
          /\ \E text \in Leftovers(i) : outputs' = Append(outputs, text)
       \/ OutputPath # "" /\ ~requests[i].alive /\ Goto("bridge", "crashed") /\ UNCHANGED outputs
    /\ UNCHANGED <<setup, name, inbox, sequence, others, generator, memory, tasks, worker>>

writeOutput ==
    /\ Running /\ outputs # <<>>
    /\ Sendto(OutputPath, Head(outputs))
    /\ outputs' = Tail(outputs)
    /\ UNCHANGED <<setup, state, name, sequence, others, generator, memory, tasks, worker, requests, counts>>

-----------------------------------------------------------------------------
toolInit ==
    /\ setup \in Setups
    /\ state = [p \in Programs |-> IF p \in setup.started THEN "start" ELSE "exited"]
    /\ name = [q \in Paths |-> "none"]
    /\ inbox = [p \in Listeners |-> <<>>]
    /\ sequence = [p \in Programs |-> 0]
    /\ others = setup.others
    /\ datagram = <<>> /\ buffer = <<>> /\ udpData = <<>> /\ arrived = <<>> /\ emitted = <<>>
    /\ tasks = <<>> /\ requests = <<>> /\ outputs = <<>>
    /\ worker = [w \in 1 .. MaxWorkers |-> Idle]
    /\ counts = [c \in Classes |-> 0]

mainThreads ==
    \/ startClient \/ startServer \/ startBridge \/ generate \/ sendDatagram
    \/ receiveServer \/ receiveBridge \/ handle
    \/ \E p \in Listeners : bind(p)
poolThread(w) == take(w) \/ copy(w) \/ process(w) \/ release(w)
clientThread == (\E i \in DOMAIN requests : respond(i)) \/ writeOutput

toolNext ==
    \/ mainThreads \/ clientThread \/ OthersSend
    \/ \E w \in 1 .. MaxWorkers : poolThread(w)
    \/ \E p \in Programs : sighndl(p)

(* The main thread of the bridge runs, and its pool.                       *)
toolSpec ==
    /\ toolInit /\ [][toolNext]_toolVars
    /\ WF_toolVars(handle)
    /\ WF_toolVars(\E w \in 1 .. MaxWorkers : poolThread(w))

-----------------------------------------------------------------------------
Commands == {Eof, Stats}
Unrequested ==
    {n \in DOMAIN arrived : arrived[n] \notin Commands /\ \A i \in DOMAIN requests : requests[i].number # n}

(* "UDP server will trigger one HTTP/2 request for every reception"        *)
(* (udp-server-h2client/main.cpp:110): what is received, but for commands, *)
(* is requested in the end, also when the loop has been left meanwhile by  *)
(* "EOF", unless the process ends by a signal or by undefined behaviour.   *)
EveryReceptionRequested == Unrequested # {} ~> (Unrequested = {} \/ state["bridge"] \in Ended)

\* The n-th of the parts of a text, counting the delimiters before each character.
Reference(text, n) ==
    LET Before(i) == Cardinality({j \in 1 .. i - 1 : text[j] = "|"})
        places == SelectSeq([i \in DOMAIN text |-> i], LAMBDA i : text[i] # "|" /\ Before(i) = n - 1)
    IN  [k \in DOMAIN places |-> text[places[k]]]
HasPart(text, n) == \E i \in DOMAIN text : text[i] = "|" /\ Cardinality({j \in DOMAIN text : text[j] = "|"}) >= n - 1

(* A reception makes at most one request, and that one has the datagram    *)
(* for "@{udp}" and its second part for "@{udp.2}", if the worker read     *)
(* udpData before the next reception.  Otherwise it may get the next       *)
(* datagram, be that "STATS", or a mixture of the two.                     *)
OwnDatagramRequested ==
    \A i \in DOMAIN requests :
       LET r == requests[i]
           template == Template(setup.bridge)
           Replaced(c) == CASE c = "@{udp}" -> arrived[r.number]
                            [] c = "@{udp.2}" /\ HasPart(arrived[r.number], 2) -> Reference(arrived[r.number], 2)
                            [] OTHER -> <<c>>
       IN  /\ \A j \in DOMAIN requests : requests[j].number = r.number => i = j
           /\ r.undisturbed => \A f \in DOMAIN template :
                 (\A k \in DOMAIN template[f] : template[f][k] \notin {"@{udp8}", "@{udp.1}", "@{udp8.2}"})
                    => Fields(setup.bridge, r.text)[f] = FlattenSeq([k \in DOMAIN template[f] |-> Replaced(template[f][k])])

(* udp-client leaves its loop with "range covered" only when it has made   *)
(* one datagram for each value from the initial to the final one.          *)
WholeRangeSent ==
    (state["client"] = "exited" /\ ~clientRefuses(setup.client) /\ setup.faults = {} /\ "client" \in setup.started
       /\ "client" \notin setup.signals)
      => LET low == Initial(setup.client)
             high == Final(setup.client)
             templates == Option(setup.client, "template", {<<"@{seq}">>})
         IN  /\ Len(emitted) = IF high < low THEN 0 ELSE high - low + 1
             /\ \A i \in DOMAIN emitted : \E t \in templates : emitted[i] = FromTemplate(t, low + i - 1)
=============================================================================
