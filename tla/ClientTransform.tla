-------------------------- MODULE ClientTransform --------------------------
(***************************************************************************)
(* The transformation pipeline of a client provision                       *)
(* (AdminClientProvision::transform and transformResponse), beside that of *)
(* the server provisions: client threads build a request with the items of *)
(* a provision, and when the response is there take the items of its       *)
(* onResponse list.  They share vault, files, sockets, events and schemas  *)
(* with the traffic workers of Transform, whose stages they use wherever   *)
(* the code of the two kinds of provision is the same.                     *)
(*                                                                         *)
(* The fields res and req of a client thread are the request it builds,    *)
(* and what it was triggered with: variables, sequence and the response    *)
(* the server will send.                                                   *)
(***************************************************************************)
EXTENDS Transform

Responded(l) == l.list = "onResponse"

HeaderList(headers) ==
    Array(SetToSeq({Object([name |-> Str(k), value |-> Str(headers[k][1])]) : k \in DOMAIN headers}))

-----------------------------------------------------------------------------
(* processSources                                                          *)

\* The request that is being built, or was sent.  Without an item that writes
\* the document, the body is the text of the provision.
OwnRequestSources(s, l) ==
    CASE s.type = "RequestUri" -> {Str(l.res.uri)}
      [] s.type = "RequestBody" ->
            IF l.uses THEN setObject(l.json, Text(s.name, l)) ELSE {Str(Prov(l).bodyText)}
      [] s.type = "RequestHeader" -> {Str(l.res.headers[k][1]) : k \in {s.key} \cap DOMAIN l.res.headers}
      [] s.type = "RequestHeaders" -> setObject(HeaderList(l.res.headers), "")
      [] OTHER -> {}

\* The response; before it is there, these sources fail.
ResponseSources(s, l) ==
    LET response == l.req.response IN
    IF ~Responded(l) THEN {}
    ELSE CASE s.type = "ResponseBody" ->
                IF response.json.type = "Null" THEN {Str(response.body)}
                ELSE setObject(response.json, Text(s.name, l))
           [] s.type = "ResponseHeader" ->
                {Str(response.headers[k][1]) : k \in {s.key} \cap DOMAIN response.headers}
           [] s.type = "ResponseStatusCode" -> {Integer(response.code)}
           [] s.type = "ResponseHeaders" -> setObject(HeaderList(response.headers), "")
           [] OTHER -> {}

\* The send sequence is not known before the request is sent.
SendSequence(s, l) ==
    IF s.type = "Sendseq" THEN {Unsigned(IF Responded(l) THEN l.seq ELSE 0)} ELSE {}

\* The same as in a server provision, but for the sequence of reception.
ClientComputedSources(s, l) == IF s.type = "Recvseq" THEN {} ELSE ComputedSources(s, l)
ClientStoredSources(s, l) == StoredSources(s, l) \cup ClientEventSource(s, l)

\* RequestUriPath, RequestUriParam and Recvseq do not apply and fail.
ClientSourceValues(s, l) ==
    OwnRequestSources(s, l) \cup ResponseSources(s, l) \cup SendSequence(s, l)
        \cup ClientComputedSources(s, l) \cup ClientStoredSources(s, l)

ClientSource(c) ==
    LET l == ctx[c] IN
    /\ At(c, "source")
    /\ Item(l).source.type \notin {"Eraser", "Command"}
    /\ \E v \in ClientSourceValues(Item(l).source, l) :
         Set(c, Sourced([l EXCEPT !.value = v, !.origin = l.at]))
    /\ UNCHANGED <<shared, buffer, Others>>

ClientSkipOnSource(c) ==
    LET l == ctx[c]
        s == Item(l).source
    IN
    /\ At(c, "source")
    /\ s.type \notin {"Eraser", "Command"}
    /\ ClientSourceValues(s, l) = {}
    /\ Set(c, Leave([l EXCEPT !.value = IF s.type = "ResponseBody" /\ ~Responded(l) THEN @
                                        ELSE ValueAfterFailure(s, l)], "source"))
    /\ UNCHANGED <<shared, buffer, Others>>

\* Unlike a server provision, a client provision empties the value.
ClientEraser(c) ==
    LET l == ctx[c] IN
    /\ At(c, "source") /\ Item(l).source.type = "Eraser"
    /\ Set(c, Sourced([l EXCEPT !.value = clear, !.origin = l.at, !.eraser = TRUE]))
    /\ UNCHANGED <<shared, buffer, Others>>

\* The command source has a buffer of its own, static as the other.
ClientCommand(c) == ReadCommand(c) \/ FinishCommand(c)

-----------------------------------------------------------------------------
(* processFilters                                                          *)

\* The value is kept with its type; only variables are looked at, not the vault.
ClientConditionFilters(f, v, l) ==
    LET Exists == f.key \in DOMAIN l.vars /\ l.vars[f.key] # "" IN
    IF \/ f.type = "ConditionVar" /\ Exists # f.reverse
       \/ f.type = "EqualTo" /\ getString(v) = Text(f.text, l)
       \/ f.type = "DifferentFrom" /\ getString(v) # Text(f.text, l)
    THEN {Kept(v)} ELSE {}

\* The text of the value is parsed; a text that is no document fails, and so
\* does a schema that is not loaded.
ClientDocumentFilters(f, v) ==
    LET documents == parseJsonContent(getString(v))
        Verdict(ok) == Kept(Str(IF ok THEN "1" ELSE "report"))
    IN  CASE f.type = "JsonConstraint" -> {Verdict(jsonConstraint(d, f.expected)) : d \in documents}
          [] f.type = "SchemaId" /\ f.key \in DOMAIN schemas ->
                {Verdict(Valid(f.key, schemas[f.key], d)) : d \in documents}
          [] OTHER -> {}

\* The same as in a server provision.
ClientTextFilters(f, v, l) == TextFilters(f, v, l) \cup NumberFilters(f, v)
ClientConversionFilters(f, v) == ConversionFilters(f, v) \cup KeyFilters(f, v)

ClientFilterResults(f, v, l) ==
    ClientTextFilters(f, v, l) \cup ClientConditionFilters(f, v, l)
        \cup ClientDocumentFilters(f, v) \cup ClientConversionFilters(f, v)

ClientFilter(c) ==
    LET l == ctx[c] IN
    /\ At(c, "filter") /\ ~l.eraser
    /\ ~SplitThrows(Item(l).filter, l.value)
    /\ \E r \in ClientFilterResults(Item(l).filter, l.value, l) :
         Set(c, [l EXCEPT !.value = r.value, !.matches = r.matches, !.pc = "target"])
    /\ UNCHANGED <<shared, buffer, Others>>

ClientFailFilter(c) ==
    LET l == ctx[c] IN
    /\ At(c, "filter")
    /\ l.eraser \/ (~SplitThrows(Item(l).filter, l.value)
                    /\ ClientFilterResults(Item(l).filter, l.value, l) = {})
    /\ Set(c, Fail(l))
    /\ UNCHANGED <<shared, buffer, Others>>

-----------------------------------------------------------------------------
(* processTargets                                                          *)

\* The targets of the request body, and those of the response body that set
\* a document of a server provision in the same way.
BodyTarget == [RequestBodyJson_String |-> "ResponseBodyJson_String",
               RequestBodyJson_Integer |-> "ResponseBodyJson_Integer",
               RequestBodyJson_Unsigned |-> "ResponseBodyJson_Unsigned",
               RequestBodyJson_Float |-> "ResponseBodyJson_Float",
               RequestBodyJson_Boolean |-> "ResponseBodyJson_Boolean",
               RequestBodyJson_Object |-> "ResponseBodyJson_Object",
               RequestBodyJson_JsonString |-> "ResponseBodyJson_JsonString"]

RequestJsonBodies(t, l) ==
    IF t.type \in DOMAIN BodyTarget THEN JsonBodies([t EXCEPT !.type = BodyTarget[t.type]], l) ELSE {}

RequestTargets(t, l) ==
    LET name == Text(t.name, l)
        text == getString(l.value)
    IN  CASE t.type = "RequestBodyString" -> {[l.res EXCEPT !.body = text]}
          [] t.type = "RequestBodyHexString" -> {[l.res EXCEPT !.body = b] : b \in fromHexString(text)}
          [] t.type = "RequestHeader_t" ->
                {[l.res EXCEPT !.headers = Put(@, name, (IF name \in DOMAIN @ THEN @[name] ELSE <<>>) \o <<text>>)]}
          [] t.type = "RequestDelayMs" -> {[l.res EXCEPT !.delay = n] : n \in getUnsigned(l.value)}
          [] t.type = "RequestTimeoutMs" -> {[l.res EXCEPT !.timeout = n] : n \in getUnsigned(l.value)}
          [] t.type = "RequestUri_t" -> {[l.res EXCEPT !.uri = text]}
          [] t.type = "RequestMethod_t" -> {[l.res EXCEPT !.method = text]}
          [] OTHER -> {}

\* In the response phase these targets write locals that are thrown away.
TargetRequest(c) ==
    LET l == ctx[c]
        t == Item(l).target
        bodies == IF Responded(l) THEN {} ELSE RequestJsonBodies(t, l)
        requested == IF Responded(l) THEN {} ELSE RequestTargets(t, l)
    IN  /\ AtTarget(c, DOMAIN BodyTarget \cup {"RequestBodyString", "RequestBodyHexString", "RequestHeader_t",
                                               "RequestDelayMs", "RequestTimeoutMs", "RequestUri_t",
                                               "RequestMethod_t"})
        /\ \/ \E j \in bodies : Set(c, Leave([l EXCEPT !.json = j], "target"))
           \/ \E r \in requested : Set(c, Leave([l EXCEPT !.res = r], "target"))
           \/ bodies = {} /\ requested = {} /\ Set(c, Leave(l, "target"))
        /\ UNCHANGED <<shared, buffer, Others>>

ClientOutState(c) ==
    LET l == ctx[c] IN
    /\ AtTarget(c, {"OutState"})
    /\ Set(c, Leave([l EXCEPT !.out.state = getString(l.value)], "target"))
    /\ UNCHANGED <<shared, buffer, Others>>

ClientPurge(c) ==
    LET l == ctx[c]
        t == Item(l).target
    IN  /\ AtTarget(c, {"ClientEventToPurge"})
        /\ clientEvents' = IF l.eraser THEN Purged(clientEvents, Text(t.name, l), Text(t.number, l), Text(t.seq, l))
                           ELSE clientEvents
        /\ Set(c, Leave(l, "target"))
        /\ UNCHANGED <<vault, files, sent, events, buffer, Others>>

\* The targets of a server provision do nothing.
NotApplicable(c) ==
    /\ AtTarget(c, JsonTargets \cup {"ResponseBodyString", "ResponseBodyHexString", "ResponseHeader_t",
                                     "ResponseStatusCode_t", "ResponseDelayMs", "ServerEventToPurge",
                                     "ClientProvision_t"})
    /\ Set(c, Leave(ctx[c], "target"))
    /\ UNCHANGED <<shared, buffer, Others>>

\* The targets that do the same as those of a server provision.
ClientVar(c) == TargetVar(c)
ClientVault(c) == TargetVault(c)
ClientFile(c) == TargetFile(c)
ClientSocket(c) == TargetSocket(c)
ClientBreak(c) == TargetBreak(c)

ClientTarget(c) ==
    \/ TargetRequest(c) \/ ClientOutState(c) \/ ClientPurge(c) \/ NotApplicable(c)
    \/ ClientVar(c) \/ ClientVault(c) \/ ClientFile(c) \/ ClientSocket(c) \/ ClientBreak(c)

-----------------------------------------------------------------------------
(* transform() and transformResponse()                                     *)

First(items) == IF items = <<>> THEN <<>> ELSE <<1>>

\* A flow is triggered: the request has the defaults of the provision.  The
\* document is cloned if an item of the outermost list writes it.
BeginClient(c) ==
    LET p == mix[requests + 1].prov
        r == mix[requests + 1].req
        prov == Provisions[p]
        uses == \E i \in DOMAIN prov.items : prov.items[i].target.type \in DOMAIN BodyTarget
    IN
    /\ ctx[c].pc = "idle" /\ requests < Len(mix)
    /\ prov.side = "client"
    /\ requests' = requests + 1
    /\ Set(c, GoTo(
         [pc |-> "source", prov |-> p, list |-> "items", req |-> r, seq |-> requests + 1, at |-> <<>>,
          value |-> clear, origin |-> <<>>, eraser |-> FALSE, matches |-> <<>>, output |-> "",
          vars |-> Put(r.vars, "sequence", ToString(r.sequence)), uses |-> uses,
          json |-> IF uses THEN prov.body ELSE Null, break |-> FALSE, breakAt |-> 0, ok |-> TRUE,
          res |-> [method |-> prov.method, uri |-> prov.uri, headers |-> prov.headers,
                   body |-> IF uses THEN "" ELSE prov.bodyText, delay |-> prov.delay, timeout |-> prov.timeout],
          out |-> [state |-> prov.outState],
          outcome |-> [q \in {} |-> ""]], First(prov.items)))
    /\ UNCHANGED <<shared, schemas, cache, buffer, mix, adminOps, answers>>

\* What the schema of the request is asked about: the document if items write
\* it, and otherwise the body of the provision, whatever the text became.
FinishRequest(c) ==
    LET l == ctx[c]
        version == Schema(l.prov, "requestSchema")
        invalid == version # 0 /\ ~Valid(Prov(l).requestSchema, version, IF l.uses THEN l.json ELSE Prov(l).body)
    IN  /\ At(c, "finish") /\ ~Responded(l)
        /\ CacheSchema(l.prov, "requestSchema")
        /\ Set(c, IF invalid THEN [l EXCEPT !.pc = "answer", !.ok = FALSE]
                  ELSE [l EXCEPT !.pc = "sent",
                                 !.res.body = IF l.uses /\ ~EmptyJson(l.json) THEN jsonToString(l.json) ELSE @])
        /\ UNCHANGED <<shared, schemas, buffer, mix, requests, adminOps, answers>>

\* The response is there: a value, a break and a document of the request do
\* not reach the items for it.
ReceiveResponse(c) ==
    LET l == ctx[c] IN
    /\ At(c, "sent")
    /\ Set(c, GoTo([l EXCEPT !.list = "onResponse", !.value = clear, !.origin = <<>>, !.uses = FALSE,
                             !.json = Null, !.break = FALSE, !.breakAt = 0, !.outcome = [q \in {} |-> ""],
                             !.vars = IF Prov(l).onResponse = <<>> THEN @
                                      ELSE Put(@, "sequence", ToString(l.req.sequence))],
                   First(Prov(l).onResponse)))
    /\ UNCHANGED <<shared, buffer, Others>>

\* The status code that was expected, and the schema of the response.
FinishResponse(c) ==
    LET l == ctx[c]
        response == l.req.response
        version == Schema(l.prov, "responseSchema")
        invalid == /\ version # 0 /\ response.json.type # "Null"
                   /\ ~Valid(Prov(l).responseSchema, version, response.json)
    IN  /\ At(c, "finish") /\ Responded(l)
        /\ CacheSchema(l.prov, "responseSchema")
        /\ Set(c, [l EXCEPT !.pc = "answer",
                            !.ok = Prov(l).expected \in {0, response.code} /\ ~invalid])
        /\ UNCHANGED <<shared, schemas, buffer, mix, requests, adminOps, answers>>

\* The caller goes on with the chain, or ends it.
AnswerClient(c) ==
    LET l == ctx[c] IN
    /\ At(c, "answer")
    /\ answers' = answers \cup {[prov |-> l.prov, req |-> l.req, request |-> l.res, next |-> l.out,
                                 ok |-> l.ok, chain |-> l.vars]}
    /\ Set(c, Idle)
    /\ UNCHANGED <<shared, schemas, cache, buffer, mix, requests, adminOps>>

-----------------------------------------------------------------------------
ClientWork(c) ==
    \/ ClientSource(c) \/ ClientSkipOnSource(c) \/ ClientEraser(c) \/ ClientCommand(c)
    \/ ClientFilter(c) \/ ClientFailFilter(c) \/ ThrowFilter(c)
    \/ ClientTarget(c)
    \/ FinishRequest(c) \/ ReceiveResponse(c) \/ FinishResponse(c) \/ AnswerClient(c)

AgentNext == Next \/ \E c \in Clients : BeginClient(c) \/ ClientWork(c)

AgentSpec == Init /\ [][AgentNext]_vars

=============================================================================
