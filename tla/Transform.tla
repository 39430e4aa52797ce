----------------------------- MODULE Transform -----------------------------
(***************************************************************************)
(* The transformation pipeline of a server provision                       *)
(* (AdminServerProvision::transform): every traffic worker takes the items *)
(* of its provision one after the other, each through source, filter and   *)
(* target, with the fallbacks of an item whose filter fails, nested to any *)
(* depth.  The workers share the vault, the files, the events, the schemas *)
(* and the buffer of the command source; a stage of an item is one step.   *)
(*                                                                         *)
(* The position of a worker is the path of its item: <<2>> is the second   *)
(* item of the list, <<2, 1>> the first fallback of that item.             *)
(***************************************************************************)
EXTENDS DataPart, FiniteSets, FiniteSetsExt

CONSTANTS
    Workers,        \* traffic worker threads
    Clients,        \* threads that run client provisions (module ClientTransform)
    Provisions,     \* provisions by name: defaults, schema ids and items
    Mixes,          \* the sequences of requests that may arrive
    SelfContained,  \* provisions that read nothing but their request and what they wrote
    InitialVault, InitialEvents, InitialClientEvents,  \* shared state when the requests arrive
    SchemaIds,      \* schema identifiers the admin interface may load
    Times,          \* readings of the clock
    MaxAdminOps,    \* bound on schema operations
    \* External libraries and data codings, given by tables:
    Match(_, _),    \* regular expression, text -> captures, <<>> for no match
    Replace(_, _),  \* regular expression and format, text -> text
    Eval(_),        \* arithmetic expression -> value
    Run(_),         \* shell command -> its output and return code
    Dates(_),       \* date text -> set with its epoch, empty if it is no date
    Valid(_, _, _)  \* schema id, version, document -> BOOLEAN

ASSUME TransformAssumption ==
    /\ MaxAdminOps \in Nat
    /\ Times \subseteq Nat

VARIABLES
    ctx,        \* one record per worker: the arguments and locals of transform()
    vault,      \* vault entries (partial function)
    files,      \* file contents (partial function)
    sent,       \* datagrams written to UDP sockets
    events,     \* server events: histories by key (partial function)
    clientEvents,  \* client events, likewise
    schemas,    \* loaded schemas and their version (partial function)
    cache,      \* schema pointers cached in the provisions (0: none)
    buffer,     \* the static buffers of the command source, one per kind of provision
    mix,        \* the requests of this behaviour: provision and request
    requests,   \* number of requests received
    adminOps,   \* number of schema operations
    answers     \* history of answers: provision, request, answer

shared == <<vault, files, sent, events, clientEvents>>
vars == <<ctx, vault, files, sent, events, clientEvents, schemas, cache, buffer, mix, requests,
          adminOps, answers>>

Threads == Workers \cup Clients
Side(w) == IF w \in Workers THEN "server" ELSE "client"

Empty == [k \in {} |-> Null]
Drop(f, ks) == [k \in DOMAIN f \ ks |-> f[k]]

Idle == [pc |-> "idle"]

\* The provision of a thread, and the list of items it is working through: a
\* client provision has a second one for the response.
Prov(l) == Provisions[l.prov]
Items(l) == Prov(l)[l.list]

\* The list an item with this path belongs to, and the item.
Siblings(items, path) == FoldLeft(LAMBDA list, i : list[i].onFilterFail, items, Front(path))
Item(l) == Siblings(Items(l), l.at)[Last(l.at)]

\* replaceVariables with the variables of the request and the vault.
Text(template, l) == replaceVariables(template, l.vars, vault)

\* The path of a vault source is expanded with the patterns of its key only.
PathText(s, l) ==
    LET known == {part.text : part \in {p \in Range(s.name) : p.ref}}
    IN  replaceVariables(s.path, Restrict(l.vars, known \cap DOMAIN l.vars),
                         Restrict(vault, known \cap DOMAIN vault))

-----------------------------------------------------------------------------
(* processSources.  The values a source may have; none if it fails.        *)

\* Parts of the request and of the response.
RequestSources(s, l) ==
    CASE s.type = "RequestUri" -> {Str(l.req.uri)}
      [] s.type = "RequestUriPath" -> {Str(l.req.path)}
      [] s.type = "RequestUriParam" -> {Str(l.req.query[k]) : k \in {s.key} \cap DOMAIN l.req.query}
      [] s.type = "RequestBody" ->
            IF l.body.isJson THEN setObject(l.body.json, Text(s.name, l)) ELSE {Str(l.req.body)}
      [] s.type = "ResponseBody" ->
            setObject(IF l.uses THEN l.json ELSE Prov(l).body, Text(s.name, l))
      [] s.type = "RequestHeader" -> {Str(l.req.headers[k]) : k \in {s.key} \cap DOMAIN l.req.headers}
      [] s.type = "RequestHeaders" ->
            setObject(Array(SetToSeq({Object([name |-> Str(k), value |-> Str(l.req.headers[k])])
                                         : k \in DOMAIN l.req.headers})), "")
      [] s.type = "ResponseHeaders" -> {}     \* not available in server mode
      [] OTHER -> {}

\* Sources that compute a value.  A date is the text of a clock reading.
ComputedSources(s, l) ==
    CASE s.type = "Math" -> {Eval(Text(s.name, l))}
      [] s.type = "Random" -> {Integer(n) : n \in s.from .. s.to}
      [] s.type = "RandomSet" -> {Str(Text(t, l)) : t \in s.tokens}
      [] s.type = "Timestamp" -> {Integer(t) : t \in Times}
      [] s.type = "Strftime" -> {Str(Text(Append(s.name, Lit(ToString(t))), l)) : t \in Times}
      [] s.type = "Recvseq" -> {Unsigned(l.seq)}
      [] OTHER -> {}

\* The places of a history that an event number, or a sequence, selects.
Selected(h, number, seq) ==
    IF seq # "" THEN {i \in DOMAIN h : h[i].seq \in Parsed(seq)}
    ELSE {i \in DOMAIN h : \E n \in Parsed(number) : i = n \/ (n < 0 /\ i = Len(h) + 1 + n)}

\* getEvent or getEventByRecvSeq, then the path of the event.
EventValues(all, s, l) ==
    LET key == Text(s.name, l) IN
    IF key \notin DOMAIN all THEN {}
    ELSE UNION {setObject(all[key][i].doc, Text(s.path, l)) :
                   i \in Selected(all[key], Text(s.number, l), Text(s.seq, l))}

\* Sources that read variables, the vault, files and events.
StoredSources(s, l) ==
    LET name == Text(s.name, l) IN
    CASE s.type = "SVar" -> {Str(l.vars[k]) : k \in {name} \cap DOMAIN l.vars}
      [] s.type = "SGVar" -> UNION {setObject(vault[k], PathText(s, l)) : k \in {name} \cap DOMAIN vault}
      [] s.type = "Value" -> {Str(name)}
      [] s.type = "ServerEvent" -> EventValues(events, s, l)
      [] s.type = "InState" -> {Str(Prov(l).inState)}
      [] s.type \in {"STxtFile", "SBinFile"} -> {Str(IF name \in DOMAIN files THEN files[name] ELSE "")}
      [] OTHER -> {}

ClientEventSource(s, l) == IF s.type = "ClientEvent" THEN EventValues(clientEvents, s, l) ELSE {}

\* The sources of the client mode (Sendseq, ResponseHeader, ResponseStatusCode) fail.
SourceValues(s, l) ==
    RequestSources(s, l) \cup ComputedSources(s, l) \cup StoredSources(s, l) \cup ClientEventSource(s, l)

\* The value after a source that failed: setObject clears it before it looks
\* for the path, the other failures come earlier and leave it.
ValueAfterFailure(s, l) ==
    LET name == Text(s.name, l)
        Found(all) == name \in DOMAIN all
                      /\ Selected(all[name], Text(s.number, l), Text(s.seq, l)) # {}
    IN  IF \/ s.type \in {"RequestBody", "ResponseBody"}
           \/ s.type = "SGVar" /\ name \in DOMAIN vault
           \/ s.type = "ServerEvent" /\ Found(events)
           \/ s.type = "ClientEvent" /\ Found(clientEvents)
        THEN clear ELSE l.value

-----------------------------------------------------------------------------
(* processFilters.  What a filter may leave: a value and the captures of a *)
(* regular expression; nothing if it fails.                                *)

Kept(v) == [value |-> v, matches |-> <<>>]

\* A local variable, or else a vault entry, that exists and is not empty.
Holds(name, l) ==
    IF name \in DOMAIN l.vars THEN l.vars[name] # ""
    ELSE name \in DOMAIN vault /\ jsonToString(vault[name]) # ""

\* RegexCapture, RegexReplace, Append and Prepend.
TextFilters(f, v, l) ==
    LET source == getString(v)
    IN  CASE f.type = "RegexCapture" ->
                {[value |-> Str(c[1]), matches |-> c] : c \in {Match(f.key, source)} \ {<<>>}}
          [] f.type = "RegexReplace" -> {Kept(Str(Replace(f.key, source)))}
          [] f.type = "Append" -> {Kept(Str(source \o Text(f.text, l)))}
          [] f.type = "Prepend" -> {Kept(Str(Text(f.text, l) \o source))}
          [] OTHER -> {}

\* ConditionVar, EqualTo and DifferentFrom keep the source or fail.
ConditionFilters(f, v, l) ==
    LET source == getString(v) IN
    IF \/ f.type = "ConditionVar" /\ Holds(f.key, l) # f.reverse
       \/ f.type = "EqualTo" /\ source = Text(f.text, l)
       \/ f.type = "DifferentFrom" /\ source # Text(f.text, l)
    THEN {Kept(Str(source))} ELSE {}

\* A source that is no number counts as zero and takes no part in the operation.
NumberFilters(f, v) ==
    LET Result(xs, operand) ==
            IF xs = {} THEN 0
            ELSE LET x == CHOOSE n \in xs : TRUE
                 IN  IF f.type = "Sum" THEN x + operand ELSE x * operand
        tenths == IF f.type = "Sum" THEN 10 * f.operand ELSE f.operand
    IN  IF f.type \notin {"Sum", "Multiply"} THEN {}
        ELSE CASE f.number = "integer" -> {Kept(Integer(Result(getInteger(v), f.operand)))}
               [] f.number = "unsigned" -> {Kept(Unsigned(Result(getUnsigned(v), f.operand) % Word))}
               [] f.number = "float" -> {Kept(Float(Result(getFloat(v), tenths)))}

\* jsonConstraint in object mode, over flat documents.
jsonConstraint(received, expected) ==
    \A k \in DOMAIN expected.f :
        received.type = "Object" /\ k \in DOMAIN received.f /\ received.f[k] = expected.f[k]

\* JsonConstraint and SchemaId.  A document that does not conform leaves the
\* report of the failure as the value; a missing schema is ignored.
DocumentFilters(f, v) ==
    LET Verdict(ok) == {Kept(Str(IF ok THEN "1" ELSE "report"))}
    IN  CASE f.type = "JsonConstraint" -> Verdict(jsonConstraint(v, f.expected))
          [] f.type = "SchemaId" ->
                IF f.key \in DOMAIN schemas
                THEN Verdict(Valid(f.key, schemas[f.key], IF v.type = "Object" THEN v ELSE Null))
                ELSE {Kept(v)}
          [] OTHER -> {}

\* RegexKey, which takes the first key that matches (which one is first is
\* left open), and Size.
KeyFilters(f, v) ==
    LET keys == IF v.type = "Object" /\ ~v.array THEN {k \in DOMAIN v.f : Match(f.key, k) # <<>>} ELSE {}
    IN  CASE f.type = "RegexKey" ->
                UNION {{[value |-> x, matches |-> Match(f.key, k)] : x \in setObject(v.f[k], "")} : k \in keys}
          [] f.type = "Size" ->
                {Kept(Str(ToString(IF v.type = "Object" THEN Cardinality(DOMAIN v.f)
                                   ELSE Len(getString(v)))))}
          [] OTHER -> {}

\* The text with a filler on its left until it has the length.
LeftPad(s, filler, length) ==
    FoldLeft(LAMBDA text, i : filler \o text, s, [i \in 1 .. length - Len(s) |-> i])

\* The last size * count characters, or all of them with the filler before.
Padded(f, s) ==
    LET length == f.size * f.count IN
    IF Len(s) > length THEN SubSeq(s, Len(s) - length + 1, Len(s))
    ELSE IF f.filler # "" THEN LeftPad(s, f.filler, length) ELSE s

\* std::string::substr throws when a group begins behind the end of the text.
SplitThrows(f, v) ==
    f.type = "Split" /\ \E i \in 0 .. f.count - 1 : i * f.size > Len(Padded(f, getString(v)))

Group(f, s, i) ==
    LET group == SubSeq(s, i * f.size + 1, Min({(i + 1) * f.size, Len(s)}))
        value == {n \in Numbers \cap Nat : LeftPad(ToString(n), "0", Len(group)) = group}
    IN  IF f.numeric /\ value # {} THEN ToString(CHOOSE n \in value : TRUE) ELSE group

Split(f, s) ==
    FoldLeft(LAMBDA text, i : text \o (IF i > 1 THEN f.sep ELSE "") \o Group(f, Padded(f, s), i - 1),
             "", [i \in 1 .. f.count |-> i])

\* A number written with the digits of a base.
InBase(n, base, digits) ==
    LET length == CHOOSE d \in 1 .. n + 1 : base ^ d > n /\ (d = 1 \/ base ^ (d - 1) <= n) IN
    FoldLeft(LAMBDA text, i : text \o LET d == (n \div base ^ (length - i)) % base
                                      IN  SubSeq(digits, d + 1, d + 1),
             "", [i \in 1 .. length |-> i])

BaseConvert(f, s) ==
    LET lower == "0123456789abcdef"
        upper == "0123456789ABCDEF"
        value == {n \in Numbers \cap Nat : s \in {InBase(n, f.in, lower), InBase(n, f.in, upper)}}
    IN  IF value = {} THEN s
        ELSE InBase(CHOOSE n \in value : TRUE, f.out, IF f.capital THEN upper ELSE lower)

\* Split, BaseConvert, Strptime and Strftime.
ConversionFilters(f, v) ==
    LET source == getString(v)
    IN  CASE f.type = "Split" -> {Kept(Str(Split(f, source)))}
          [] f.type = "BaseConvert" -> {Kept(Str(BaseConvert(f, source)))}
          [] f.type = "FStrptime" -> {Kept(Integer(epoch * f.unit)) : epoch \in Dates(source)}
          [] f.type = "FStrftime" ->
                {Kept(Str(f.key \o ToString(n \div f.unit))) : n \in {x \in getInteger(v) : f.key # ""}}
          [] OTHER -> {}

FilterResults(f, v, l) ==
    TextFilters(f, v, l) \cup ConditionFilters(f, v, l) \cup NumberFilters(f, v)
        \cup DocumentFilters(f, v) \cup KeyFilters(f, v) \cup ConversionFilters(f, v)

-----------------------------------------------------------------------------
(* Going from an item to the next one.                                     *)

\* Mutant: the break condition is not looked at.
AfterIgnoringBreak(l) ==
    LET items == Items(l)
        open == {k \in 1 .. Len(l.at) : l.at[k] < Len(Siblings(items, SubSeq(l.at, 1, k)))}
    IN  IF open = {} THEN <<>>
        ELSE [SubSeq(l.at, 1, Max(open)) EXCEPT ![Max(open)] = @ + 1]

\* Mutant: an item is taken again after its fallbacks.
AfterRetriesItem(l) ==
    LET items == Items(l)
        k == Len(l.at)
    IN  IF l.at[k] < Len(Siblings(items, l.at)) /\ (k = 1 => ~l.break) THEN [l.at EXCEPT ![k] = @ + 1]
        ELSE Front(l.at)

\* The place after an item: the next one of its list, or of the nearest list
\* around it that has one; only the outermost list looks at breakCondition.
After(l) ==
    LET items == Items(l)
        open == {k \in 1 .. Len(l.at) :
                    /\ l.at[k] < Len(Siblings(items, SubSeq(l.at, 1, k)))
                    /\ k = 1 => ~l.break}
    IN  IF open = {} THEN <<>>
        ELSE [SubSeq(l.at, 1, Max(open)) EXCEPT ![Max(open)] = @ + 1]

GoTo(l, path) ==
    [l EXCEPT !.at = path, !.pc = IF path = <<>> THEN "finish" ELSE "source",
              !.eraser = FALSE, !.matches = <<>>]

\* The item is left; what became of it is recorded.
Leave(l, what) == GoTo([l EXCEPT !.outcome = Put(@, l.at, what)], After(l))

\* executeOnFilterFail: the fallbacks come first, if there are any.
Fail(l) ==
    IF Item(l).onFilterFail = <<>> THEN Leave(l, "filter")
    ELSE GoTo([l EXCEPT !.outcome = Put(@, l.at, "filter")], Append(l.at, 1))

-----------------------------------------------------------------------------
(* The head of transform(): defaults, schema of the request, response body. *)

\* getRequestSchema, getResponseSchema: the version that is used, 0 for none.
\* The cached one is returned as soon as there is one, and also when no
\* schema is left.
Schema(p, which) ==
    LET id == Provisions[p][which] IN
    IF id # "" /\ DOMAIN schemas # {} /\ cache[p][which] = 0 /\ id \in DOMAIN schemas
    THEN schemas[id] ELSE cache[p][which]

CacheSchema(p, which) ==
    cache' = [cache EXCEPT ![p][which] = Schema(p, which)]

\* A request has been classified to a provision.  The body is decoded if a
\* schema, or an item of the outermost list, needs it.
Begin(w) ==
    LET p == mix[requests + 1].prov
        r == mix[requests + 1].req
    IN
    /\ ctx[w].pc = "idle" /\ requests < Len(mix)
    /\ Provisions[p].side = "server"
    /\ requests' = requests + 1
    /\ CacheSchema(p, "requestSchema")
    /\ ctx' = [ctx EXCEPT ![w] =
         [pc |-> "validate", prov |-> p, list |-> "items", req |-> r, seq |-> requests + 1, at |-> <<>>,
          value |-> clear, origin |-> <<>>, eraser |-> FALSE, matches |-> <<>>, output |-> "",
          vars |-> r.vars, uses |-> FALSE, json |-> Null, break |-> FALSE, breakAt |-> 0, triggers |-> <<>>,
          body |-> IF \/ Schema(p, "requestSchema") # 0
                      \/ \E i \in DOMAIN Provisions[p].items :
                            Provisions[p].items[i].source.type = "RequestBody"
                   THEN decode(r) ELSE Undecoded,
          res |-> [code |-> Provisions[p].code, headers |-> Provisions[p].headers,
                   body |-> "", delay |-> Provisions[p].delay],
          out |-> [state |-> Provisions[p].outState, method |-> "", uri |-> ""],
          outcome |-> [q \in {} |-> ""]]]
    /\ UNCHANGED <<shared, schemas, buffer, mix, adminOps, answers>>

JsonTargets == {"ResponseBodyJson_String", "ResponseBodyJson_Integer", "ResponseBodyJson_Unsigned",
                "ResponseBodyJson_Float", "ResponseBodyJson_Boolean", "ResponseBodyJson_Object",
                "ResponseBodyJson_JsonString"}

\* The response body is cloned if an item of the outermost list writes it.
Prepared(l) ==
    LET uses == \E i \in DOMAIN Prov(l).items : Prov(l).items[i].target.type \in JsonTargets
        first == IF Prov(l).items = <<>> THEN <<>> ELSE <<1>>
    IN  GoTo([l EXCEPT !.uses = uses,
                       !.json = IF uses THEN Prov(l).body ELSE Null,
                       !.res.body = IF uses THEN "" ELSE Prov(l).bodyText], first)

\* The schema is validated with the body as decoded by Begin.
Rejects(l) ==
    LET version == Schema(l.prov, "requestSchema") IN
    version # 0 /\ ~Valid(Prov(l).requestSchema, version, l.body.json)

ValidateRequest(w) ==
    LET l == ctx[w] IN
    /\ l.pc = "validate"
    /\ CacheSchema(l.prov, "requestSchema")
    /\ ctx' = [ctx EXCEPT ![w] = IF Rejects(l) THEN [l EXCEPT !.res.code = 400, !.pc = "answer"]
                                 ELSE Prepared(l)]
    /\ UNCHANGED <<shared, schemas, buffer, mix, requests, adminOps, answers>>

-----------------------------------------------------------------------------
(* The stages of an item.                                                  *)

Set(w, l) == ctx' = [ctx EXCEPT ![w] = l]
At(w, pc) == ctx[w].pc = pc
Others == <<schemas, cache, mix, requests, adminOps, answers>>

\* After its source an item goes to its filter, if it has one.
Sourced(l) == [l EXCEPT !.pc = IF Item(l).filter.type = "None" THEN "target" ELSE "filter"]

Source(w) ==
    LET l == ctx[w] IN
    /\ At(w, "source")
    /\ Item(l).source.type \notin {"Eraser", "Command"}
    /\ \E v \in SourceValues(Item(l).source, l) :
         Set(w, Sourced([l EXCEPT !.value = v, !.origin = l.at]))
    /\ UNCHANGED <<shared, buffer, Others>>

\* Mutant: an item whose source fails is not skipped.
MissingSourceGoesOn(w) ==
    LET l == ctx[w] IN
    /\ At(w, "source")
    /\ Item(l).source.type \notin {"Eraser", "Command"}
    /\ SourceValues(Item(l).source, l) = {}
    /\ Set(w, Sourced(l))
    /\ UNCHANGED <<shared, buffer, Others>>

SkipOnSource(w) ==
    LET l == ctx[w] IN
    /\ At(w, "source")
    /\ Item(l).source.type \notin {"Eraser", "Command"}
    /\ SourceValues(Item(l).source, l) = {}
    /\ Set(w, Leave([l EXCEPT !.value = ValueAfterFailure(Item(l).source, l)], "source"))
    /\ UNCHANGED <<shared, buffer, Others>>

\* The eraser leaves the value of the item before.
Eraser(w) ==
    LET l == ctx[w] IN
    /\ At(w, "source") /\ Item(l).source.type = "Eraser"
    /\ Set(w, Sourced([l EXCEPT !.eraser = TRUE]))
    /\ UNCHANGED <<shared, buffer, Others>>

\* fgets writes the buffer all workers share; the text is taken from it in
\* another step, when another worker may have written it.
ReadCommand(w) ==
    LET l == ctx[w] IN
    /\ At(w, "source") /\ Item(l).source.type = "Command"
    /\ buffer' = [buffer EXCEPT ![Side(w)] = Run(Text(Item(l).source.name, l)).output]
    /\ Set(w, [l EXCEPT !.pc = "command", !.output = Text(Item(l).source.name, l)])
    /\ UNCHANGED <<shared, Others>>

FinishCommand(w) ==
    LET l == ctx[w] IN
    /\ At(w, "command")
    /\ Set(w, Sourced([l EXCEPT !.value = Str(buffer[Side(w)]), !.origin = l.at, !.output = "",
                                !.vars = Put(@, "rc", ToString(Run(l.output).rc))]))
    /\ UNCHANGED <<shared, buffer, Others>>

Filter(w) ==
    LET l == ctx[w] IN
    /\ At(w, "filter") /\ ~l.eraser
    /\ ~SplitThrows(Item(l).filter, l.value)
    /\ \E r \in FilterResults(Item(l).filter, l.value, l) :
         Set(w, [l EXCEPT !.value = r.value, !.matches = r.matches, !.pc = "target"])
    /\ UNCHANGED <<shared, buffer, Others>>

FailFilter(w) ==
    LET l == ctx[w] IN
    /\ At(w, "filter")
    /\ l.eraser \/ (~SplitThrows(Item(l).filter, l.value)
                    /\ FilterResults(Item(l).filter, l.value, l) = {})
    /\ Set(w, Fail(l))
    /\ UNCHANGED <<shared, buffer, Others>>

\* Nothing catches what a filter throws: transform() ends without an answer.
ThrowFilter(w) ==
    LET l == ctx[w] IN
    /\ At(w, "filter") /\ ~l.eraser
    /\ SplitThrows(Item(l).filter, l.value)
    /\ Set(w, [l EXCEPT !.pc = "thrown"])
    /\ UNCHANGED <<shared, buffer, Others>>

-----------------------------------------------------------------------------
(* processTargets.  A target that fails, or throws, changes nothing.       *)

\* The document with a node set: exceptions of the JSON library leave it.
SetNode(j, path, node) ==
    IF path = "" THEN node
    ELSE IF j.type = "Null" THEN Object(path :> node)
    ELSE IF j.type = "Object" /\ ~j.array THEN Object(Put(j.f, path, node))
    ELSE j

\* nlohmann::json::merge_patch
MergePatch(j, patch) ==
    IF patch.array THEN patch
    ELSE LET old == IF j.type = "Object" /\ ~j.array THEN j.f ELSE Empty
             nulls == {k \in DOMAIN patch.f : patch.f[k].type = "Null"}
         IN  Object(Drop(patch.f @@ old, nulls))

EraseNode(j, path) ==
    IF path = "" THEN (IF j.type = "Object" THEN [j EXCEPT !.f = Empty] ELSE Null)
    ELSE IF j.type = "Object" /\ ~j.array THEN Object(Drop(j.f, {path})) ELSE j

\* The documents a response.body.json target may leave; none if it fails.
JsonBodies(t, l) ==
    LET path == Text(t.name, l)
        v == l.value
        Nodes(nodes) == {SetNode(l.json, path, n) : n \in nodes}
        Patched(docs) == {IF path = "" THEN MergePatch(l.json, d) ELSE SetNode(l.json, path, d) : d \in docs}
    IN  CASE t.type = "ResponseBodyJson_String" -> Nodes({Str(getString(v))})
          [] t.type = "ResponseBodyJson_Integer" -> Nodes({Integer(n) : n \in getInteger(v)})
          [] t.type = "ResponseBodyJson_Unsigned" -> Nodes({Unsigned(n) : n \in getUnsigned(v)})
          [] t.type = "ResponseBodyJson_Float" -> Nodes({Float(n) : n \in getFloat(v)})
          [] t.type = "ResponseBodyJson_Boolean" -> Nodes({Boolean(b) : b \in getBoolean(v)})
          [] t.type = "ResponseBodyJson_Object" ->
                IF l.eraser THEN {EraseNode(l.json, path)}
                ELSE IF v.type = "Object" THEN Patched({v}) ELSE Nodes({v})
          [] t.type = "ResponseBodyJson_JsonString" -> Patched(parseJsonContent(getString(v)))
          [] OTHER -> {}

\* A text with an invalid digit leaves the bytes before that digit in the body
\* although the target fails.
TextBodies(t, l) ==
    CASE t.type = "ResponseBodyString" -> {[l.res EXCEPT !.body = getString(l.value)]}
      [] t.type = "ResponseBodyHexString" -> {[l.res EXCEPT !.body = b] : b \in fromHexString(getString(l.value))}
      [] OTHER -> {}

\* The targets that write the rest of the response.
ResponseTargets(t, l) ==
    LET name == Text(t.name, l) IN
    CASE t.type = "ResponseHeader_t" ->
            {[l.res EXCEPT !.headers = Put(@, name, (IF name \in DOMAIN @ THEN @[name] ELSE <<>>)
                                                     \o <<getString(l.value)>>)]}
      [] t.type = "ResponseStatusCode_t" -> {[l.res EXCEPT !.code = n] : n \in getUnsigned(l.value)}
      [] t.type = "ResponseDelayMs" -> {[l.res EXCEPT !.delay = n] : n \in getUnsigned(l.value)}
      [] OTHER -> {}

\* The captures as variables name.first, name.(first + 1), ...
Captured(name, matches, first) ==
    [k \in {name \o "." \o ToString(i) : i \in first .. Len(matches) - 1} |->
        matches[1 + CHOOSE i \in first .. Len(matches) - 1 : k = name \o "." \o ToString(i)]]

VarTarget(t, l) ==
    LET name == Text(t.name, l)
        text == getString(l.value)
        filter == Item(l).filter.type
    IN  CASE filter = "RegexCapture" ->
                Captured(name, l.matches, 1) @@ Put(l.vars, name, l.matches[1])
          [] filter = "RegexKey" -> Captured(name, l.matches, 0) @@ Put(l.vars, name, text)
          [] filter \in {"JsonConstraint", "SchemaId"} /\ text # "1" ->
                Put(Put(l.vars, name \o ".fail", text), name, "")
          [] OTHER -> Put(l.vars, name, text)

\* Vault::load and Vault::loadAtPath: an entry that is no object becomes one.
Loaded(name, path, node) ==
    IF path = "" THEN Put(vault, name, node)
    ELSE LET old == IF name \in DOMAIN vault /\ vault[name].type = "Object" /\ ~vault[name].array
                    THEN vault[name].f ELSE Empty
         IN  Put(vault, name, Object(Put(old, path, node)))

\* The vaults a vault target may leave; none if it fails.
Vaults(t, l) ==
    LET name == Text(t.name, l)
        path == Text(t.name2, l)
        captures == [k \in {ToString(i - 1) : i \in DOMAIN l.matches} |->
                        Str(l.matches[CHOOSE i \in DOMAIN l.matches : k = ToString(i - 1)])]
    IN  CASE t.type = "TGVar" /\ l.eraser -> {Drop(vault, {name})}
          [] t.type = "TGVar" /\ ~l.eraser ->
                {Loaded(name, path, IF Item(l).filter.type = "RegexCapture" THEN Object(captures)
                                    ELSE IF l.value.type = "Object" THEN l.value
                                    ELSE Str(getString(l.value)))}
          [] t.type = "TGVarJson_Object" -> {Loaded(name, path, v) : v \in getObject(l.value)}
          [] t.type = "TGVarJson_JsonString" ->
                {Loaded(name, path, d) : d \in parseJsonContent(getString(l.value))}
          [] OTHER -> {}

AtTarget(w, types) == At(w, "target") /\ Item(ctx[w]).target.type \in types

\* Response body, header, status code and delay.
TargetResponse(w) ==
    LET l == ctx[w]
        t == Item(l).target
    IN  /\ AtTarget(w, JsonTargets \cup {"ResponseBodyString", "ResponseBodyHexString",
                                         "ResponseHeader_t", "ResponseStatusCode_t", "ResponseDelayMs"})
        /\ \/ \E j \in JsonBodies(t, l) : Set(w, Leave([l EXCEPT !.json = j], "target"))
           \/ \E r \in TextBodies(t, l) \cup ResponseTargets(t, l) : Set(w, Leave([l EXCEPT !.res = r], "target"))
           \/ /\ JsonBodies(t, l) = {} /\ TextBodies(t, l) \cup ResponseTargets(t, l) = {}
              /\ Set(w, Leave(l, "target"))
        /\ UNCHANGED <<shared, buffer, Others>>

TargetVar(w) ==
    LET l == ctx[w] IN
    /\ AtTarget(w, {"TVar"})
    /\ Set(w, Leave([l EXCEPT !.vars = VarTarget(Item(l).target, l)], "target"))
    /\ UNCHANGED <<shared, buffer, Others>>

\* With RegexKey the captures become variables of the request as well.
TargetVault(w) ==
    LET l == ctx[w]
        t == Item(l).target
        new == IF t.type = "TGVar" /\ Item(l).filter.type = "RegexKey" /\ ~l.eraser
               THEN Captured(Text(t.name, l), l.matches, 0) @@ l.vars ELSE l.vars
    IN  /\ AtTarget(w, {"TGVar", "TGVarJson_Object", "TGVarJson_JsonString"})
        /\ \/ \E v \in Vaults(t, l) :
                /\ vault' = v
                /\ Set(w, Leave([l EXCEPT !.vars = new], "target"))
           \/ /\ Vaults(t, l) = {}
              /\ Set(w, Leave(l, "target")) /\ UNCHANGED vault
        /\ UNCHANGED <<files, sent, events, clientEvents, buffer, Others>>

TargetOutState(w) ==
    LET l == ctx[w]
        t == Item(l).target
    IN  /\ AtTarget(w, {"OutState"})
        /\ Set(w, Leave([l EXCEPT !.out = [state |-> getString(l.value), method |-> Text(t.name, l),
                                           uri |-> Text(t.name2, l)]], "target"))
        /\ UNCHANGED <<shared, buffer, Others>>

\* file_manager_: the eraser empties the file, anything else is appended.
TargetFile(w) ==
    LET l == ctx[w]
        path == Text(Item(l).target.name, l)
        old == IF path \in DOMAIN files THEN files[path] ELSE ""
    IN  /\ AtTarget(w, {"TTxtFile", "TBinFile"})
        /\ files' = Put(files, path, IF l.eraser THEN "" ELSE old \o getString(l.value))
        /\ Set(w, Leave(l, "target"))
        /\ UNCHANGED <<vault, sent, events, clientEvents, buffer, Others>>

TargetSocket(w) ==
    LET l == ctx[w] IN
    /\ AtTarget(w, {"UDPSocket"})
    /\ sent' = sent \cup {<<Text(Item(l).target.name, l), getString(l.value)>>}
    /\ Set(w, Leave(l, "target"))
    /\ UNCHANGED <<vault, files, events, clientEvents, buffer, Others>>

\* The events without the selected ones; an empty history goes away.
Purged(all, key, number, seq) ==
    IF key = "" /\ number = "" /\ seq = "" THEN Empty
    ELSE IF key \notin DOMAIN all THEN all
    ELSE IF number = "" /\ seq = "" THEN Drop(all, {key})
    ELSE LET h == all[key]
             gone == {h[i] : i \in Selected(h, number, seq)}
             rest == SelectSeq(h, LAMBDA e : e \notin gone)
         IN  IF rest = <<>> THEN Drop(all, {key}) ELSE Put(all, key, rest)

TargetPurge(w) ==
    LET l == ctx[w]
        t == Item(l).target
    IN  /\ AtTarget(w, {"ServerEventToPurge"})
        /\ events' = IF l.eraser THEN Purged(events, Text(t.name, l), Text(t.number, l), Text(t.seq, l))
                     ELSE events
        /\ Set(w, Leave(l, "target"))
        /\ UNCHANGED <<vault, files, sent, clientEvents, buffer, Others>>

\* The source is a gate: an empty text, or the eraser, triggers nothing.
TargetClientProvision(w) ==
    LET l == ctx[w]
        t == Item(l).target
        trigger == IF l.eraser \/ getString(l.value) = "" THEN <<>>
                   ELSE <<[id |-> Text(t.name, l), inState |-> Text(t.name2, l)]>>
    IN  /\ AtTarget(w, {"ClientProvision_t"})
        /\ Set(w, Leave([l EXCEPT !.triggers = @ \o trigger], "target"))
        /\ UNCHANGED <<shared, buffer, Others>>

TargetBreak(w) ==
    LET l == ctx[w]
        broken == getString(l.value) # ""
    IN  /\ AtTarget(w, {"Break"})
        /\ Set(w, Leave([l EXCEPT !.break = @ \/ broken,
                                  !.breakAt = IF broken /\ ~l.break THEN l.at[1] ELSE @], "target"))
        /\ UNCHANGED <<shared, buffer, Others>>

-----------------------------------------------------------------------------
(* The end of transform().                                                 *)

\* The document that was built is dumped; the schema of the response is
\* checked on it, and a failure only overwrites the status code.
Finish(w) ==
    LET l == ctx[w]
        version == Schema(l.prov, "responseSchema")
        invalid == version # 0 /\ ~Valid(Prov(l).responseSchema, version, IF l.uses THEN l.json ELSE Prov(l).body)
    IN  /\ At(w, "finish")
        /\ CacheSchema(l.prov, "responseSchema")
        /\ Set(w, [l EXCEPT !.pc = "answer",
                            !.res.body = IF l.uses /\ ~EmptyJson(l.json) THEN jsonToString(l.json) ELSE @,
                            !.res.code = IF invalid THEN 500 ELSE @])
        /\ UNCHANGED <<shared, schemas, buffer, mix, requests, adminOps, answers>>

\* The caller sends the answer; the worker is free for another request.
Answer(w) ==
    LET l == ctx[w] IN
    /\ At(w, "answer")
    /\ answers' = answers \cup {[prov |-> l.prov, req |-> l.req, res |-> l.res, out |-> l.out,
                                 triggers |-> l.triggers]}
    /\ Set(w, Idle)
    /\ UNCHANGED <<shared, schemas, cache, buffer, mix, requests, adminOps>>

\* The administrator loads a schema again, with another content, or removes all.
LoadSchema(id) ==
    /\ adminOps < MaxAdminOps /\ adminOps' = adminOps + 1
    /\ schemas' = Put(schemas, id, adminOps + 2)
    /\ UNCHANGED <<ctx, shared, cache, buffer, mix, requests, answers>>

ClearSchemas ==
    /\ adminOps < MaxAdminOps /\ adminOps' = adminOps + 1
    /\ schemas' = [id \in {} |-> 0]
    /\ UNCHANGED <<ctx, shared, cache, buffer, mix, requests, answers>>

-----------------------------------------------------------------------------
Init ==
    /\ ctx = [w \in Threads |-> Idle]
    /\ vault = InitialVault /\ events = InitialEvents /\ clientEvents = InitialClientEvents
    /\ files = [k \in {} |-> ""] /\ sent = {}
    /\ schemas = [id \in SchemaIds |-> 1]
    /\ cache = [p \in DOMAIN Provisions |-> [requestSchema |-> 0, responseSchema |-> 0]]
    /\ buffer = [server |-> "", client |-> ""]
    /\ mix \in Mixes
    /\ requests = 0 /\ adminOps = 0 /\ answers = {}

Target(w) ==
    \/ TargetResponse(w) \/ TargetVar(w) \/ TargetVault(w) \/ TargetOutState(w) \/ TargetFile(w)
    \/ TargetSocket(w) \/ TargetPurge(w) \/ TargetClientProvision(w) \/ TargetBreak(w)

\* The steps of a worker that has a request.
Work(w) ==
    \/ ValidateRequest(w)
    \/ Source(w) \/ SkipOnSource(w) \/ Eraser(w) \/ ReadCommand(w) \/ FinishCommand(w)
    \/ Filter(w) \/ FailFilter(w) \/ ThrowFilter(w)
    \/ Target(w)
    \/ Finish(w) \/ Answer(w)

\* No request is left, and none is being served.
Done ==
    /\ requests = Len(mix) /\ \A w \in Threads : ctx[w].pc \in {"idle", "thrown"}
    /\ UNCHANGED vars

Next ==
    \/ \E w \in Workers : Begin(w) \/ Work(w)
    \/ \E id \in SchemaIds : LoadSchema(id)
    \/ ClearSchemas
    \/ Done

Spec == Init /\ [][Next]_vars

-----------------------------------------------------------------------------
Busy(w) == ctx[w].pc # "idle"

Stage == [validate |-> 0, source |-> 1, command |-> 2, filter |-> 3, target |-> 4, thrown |-> 5,
          finish |-> 6, sent |-> 7, answer |-> 8]

\* Types: a busy worker is at one item of its provision, or at none.
TypeOK ==
    /\ \A w \in Threads : Busy(w) =>
         LET l == ctx[w] IN
         /\ l.pc \in DOMAIN Stage
         /\ l.pc \in {"source", "command", "filter", "target", "thrown"} <=> l.at # <<>>
         /\ l.at # <<>> => Last(l.at) \in DOMAIN Siblings(Items(l), l.at)
         /\ l.value.type \in {"String", "Integer", "Unsigned", "Float", "Boolean", "Object"}
         /\ l.json.type \in {"Null", "String", "Integer", "Unsigned", "Float", "Boolean", "Object"}
         /\ DOMAIN l.outcome \subseteq Seq(Nat \ {0})
    /\ \A all \in {events, clientEvents} : \A k \in DOMAIN all : all[k] # <<>>
    /\ requests \in 0 .. Len(mix) /\ adminOps \in 0 .. MaxAdminOps

\* A target that is not reached through the eraser gets the value of its own
\* item, never what an item before it, or a fallback in between, left in the
\* value all items of a request share (sourceVault).
NoStaleValue ==
    \A w \in Threads : At(w, "target") /\ ~ctx[w].eraser => ctx[w].origin = ctx[w].at

\* When the list ends, the items that were treated are those up to the one that
\* broke it, in whatever fallback the break was, and none behind it; and all the
\* fallbacks (onFilterFail), at any depth, of the items whose filter failed, and
\* of no item whose source is missing or that reached its target.
TreatedAsProvisioned ==
    \A w \in Threads : At(w, "finish") =>
        LET l == ctx[w]
            last == IF l.break THEN l.breakAt ELSE Len(Items(l))
            Fallbacks(q) == {Append(q, i) : i \in DOMAIN Siblings(Items(l), Append(q, 1))}
        IN  DOMAIN l.outcome =
              {<<i>> : i \in 1 .. last}
                \cup UNION {Fallbacks(q) : q \in {p \in DOMAIN l.outcome : l.outcome[p] = "filter"}}

\* The answer of a provision that reads only its request, its own variables
\* and vault entries no other request uses depends on the request alone: the
\* variables of a request have priority over vault entries of the same name,
\* whatever the other workers write meanwhile.
OwnVariablesDecide ==
    \A a, b \in answers : a.prov = b.prov /\ a.prov \in SelfContained /\ a.req = b.req => a = b

\* In the order of the document q comes after p.
Later(p, q) ==
    \/ Len(q) > Len(p) /\ SubSeq(q, 1, Len(p)) = p
    \/ \E k \in 1 .. Min({Len(p), Len(q)}) :
         SubSeq(p, 1, k - 1) = SubSeq(q, 1, k - 1) /\ p[k] < q[k]

\* Every step takes a worker forward: to a later stage of its item, to an item
\* that comes later in the document, or to the end; or, for a client provision
\* whose request was sent, to its items for the response.  As no worker is ever stuck
\* (TLC looks for deadlocks), transform() ends for every request, however deep
\* the fallbacks are nested; without an answer only by the exception of a split.
MovesForward ==
    [][\A w \in Threads : ctx'[w] # ctx[w] /\ Busy(w) /\ ctx'[w].pc # "idle" =>
         \/ /\ ctx[w].list = ctx'[w].list
            /\ \/ ctx[w].at = ctx'[w].at /\ Stage[ctx[w].pc] < Stage[ctx'[w].pc]
               \/ Later(ctx[w].at, ctx'[w].at)
               \/ ctx'[w].pc = "finish"
         \/ ctx[w].pc = "sent" /\ ctx[w].list = "items" /\ ctx'[w].list = "onResponse"]_vars
=============================================================================
