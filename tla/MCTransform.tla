---------------------------- MODULE MCTransform ----------------------------
(***************************************************************************)
(* Provisions, requests and tables that exercise every source, filter and  *)
(* target of Transform and ClientTransform, alone and against each other.  *)
(***************************************************************************)
EXTENDS ClientTransform

MCNumbers == -3 .. 40
MCDocuments == {Object([id |-> Str("7")])}
MCBinary == {"bin"}
MCSchemaIds == {"S"}
MCTimes == {3}
MCInitialVault == ("v" :> Str("shared")) @@ ("doc" :> Object([id |-> Str("7"), n |-> Integer(-2), none |-> Null]))
MCInitialEvents == "POST/a" :> <<[seq |-> 1, doc |-> Object([id |-> Str("e1")])],
                                 [seq |-> 2, doc |-> Object([id |-> Str("e2")])]>>
MCInitialClientEvents == "c/GET/b" :> <<[seq |-> 1, doc |-> Object([status |-> Unsigned(20)])]>>

\* Regular expressions: "id" captures a group of "id-x", "n" matches the key n.
MCMatch(re, text) ==
    CASE re = "id" /\ text = "id-x" -> <<"id-x", "x">>
      [] re = "n" /\ text = "n" -> <<"n">>
      [] OTHER -> <<>>
MCReplace(re, text) == IF text = "id-x" THEN "x" ELSE text
MCEval(expr) == IF expr = "half" THEN Float(5) ELSE Integer(2)
MCRun(command) == [output |-> "out of " \o command, rc |-> 0]
MCDates(text) == {n \in 0 .. 9 : text = "day " \o ToString(n)}
MCValid(id, version, doc) == doc.type = "Object" /\ (IF version = 1 THEN "id" ELSE "new") \in DOMAIN doc.f

T(s) == <<Lit(s)>>
Src(type, name) == [type |-> type, name |-> name, key |-> "", path |-> <<>>, number |-> <<>>, seq |-> <<>>]
Named(type, key) == [Src(type, <<>>) EXCEPT !.key = key]
Value(s) == Src("Value", T(s))
None == [type |-> "None"]
Tgt(type, name) == [type |-> type, name |-> name, name2 |-> <<>>, number |-> <<>>, seq |-> <<>>]
Var(name) == Tgt("TVar", T(name))
Node(type, path) == Tgt("ResponseBodyJson_" \o type, T(path))
Item3(s, f, t) == [source |-> s, filter |-> f, target |-> t, onFilterFail |-> <<>>]
Simple(s, t) == Item3(s, None, t)
Else(item, fallbacks) == [item EXCEPT !.onFilterFail = fallbacks]
EqualTo(s) == [type |-> "EqualTo", text |-> T(s)]
TextFilter(type, s) == [type |-> type, text |-> T(s)]
RegexFilter(type, s) == [type |-> type, key |-> s]
Number(type, number, n) == [type |-> type, number |-> number, operand |-> n]

Provision(items) ==
    [side |-> "server", code |-> 200, headers |-> [k \in {} |-> <<>>], body |-> Object([id |-> Str("7")]),
     bodyText |-> "body", delay |-> 0, inState |-> "initial", outState |-> "initial",
     requestSchema |-> "", responseSchema |-> "", items |-> items]

-----------------------------------------------------------------------------
\* Every source, into a variable or the response.
RequestItems == <<
    Simple(Src("RequestUri", <<>>), Var("a")),
    Simple(Src("RequestUriPath", <<>>), Tgt("ResponseHeader_t", T("path"))),
    Simple(Named("RequestUriParam", "q"), Tgt("ResponseHeader_t", T("path"))),
    Simple(Named("RequestUriParam", "missing"), Var("b")),
    Simple(Src("RequestBody", T("id")), Node("String", "id")),
    Simple(Named("RequestHeader", "h"), Node("Object", "h")),
    Simple(Named("RequestHeader", "missing"), Node("Object", "h2")),
    Simple(Src("RequestHeaders", <<>>), Node("Object", "all")),
    Simple(Src("ResponseHeaders", <<>>), Var("c")),
    Simple(Src("ResponseBody", T("h")), Var("d")),
    Simple(Src("ResponseBody", T("missing")), Var("e")) >>

\* Parts of bodies of every type.
DecodeItems == <<
    Simple(Src("RequestBody", <<>>), Tgt("TGVar", T("body"))),
    Simple(Src("RequestBody", T("multipart.1/content")), Tgt("TGVar", T("first"))),
    Item3(Src("RequestBody", T("multipart.2/content")), TextFilter("Append", "!"), Tgt("TGVar", T("second"))) >>

ComputedItems == <<
    Simple(Src("Math", T("half")), Node("Float", "f")),
    Simple(Src("Math", T("two")), Node("Integer", "i")),
    Simple([Src("Random", <<>>) EXCEPT !.key = "r"] @@ [from |-> 1, to |-> 2], Node("Unsigned", "u")),
    Simple(Src("RandomSet", <<>>) @@ [tokens |-> {T("x"), <<Ref("v")>>}], Var("set")),
    Simple(Src("Timestamp", <<>>), Tgt("ResponseDelayMs", <<>>)),
    Simple(Src("Strftime", T("day ")), Node("Boolean", "b")),
    Simple(Src("Recvseq", <<>>), Tgt("ResponseStatusCode_t", <<>>)),
    Simple(Value("x"), Tgt("ResponseStatusCode_t", <<>>)) >>

StoredItems == <<
    Simple([Src("SGVar", T("doc")) EXCEPT !.path = T("n")], Node("Integer", "n")),
    Simple([Src("SGVar", T("doc")) EXCEPT !.path = T("none")], Node("Integer", "none")),
    Simple(Src("SGVar", T("unknown")), Node("Object", "g")),
    Simple([Src("ServerEvent", T("POST/a")) EXCEPT !.number = T("-1"), !.path = T("id")], Node("String", "last")),
    Simple([Src("ServerEvent", T("POST/a")) EXCEPT !.seq = T("1")], Node("Object", "")),
    Simple([Src("ClientEvent", T("c/GET/b")) EXCEPT !.number = T("1"), !.path = T("status")], Node("Unsigned", "s")),
    Simple(Src("InState", <<>>), Tgt("OutState", T("GET"))),
    Simple(Src("SVar", T("missing")), Tgt("ResponseBodyString", <<>>)),
    Simple(Src("STxtFile", T("f")), Node("String", "file")) >>

\* Text and number filters.
TextItems == <<
    Item3(Value("id-x"), RegexFilter("RegexCapture", "id"), Var("m")),
    Item3(Value("id-x"), RegexFilter("RegexCapture", "id"), Tgt("TGVar", T("m"))),
    Item3(Value("id-x"), RegexFilter("RegexReplace", "id"), Tgt("TGVar", T("r"))),
    Item3(Value("41"), TextFilter("Append", "42"), Tgt("ResponseBodyHexString", <<>>)),
    Item3(Value("xy"), TextFilter("Prepend", "41"), Tgt("ResponseBodyHexString", <<>>)),
    Item3(Value("x"), [type |-> "ConditionVar", key |-> "m", reverse |-> FALSE], Var("c1")),
    Item3(Value("x"), [type |-> "ConditionVar", key |-> "unknown", reverse |-> TRUE], Var("c2")),
    Item3(Value("x"), [type |-> "DifferentFrom", text |-> T("x")], Var("c3")) >>

NumberItems == <<
    Item3(Value("3"), Number("Sum", "integer", 4), Var("a")),
    Item3(Value("no"), Number("Multiply", "integer", 4), Var("b")),
    Item3(Src("SVar", T("a")), Number("Sum", "unsigned", -9), Var("c")),
    Item3(Value("2"), Number("Multiply", "float", 3), Node("Object", "d")),
    Item3(Value("12"), [type |-> "Split", size |-> 1, count |-> 3, sep |-> ".", filler |-> "0", numeric |-> TRUE],
          Tgt("ResponseHeader_t", T("split"))),
    Item3(Value("1f"), [type |-> "BaseConvert", in |-> 16, out |-> 2, capital |-> FALSE], Node("String", "bits")),
    Item3(Value("day 3"), [type |-> "FStrptime", unit |-> 1, key |-> "day "], Var("epoch")),
    Item3(Src("SVar", T("epoch")), [type |-> "FStrftime", unit |-> 1, key |-> "day "], Var("day")),
    Item3(Value("1"), [type |-> "Split", size |-> 1, count |-> 3, sep |-> ".", filler |-> "", numeric |-> FALSE], Var("z")) >>

DocumentItems == <<
    Item3(Src("SGVar", T("doc")), [type |-> "JsonConstraint", expected |-> Object([id |-> Str("8")])], Var("check")),
    Item3(Src("SGVar", T("doc")), [type |-> "SchemaId", key |-> "S"], Var("schema")),
    Item3(Src("SGVar", T("doc")), [type |-> "RegexKey", key |-> "n"], Tgt("TGVar", T("n"))),
    Item3(Src("SGVar", T("doc")), [type |-> "Size"], Node("Integer", "size")),
    Simple(Src("SGVar", T("doc")), Tgt("TGVarJson_Object", T("copy"))),
    Simple(Value("text"), Tgt("TGVarJson_Object", T("copy"))),
    Simple(Value(ToString([id |-> Str("7")])), Node("JsonString", "")),
    Simple(Value(ToString([id |-> Str("7")])), [Tgt("TGVarJson_JsonString", T("v")) EXCEPT !.name2 = T("k")]) >>

-----------------------------------------------------------------------------
\* The targets with effects outside the response, and the eraser.
EffectItems == <<
    Simple(Src("Command", T("date")), Tgt("TTxtFile", T("f"))),
    Simple(Src("SVar", T("rc")), Tgt("UDPSocket", T("/tmp/udp|0"))),
    Simple(Src("SBinFile", T("f")), Tgt("TBinFile", T("g"))),
    Simple(Src("Eraser", <<>>), Tgt("TTxtFile", T("f"))),
    Simple(Value("go"), [Tgt("ClientProvision_t", T("flow")) EXCEPT !.name2 = T("initial")]),
    Simple(Src("Eraser", <<>>), [Tgt("ClientProvision_t", T("flow")) EXCEPT !.name2 = T("initial")]),
    Simple(Src("Eraser", <<>>), [Tgt("ServerEventToPurge", T("POST/a")) EXCEPT !.seq = T("1")]),
    Simple(Value("x"), [Tgt("ServerEventToPurge", T("POST/a")) EXCEPT !.number = T("1")]),
    Simple(Src("Eraser", <<>>), [Tgt("ServerEventToPurge", T("POST/a")) EXCEPT !.number = T("-1")]),
    Simple(Src("Eraser", <<>>), Node("Object", "id")) >>

\* Decisions: fallbacks of fallbacks, a break inside one, an item behind it.
DecisionItems == <<
    Else(Item3(Src("SVar", T("missing")), EqualTo("x"), Var("a")), << Simple(Value("no"), Var("never")) >>),
    Else(Item3(Src("SGVar", T("v")), EqualTo("shared"), Var("level")), <<
        Else(Item3(Src("SGVar", T("v")), EqualTo("other"), Var("level")), <<
            Simple(Value("neither"), Var("level")),
            Simple(Value("stop"), Tgt("Break", <<>>)) >>),
        Simple(Src("SVar", T("level")), Tgt("ResponseBodyString", <<>>)) >>),
    Else(Item3(Src("Eraser", <<>>), EqualTo(""), Var("b")), << Simple(Value(""), Tgt("Break", <<>>)) >>),
    Simple(Src("SVar", T("level")), Tgt("ResponseBodyString", <<>>)),
    Simple(Src("SVar", T("missing")), Tgt("OutState", <<>>)) >>

\* The name v is a variable of the request and a vault entry; flow_<id> is
\* an entry of this request alone.
OwnItems == <<
    Simple(Src("Value", <<Ref("v")>>), Tgt("TGVar", <<Lit("flow_"), Ref("id")>>)),
    Item3(Src("SGVar", <<Lit("flow_"), Ref("id")>>), [type |-> "Append", text |-> <<Ref("id")>>],
          Tgt("ResponseBodyString", <<>>)) >>

WriteItems(text) == << Simple(Value(text), Tgt("TGVar", T("v"))) >>
RemoveItems == << Simple(Src("Eraser", <<>>), Tgt("TGVar", T("v"))) >>

\* With schemas for request and response.
CheckedItems == <<
    Simple(Value("accepted"), Tgt("TGVar", T("v"))),
    Simple(Value("next"), Tgt("OutState", <<>>)) >>

-----------------------------------------------------------------------------
\* Client provisions: the items of the request, and those of the response.
ClientProvision(items, onResponse) ==
    [side |-> "client", method |-> "GET", uri |-> "/c", headers |-> [h |-> <<"x">>],
     body |-> Object([id |-> Str("7")]), bodyText |-> "body", delay |-> 0, timeout |-> 0, expected |-> 0,
     inState |-> "initial", outState |-> "road-closed", requestSchema |-> "", responseSchema |-> "",
     items |-> items, onResponse |-> onResponse]
Field(type, path) == Tgt("RequestBodyJson_" \o type, T(path))

FetchItems == <<
    Simple(Src("RequestUri", <<>>), Field("String", "uri")),
    Simple(Src("RequestBody", T("id")), Field("Object", "copy")),
    Simple(Named("RequestHeader", "h"), Tgt("RequestHeader_t", T("h"))),
    Simple(Src("RequestHeaders", <<>>), Var("all")),
    Simple(Src("ResponseStatusCode", <<>>), Var("early")),
    Simple(Src("ResponseBody", T("id")), Var("early")),
    Simple(Src("Sendseq", <<>>), Field("Unsigned", "seq")),
    Simple(Src("SVar", T("sequence")), Tgt("RequestDelayMs", <<>>)),
    Simple(Value("9"), Tgt("RequestTimeoutMs", <<>>)),
    Simple(Value("/d"), Tgt("RequestUri_t", <<>>)),
    Simple(Value("PUT"), Tgt("RequestMethod_t", <<>>)),
    Simple(Src("Recvseq", <<>>), Var("never")),
    Simple(Src("Eraser", <<>>), Field("Object", "copy")),
    Simple(Value("x"), Tgt("ResponseBodyString", <<>>)) >>

FetchedItems == <<
    Simple(Src("ResponseStatusCode", <<>>), Tgt("OutState", <<>>)),
    Item3(Src("ResponseBody", T("id")), [type |-> "ConditionVar", key |-> "early", reverse |-> TRUE], Var("id")),
    Simple(Named("ResponseHeader", "h"), Var("h")),
    Simple(Src("ResponseHeaders", <<>>), Tgt("TGVar", T("headers"))),
    Simple(Src("Sendseq", <<>>), Var("seq")),
    Simple(Value("/late"), Tgt("RequestUri_t", <<>>)),
    Simple(Src("RequestUri", <<>>), Var("uri")),
    Simple(Src("Eraser", <<>>), [Tgt("ClientEventToPurge", T("c/GET/b")) EXCEPT !.number = T("1")]) >>

\* Filters that differ from those of a server provision, and fallbacks.
JudgeItems == <<
    Item3(Src("SGVar", T("doc")), [type |-> "ConditionVar", key |-> "v", reverse |-> FALSE], Var("vaulted")),
    Else(Item3(Value("text"), [type |-> "SchemaId", key |-> "S"], Var("valid")),
         << Simple(Value("0x4a4A"), Tgt("RequestBodyHexString", <<>>)) >>),
    Item3(Value(ToString([id |-> Str("7")])), [type |-> "SchemaId", key |-> "S"], Var("valid")),
    Item3(Value(ToString([id |-> Str("7")])), [type |-> "JsonConstraint", expected |-> Object([id |-> Str("8")])],
          Var("check")),
    Simple(Src("Command", T("date")), Tgt("RequestBodyString", <<>>)) >>

JudgedItems == <<
    Else(Item3(Src("ResponseBody", T("missing")), EqualTo("x"), Var("a")), << Simple(Value("no"), Var("never")) >>),
    Else(Item3(Src("ResponseBody", <<>>), EqualTo("x"), Var("a")), <<
        Simple(Value("stop"), Tgt("Break", <<>>)),
        Simple(Value("after"), Tgt("TBinFile", T("f"))) >>),
    Simple(Value("behind"), Tgt("UDPSocket", T("/tmp/udp|0"))) >>

\* The name v is a variable of the flow and a vault entry.
OwnFlowItems == <<
    Simple(Src("Value", <<Ref("v"), Ref("sequence")>>), Tgt("TGVar", <<Lit("flow_"), Ref("sequence")>>)),
    Item3(Src("SGVar", <<Lit("flow_"), Ref("sequence")>>), [type |-> "Append", text |-> <<Ref("v")>>],
          Tgt("RequestBodyString", <<>>)) >>
OwnFlowResponse == <<
    Simple(Src("SGVar", <<Lit("flow_"), Ref("sequence")>>), Tgt("OutState", <<>>)) >>

MCProvisions == [
    fetch |-> ClientProvision(FetchItems, FetchedItems),
    judge |-> [ClientProvision(JudgeItems, JudgedItems) EXCEPT !.expected = 200],
    ownflow |-> ClientProvision(OwnFlowItems, OwnFlowResponse),
    checkflow |-> [ClientProvision(<< Simple(Src("RequestBody", <<>>), Field("Object", "copy")),
                                      Simple(Src("Eraser", <<>>), Field("Object", "id")) >>, <<>>)
                      EXCEPT !.requestSchema = "S", !.responseSchema = "S"],
    plainflow |-> [ClientProvision(<<>>, <<>>) EXCEPT !.requestSchema = "S", !.responseSchema = "S"],
    request |-> Provision(RequestItems),
    decoded |-> Provision(DecodeItems),
    computed |-> Provision(ComputedItems),
    stored |-> Provision(StoredItems),
    text |-> Provision(TextItems),
    number |-> Provision(NumberItems),
    document |-> Provision(DocumentItems),
    effect |-> Provision(EffectItems),
    decision |-> Provision(DecisionItems),
    own |-> Provision(OwnItems),
    write |-> Provision(WriteItems("other")),
    write2 |-> Provision(WriteItems("third")),
    remove |-> Provision(RemoveItems),
    checked |-> [Provision(CheckedItems) EXCEPT !.requestSchema = "S", !.responseSchema = "S"]]

MCSelfContained == {"own", "request", "ownflow"}

\* A request, and the variables its chain brings along.
Request(json, chain) ==
    [uri |-> "/a?q=1", path |-> "/a", query |-> [q |-> "1"], headers |-> [h |-> "x"],
     type |-> IF json.type = "Null" THEN "text" ELSE "json", parts |-> <<>>,
     body |-> IF json.type = "Null" THEN "text" ELSE ToString(json.f), vars |-> chain]
NoVars == [k \in {} |-> ""]
Plain == Request(Object([id |-> Str("7")]), NoVars)
Own == Request(Null, [v |-> "mine", id |-> "1"])
Bad == Request(Object([other |-> Str("7")]), NoVars)

\* Bodies of other types: a multipart with a multipart in it, and with a part
\* without type behind another one.
Of(request, type, text, parts) == [request EXCEPT !.type = type, !.body = text, !.parts = parts]
PartOf(type, text) == [type |-> type, text |-> text, parts |-> <<>>]
Parts == << PartOf("text", "x"),
            [PartOf("multipart", "inner") EXCEPT !.parts = <<PartOf("json", ToString([id |-> Str("7")])),
                                                              PartOf("none", "bad")>>],
            PartOf("text", "y"), PartOf("none", "z") >>
Multipart(parts) == Of(Plain, "multipart", "mp", parts)

\* A flow, with the response it will get.
Flow(sequence, code, json, chain) ==
    [sequence |-> sequence, vars |-> chain,
     response |-> [code |-> code, headers |-> [h |-> <<"y">>], json |-> json,
                   body |-> IF json.type = "Null" THEN "text" ELSE ToString(json.f)]]
Found == Flow(3, 200, Object([id |-> Str("7")]), NoVars)
OwnFlow == Flow(4, 200, Null, [v |-> "mine"])

With(p, r) == [prov |-> p, req |-> r]
MCMixes == {
    <<With("fetch", Found), With("write", Plain)>>,
    <<With("fetch", Flow(2, -1, Null, NoVars)), With("judge", Found)>>,
    <<With("judge", Flow(1, 20, Object([id |-> Str("7")]), NoVars)), With("effect", Plain)>>,
    <<With("ownflow", OwnFlow), With("write", Plain), With("ownflow", OwnFlow)>>,
    <<With("checkflow", Found), With("checkflow", Found)>>,
    <<With("plainflow", Found), With("plainflow", Flow(1, 20, Object([other |-> Str("7")]), NoVars))>>,
    <<With("request", Plain), With("request", Plain)>>,
    <<With("request", Request(Null, NoVars)), With("computed", Plain)>>,
    <<With("decoded", Multipart(Parts)), With("checked", Of(Plain, "json", "bad", <<>>))>>,
    <<With("decoded", Of(Plain, "other", "bin", <<>>)), With("checked", Of(Plain, "none", "bin", <<>>))>>,
    <<With("decoded", Of(Plain, "unbounded", "mp", <<>>)), With("checked", Multipart(<<>>))>>,
    <<With("decoded", Of(Plain, "json", "", <<>>)), With("decoded", Plain)>>,
    <<With("stored", Plain), With("effect", Plain)>>,
    <<With("effect", Plain), With("effect", Plain)>>,
    <<With("text", Plain), With("number", Plain)>>,
    <<With("document", Plain), With("write", Plain)>>,
    <<With("decision", Plain), With("write", Plain), With("write2", Plain)>>,
    <<With("decision", Plain), With("remove", Plain), With("checked", Plain)>>,
    <<With("own", Own), With("write", Plain), With("own", Own)>>,
    <<With("checked", Bad), With("checked", Plain), With("checked", Plain)>> }
=============================================================================
