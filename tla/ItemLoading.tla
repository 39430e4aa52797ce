---------------------------- MODULE ItemLoading ----------------------------
(***************************************************************************)
(* How the documents of server and client provisions are checked against   *)
(* the schemas of the admin interface and turned into loaded provisions:   *)
(* the texts of the sources, filters and targets of their transformation   *)
(* items are classified by ordered tables of literals and regular          *)
(* expressions (Transformation::load).                                     *)
(*                                                                         *)
(* A text is a sequence of tokens: words, and single characters between    *)
(* them.  "request.header.x" is <<"request", ".", "header", ".", "x">> and *)
(* "request.headers" is <<"request", ".", "header", "s">>, because the dot *)
(* before a captured rest (^request.header. and the rest) is any character. *)
(* A JSON object is a function on the names it has.                        *)
(***************************************************************************)
EXTENDS MachineInt, Sequences, FiniteSets, SequencesExt, TLC

CONSTANTS
    Paths,      \* the tokens that begin with a slash
    Ints,       \* the tokens that are integers
    Patterns,   \* the tokens of the form @{name}
    BadRegexes, \* the texts that do not compile as a regular expression
    Hashed      \* the texts with a '#'

Get(j, name, default) == IF name \in DOMAIN j THEN j[name] ELSE default

\* w1.w2. ... .wn
Dots(words) ==
    [i \in 1 .. 2 * Len(words) - 1 |-> IF i % 2 = 1 THEN words[(i + 1) \div 2] ELSE "."]

SourceTypes == {"RequestUri", "RequestUriPath", "RequestUriParam", "RequestBody", "ResponseBody",
    "RequestHeader", "RequestHeaders", "Eraser", "Math", "Random", "RandomSet", "Timestamp", "Strftime",
    "Recvseq", "SVar", "SGVar", "Value", "ServerEvent", "InState", "STxtFile", "SBinFile", "Command",
    "Sendseq", "ClientEvent", "ResponseHeader", "ResponseHeaders", "ResponseStatusCode"}

TargetTypes == {"ResponseHeader_t", "ResponseStatusCode_t", "ResponseDelayMs", "TVar", "TGVar",
    "TGVarJson_Object", "TGVarJson_JsonString", "OutState", "TTxtFile", "TBinFile", "UDPSocket",
    "ServerEventToPurge", "Break", "RequestHeader_t", "RequestDelayMs", "RequestTimeoutMs",
    "ClientEventToPurge", "RequestUri_t", "RequestMethod_t", "ClientProvision_t"}
    \cup {side \o kind : side \in {"ResponseBody", "RequestBody"},
             kind \in {"String", "HexString", "Json_String", "Json_Integer", "Json_Unsigned",
                       "Json_Float", "Json_Boolean", "Json_Object", "Json_JsonString"}}

-----------------------------------------------------------------------------
(* Rows of the tables.  A row is hit or not; a hit has a type, a name      *)
(* (source_, target_) and a second part (source2_, target2_).              *)

When(hit, type, name, second) ==
    [hit |-> hit, type |-> type, name |-> name, second |-> second]
Miss == When(FALSE, "none", <<>>, <<>>)

\* spec == "w1.w2" as a literal.
Is(spec, words, type) == When(spec = Dots(words), type, <<>>, <<>>)

\* ^w1.w2. and a captured rest, where each dot is any one character.
Under(spec, words, type) ==
    LET n == 2 * Len(words)
    IN  When(/\ Len(spec) >= n
             /\ \A i \in DOMAIN words : spec[2 * i - 1] = words[i],
             type, SubSeq(spec, n + 1, Len(spec)), <<>>)

\* ^vault\.([^.]+)<middle>(?:\.(/.+))?$ where <middle> has no or two more words.
Vault(spec, middle, type) ==
    LET n == 3 + Len(middle)
    IN  IF /\ Len(spec) \in {n, n + 2}
           /\ SubSeq(spec, 1, 2) = <<"vault", ".">>
           /\ spec[3] # "."
           /\ SubSeq(spec, 4, n) = middle
           /\ Len(spec) = n + 2 => spec[n + 1] = "." /\ spec[n + 2] \in Paths
        THEN When(TRUE, type, <<spec[3]>>, SubSeq(spec, n + 2, Len(spec)))
        ELSE Miss

\* ^random\.<int>\.<int>$
RandomRange(spec) ==
    IF /\ Len(spec) = 5
       /\ Dots(<<spec[1], spec[3], spec[5]>>) = spec
       /\ spec[1] = "random" /\ spec[3] \in Ints /\ spec[5] \in Ints
    THEN When(TRUE, "Random", <<spec[3]>>, <<spec[5]>>)
    ELSE Miss

FirstHit(rows) == IF \E i \in DOMAIN rows : rows[i].hit
                  THEN rows[SelectInSeq(rows, LAMBDA r : r.hit)] ELSE Miss

-----------------------------------------------------------------------------
(* Sources, in the order of the code.                                      *)

\* Mutant: the header of a request is tried before the whole of its headers.
HeaderBeforeHeaders(spec) ==
    <<Is(spec, <<"request", "uri">>, "RequestUri"),
      Is(spec, <<"request", "uri", "path">>, "RequestUriPath"),
      Under(spec, <<"request", "uri", "param">>, "RequestUriParam"),
      Is(spec, <<"request", "body">>, "RequestBody"),
      Under(spec, <<"request", "body">>, "RequestBody"),
      Is(spec, <<"response", "body">>, "ResponseBody"),
      Under(spec, <<"response", "body">>, "ResponseBody"),
      Under(spec, <<"request", "header">>, "RequestHeader"),
      When(spec = <<"request", ".", "header", "s">>, "RequestHeaders", <<>>, <<>>),
      When(spec = <<"response", ".", "header", "s">>, "ResponseHeaders", <<>>, <<>>)>>

\* Parts of the request and of the response.
MessageSources(spec) ==
    <<Is(spec, <<"request", "uri">>, "RequestUri"),
      Is(spec, <<"request", "uri", "path">>, "RequestUriPath"),
      Under(spec, <<"request", "uri", "param">>, "RequestUriParam"),
      Is(spec, <<"request", "body">>, "RequestBody"),
      Under(spec, <<"request", "body">>, "RequestBody"),
      Is(spec, <<"response", "body">>, "ResponseBody"),
      Under(spec, <<"response", "body">>, "ResponseBody"),
      When(spec = <<"request", ".", "header", "s">>, "RequestHeaders", <<>>, <<>>),
      When(spec = <<"response", ".", "header", "s">>, "ResponseHeaders", <<>>, <<>>),
      Under(spec, <<"request", "header">>, "RequestHeader")>>

\* Computed values and sequence numbers.
ComputedSources(spec) ==
    <<Is(spec, <<"eraser">>, "Eraser"),
      Under(spec, <<"math">>, "Math"),
      RandomRange(spec),
      Under(spec, <<"randomset">>, "RandomSet"),
      Under(spec, <<"timestamp">>, "Timestamp"),
      Under(spec, <<"strftime">>, "Strftime"),
      Is(spec, <<"recvseq">>, "Recvseq"),
      Is(spec, <<"sendseq">>, "Sendseq")>>

\* Variables, vault, events, files, and what only a response has.
StoredSources(spec) ==
    <<Under(spec, <<"var">>, "SVar"),
      Vault(spec, <<>>, "SGVar"),
      Under(spec, <<"value">>, "Value"),
      Under(spec, <<"serverEvent">>, "ServerEvent"),
      Under(spec, <<"clientEvent">>, "ClientEvent"),
      Is(spec, <<"response", "statusCode">>, "ResponseStatusCode"),
      Under(spec, <<"response", "header">>, "ResponseHeader"),
      Is(spec, <<"inState">>, "InState"),
      Under(spec, <<"txtFile">>, "STxtFile"),
      Under(spec, <<"binFile">>, "SBinFile"),
      Under(spec, <<"command">>, "Command")>>

Source(spec) == FirstHit(MessageSources(spec) \o ComputedSources(spec) \o StoredSources(spec))

-----------------------------------------------------------------------------
(* Targets, in the order of the code.                                      *)

JsonKinds == <<[word |-> "string", name |-> "String"], [word |-> "integer", name |-> "Integer"],
               [word |-> "unsigned", name |-> "Unsigned"], [word |-> "float", name |-> "Float"],
               [word |-> "boolean", name |-> "Boolean"], [word |-> "object", name |-> "Object"],
               [word |-> "jsonstring", name |-> "JsonString"]>>

\* The body as a text, and as a whole document or a node of it.
BodyTargets(spec, side, prefix) ==
    <<Is(spec, <<side, "body", "string">>, prefix \o "String"),
      Is(spec, <<side, "body", "hexstring">>, prefix \o "HexString")>>
    \o [i \in DOMAIN JsonKinds |->
           LET words == <<side, "body", "json", JsonKinds[i].word>>
               type == prefix \o "Json_" \o JsonKinds[i].name
           IN  FirstHit(<<Is(spec, words, type), Under(spec, words, type)>>)]

ResponseBodyTargets(spec) == BodyTargets(spec, "response", "ResponseBody")
RequestBodyTargets(spec) == BodyTargets(spec, "request", "RequestBody")

MessageTargets(spec) ==
    <<Under(spec, <<"request", "header">>, "RequestHeader_t"),
      Is(spec, <<"request", "delayMs">>, "RequestDelayMs"),
      Is(spec, <<"request", "timeoutMs">>, "RequestTimeoutMs"),
      Is(spec, <<"request", "uri">>, "RequestUri_t"),
      Is(spec, <<"request", "method">>, "RequestMethod_t"),
      Under(spec, <<"response", "header">>, "ResponseHeader_t"),
      Is(spec, <<"response", "statusCode">>, "ResponseStatusCode_t"),
      Is(spec, <<"response", "delayMs">>, "ResponseDelayMs")>>

\* ^outState.(POST|GET|PUT|DELETE|HEAD)(\..+)?: any character before the method.
Methods == {"POST", "GET", "PUT", "DELETE", "HEAD"}
OutStateOf(spec) ==
    IF /\ Len(spec) = 3 \/ (Len(spec) >= 5 /\ spec[4] = ".")
       /\ spec[1] = "outState" /\ spec[3] \in Methods
    THEN When(TRUE, "OutState", <<spec[3]>>, SubSeq(spec, 5, Len(spec)))
    ELSE Miss

VariableTargets(spec) ==
    <<Under(spec, <<"var">>, "TVar"),
      Vault(spec, <<".", "json", ".", "object">>, "TGVarJson_Object"),
      Vault(spec, <<".", "json", ".", "jsonstring">>, "TGVarJson_JsonString"),
      Vault(spec, <<>>, "TGVar"),
      Is(spec, <<"outState">>, "OutState"),
      OutStateOf(spec)>>

\* clientProvision.<id>.<inState>; without the state the item is refused.
ProvisionOf(spec) ==
    IF /\ Len(spec) >= 5 /\ SubSeq(spec, 1, 2) = <<"clientProvision", ".">>
       /\ spec[3] # "." /\ spec[4] = "."
    THEN When(TRUE, "ClientProvision_t", <<spec[3]>>, SubSeq(spec, 5, Len(spec)))
    ELSE Miss

OutputTargets(spec) ==
    <<Under(spec, <<"txtFile">>, "TTxtFile"),
      Under(spec, <<"binFile">>, "TBinFile"),
      Under(spec, <<"udpSocket">>, "UDPSocket"),
      Under(spec, <<"serverEvent">>, "ServerEventToPurge"),
      Under(spec, <<"clientEvent">>, "ClientEventToPurge"),
      Is(spec, <<"break">>, "Break"),
      ProvisionOf(spec)>>

Target(spec) == FirstHit(ResponseBodyTargets(spec) \o RequestBodyTargets(spec)
                         \o MessageTargets(spec) \o VariableTargets(spec) \o OutputTargets(spec))

-----------------------------------------------------------------------------
(* Filters and items.                                                      *)

FilterOrder == <<"RegexCapture", "RegexReplace", "Append", "Prepend", "Sum", "Multiply",
    "ConditionVar", "EqualTo", "DifferentFrom", "JsonConstraint", "SchemaId", "Split",
    "BaseConvert", "Strptime", "Strftime", "RegexKey">>

\* filter_number_type_ of Sum and Multiply, of a time unit, of a flag.
NumberType(v) == CASE v.kind = "unsigned" -> 1 [] v.kind = "integer" -> 0 [] v.kind = "float" -> 2
UnitType(v) == SelectInSeq(<<"ms", "us", "ns">>, LAMBDA u : u = Get(v, "unit", "s"))
FlagType(v, name) == IF Get(v, name, FALSE) THEN 1 ELSE 0

SplitDefaults == [size |-> 2, count |-> 4, sep |-> ".", filler |-> "0"]

\* The parameters a filter is loaded with.
FilterFields(type, v) ==
    CASE type \in {"Sum", "Multiply"} -> [amount |-> v.amount, number |-> NumberType(v)]
      [] type = "Split" -> [n \in DOMAIN SplitDefaults |-> Get(v, n, SplitDefaults[n])]
                           @@ [number |-> FlagType(v, "numeric")]
      [] type = "BaseConvert" -> [size |-> v.in, count |-> v.out, number |-> FlagType(v, "capital")]
      [] type \in {"Strptime", "Strftime"} -> [text |-> v.fmt, number |-> UnitType(v)]
      [] type = "RegexReplace" -> [regex |-> v.rgx, text |-> v.fmt]
      [] type \in {"RegexCapture", "RegexKey"} -> [regex |-> v]
      [] OTHER -> [text |-> v]

\* Only these filters have their text searched for variables.
Expanded == {"Append", "Prepend", "EqualTo", "DifferentFrom"}

\* A filter the loader does not know leaves the type at its initial value.
LoadedFilter(j) ==
    IF "filter" \notin DOMAIN j THEN [type |-> "none"]
    ELSE LET f == j.filter
             known == {i \in DOMAIN FilterOrder : FilterOrder[i] \in DOMAIN f}
             type == FilterOrder[CHOOSE i \in known : \A k \in known : i <= k]
         IN  IF "string" \in DOMAIN f /\ f.string = "Size" THEN [type |-> "Size"]
             ELSE IF known = {} THEN [type |-> "RegexCapture"]
             ELSE [type |-> type] @@ FilterFields(type, f[type])

PatternsOf(tokens) == {tokens[i] : i \in DOMAIN tokens} \cap Patterns

WithPatterns(source, filter, target) ==
    [source |-> source, filter |-> filter, target |-> target,
     sourcePatterns |-> PatternsOf(source.name),
     filterPatterns |-> IF filter.type \in Expanded THEN PatternsOf(filter.text) ELSE {},
     targetPatterns |-> PatternsOf(target.name),
     target2Patterns |-> PatternsOf(target.second)]
LoadedItem(j) == WithPatterns(Source(j.source), LoadedFilter(j), Target(j.target))

\* An item and its fallbacks (onFilterFail), level by level.
FallbackDepth == 2
Fallbacks(j) == Get(j, "onFilterFail", <<>>)
Tree(j) ==
    FoldLeft(LAMBDA t, d : [all |-> t.all \o t.last,
                            last |-> FlattenSeq([i \in DOMAIN t.last |-> Fallbacks(t.last[i])])],
             [all |-> <<>>, last |-> <<j>>], [d \in 1 .. FallbackDepth + 1 |-> d]).all

\* Transformation::load fails on a regular expression that does not compile, on
\* an unknown source or target, and when one of its fallbacks fails.
Usable(item) == item.source.hit /\ item.target.hit /\ Get(item.filter, "regex", "") \notin BadRegexes
ItemLoads(j) == \A k \in Range(Tree(j)) : Usable(LoadedItem(k))

\* loadTransformation for each item: those that do not load are dropped.
LoadedItems(items) == [i \in DOMAIN items |-> [spec |-> items[i]] @@ LoadedItem(items[i])]
WithFallbacks(items) ==
    [i \in DOMAIN items |-> [onFilterFail |-> LoadedItems(Tail(Tree(items[i].spec)))] @@ items[i]]
loadTransformation(items) == WithFallbacks(LoadedItems(SelectSeq(items, ItemLoads)))

clientLoadTransformation(items) == loadTransformation(items)

-----------------------------------------------------------------------------
(* The schemas of the admin interface.  A form is a list of words, with    *)
(* nothing, something, or anything (even nothing) after a dot.             *)

Forms(lists, rest) == {[words |-> w, rest |-> rest] : w \in lists}
Fits(form, spec) ==
    LET n == 2 * Len(form.words)
    IN  /\ Len(spec) >= n - 1
        /\ SubSeq(spec, 1, n - 1) = Dots(form.words)
        /\ \/ form.rest = "alone" /\ Len(spec) = n - 1
           \/ form.rest = "some" /\ Len(spec) > n /\ spec[n] = "."
           \/ form.rest = "any" /\ Len(spec) >= n /\ spec[n] = "."
           \/ form.rest = "ints" /\ RandomRange(spec).hit
           \/ form.rest = "unit" /\ Len(spec) = n + 1 /\ spec[n] = "." /\ spec[n + 1] \in {"s", "ms", "us", "ns"}
           \/ form.rest = "s" /\ Len(spec) = n /\ spec[n] = "s"
           \/ form.rest = "method" /\ OutStateOf(spec).hit /\ spec[2] = "."

CommonSources ==
    Forms({<<"request", "uri">>, <<"request", "body">>, <<"eraser">>, <<"inState">>}, "alone")
    \cup Forms({<<"request", "body">>, <<"request", "header">>, <<"randomset">>, <<"strftime">>, <<"var">>,
                <<"vault">>, <<"serverEvent">>, <<"clientEvent">>, <<"txtFile">>, <<"binFile">>,
                <<"command">>}, "some")
    \cup Forms({<<"math">>, <<"value">>}, "any") \cup Forms({<<"random">>}, "ints")
    \cup Forms({<<"timestamp">>}, "unit") \cup Forms({<<"request", "header">>, <<"response", "header">>}, "s")

BodyForms(side) ==
    Forms({<<side, "body", "string">>, <<side, "body", "hexstring">>}, "alone")
    \cup UNION {Forms({<<side, "body", "json", JsonKinds[i].word>>}, rest) :
                   i \in DOMAIN JsonKinds, rest \in {"alone", "some"}}

ServerSources ==
    CommonSources \cup Forms({<<"request", "uri", "path">>, <<"response", "body">>, <<"recvseq">>}, "alone")
    \cup Forms({<<"request", "uri", "param">>, <<"response", "body">>}, "some")
ServerTargets ==
    BodyForms("response") \cup Forms({<<"response", "statusCode">>, <<"response", "delayMs">>, <<"outState">>,
                                      <<"break">>}, "alone")
    \cup Forms({<<"response", "header">>, <<"var">>, <<"vault">>, <<"serverEvent">>, <<"txtFile">>, <<"binFile">>,
                <<"udpSocket">>, <<"clientProvision">>}, "some")
    \cup Forms({<<"outState">>}, "method")
ClientSources == CommonSources \cup Forms({<<"sendseq">>}, "alone")
ClientTargets ==
    BodyForms("request") \cup Forms({<<"request", "delayMs">>, <<"request", "timeoutMs">>, <<"request", "uri">>,
                                     <<"request", "method">>, <<"outState">>}, "alone")
    \cup Forms({<<"request", "header">>, <<"var">>, <<"vault">>, <<"clientEvent">>, <<"txtFile">>, <<"binFile">>,
                <<"udpSocket">>}, "some")
ResponseSources ==
    ClientSources \cup Forms({<<"request", "uri", "path">>, <<"response", "body">>,
                              <<"response", "statusCode">>}, "alone")
    \cup Forms({<<"request", "uri", "param">>, <<"response", "body">>, <<"response", "header">>}, "some")
ResponseTargets ==
    Forms({<<"outState">>, <<"break">>}, "alone")
    \cup Forms({<<"var">>, <<"vault">>, <<"clientEvent">>, <<"txtFile">>, <<"binFile">>, <<"udpSocket">>}, "some")

Units == {"s", "ms", "us", "ns"}

\* What the definitions of both schemas ask of the value of a filter.
ValueAccepted(type, v) ==
    CASE type = "RegexReplace" -> DOMAIN v = {"rgx", "fmt"}
      [] type = "Split" -> /\ DOMAIN v \subseteq DOMAIN SplitDefaults \cup {"numeric"}
                           /\ Get(v, "size", 1) >= 1 /\ Get(v, "count", 1) >= 1
      [] type = "BaseConvert" -> /\ {"in", "out"} \subseteq DOMAIN v /\ DOMAIN v \subseteq {"in", "out", "capital"}
                                 /\ v.in \in 2 .. 36 /\ v.out \in 2 .. 36
      [] type \in {"Strptime", "Strftime"} ->
            "fmt" \in DOMAIN v /\ DOMAIN v \subseteq {"fmt", "unit"} /\ Get(v, "unit", "s") \in Units
      [] OTHER -> TRUE

\* Size, or an object with exactly one of the known names.
FilterAccepted(f) ==
    \/ DOMAIN f = {"string"} /\ f.string = "Size"
    \/ \E type \in Range(FilterOrder) : DOMAIN f = {type} /\ ValueAccepted(type, f[type])

\* On the server side the name of a condition is neither empty nor "!".
ServerFilterAccepted(f) ==
    FilterAccepted(f) /\ ("ConditionVar" \in DOMAIN f => f.ConditionVar \notin {<<>>, <<"!">>})
ClientFilterAccepted(f) == FilterAccepted(f)

\* Fallbacks need a source and a target, and nothing is asked of their texts.
FallbacksAccepted(j) ==
    "onFilterFail" \in DOMAIN j =>
        /\ j.onFilterFail # <<>>
        /\ \A i \in DOMAIN j.onFilterFail : {"source", "target"} \subseteq DOMAIN j.onFilterFail[i]

ItemAccepted(j, sources, targets) ==
    /\ Cardinality(DOMAIN j) \in 2 .. 4
    /\ {"source", "target"} \subseteq DOMAIN j
    /\ \E form \in sources : Fits(form, j.source)
    /\ \E form \in targets : Fits(form, j.target)
    /\ FallbacksAccepted(j)

\* Any other property of an item has to be a filter, whatever its name.
Others(j) == DOMAIN j \ {"source", "target", "onFilterFail"}

NoHash(j, names) == \A n \in names \cap DOMAIN j : j[n] \notin Hashed

ServerProvisionAccepted(j) ==
    /\ {"requestMethod", "responseCode"} \subseteq DOMAIN j
    /\ DOMAIN j \subseteq {"description", "inState", "outState", "requestMethod", "requestUri", "requestSchemaId",
                           "responseHeaders", "responseCode", "responseBody", "responseDelayMs", "transform",
                           "responseSchemaId"}
    /\ NoHash(j, {"inState", "outState"})
    /\ j.requestMethod \in Methods
    /\ "transform" \in DOMAIN j => j.transform # <<>>
    /\ \A i \in DOMAIN Get(j, "transform", <<>>) :
          /\ ItemAccepted(j.transform[i], ServerSources, ServerTargets)
          /\ \A n \in Others(j.transform[i]) : ServerFilterAccepted(j.transform[i][n])

ClientProvisionAccepted(j) ==
    /\ "id" \in DOMAIN j
    /\ DOMAIN j \subseteq {"description", "id", "inState", "outState", "endpoint", "requestMethod", "requestUri",
                           "requestSchemaId", "requestHeaders", "requestBody", "requestDelayMs", "timeoutMs",
                           "transform", "onResponseTransform", "responseSchemaId", "expectedResponseStatusCode"}
    /\ NoHash(j, {"id", "inState", "outState", "endpoint"})
    /\ Get(j, "outState", "") # "initial"
    /\ Get(j, "requestMethod", "GET") \in Methods
    /\ Get(j, "expectedResponseStatusCode", 100) \in 100 .. 599
    /\ "transform" \in DOMAIN j => j.transform # <<>>
    /\ \A i \in DOMAIN Get(j, "transform", <<>>) :
          /\ ItemAccepted(j.transform[i], ClientSources, ClientTargets)
          /\ \A n \in Others(j.transform[i]) : ClientFilterAccepted(j.transform[i][n])
    /\ \A i \in DOMAIN Get(j, "onResponseTransform", <<>>) :
          /\ ItemAccepted(j.onResponseTransform[i], ResponseSources, ResponseTargets)
          /\ \A n \in Others(j.onResponseTransform[i]) : ClientFilterAccepted(j.onResponseTransform[i][n])

-----------------------------------------------------------------------------
(* AdminServerProvision::load and AdminClientProvision::load, after the    *)
(* schema has accepted the document.                                       *)

Refused == [ok |-> FALSE]

\* A number in the body goes through an int.
BodyText(b) ==
    CASE b.kind \in {"object", "array", "string", "float"} -> b.text
      [] b.kind = "integer" -> ToString(IntOf(b.number))
      [] b.kind = "boolean" -> IF b.flag THEN "true" ELSE "false"
      [] b.kind = "null" -> "null"
      [] b.kind = "none" -> ""

requestBodyText(b) == BodyText(b)

\* An empty state is the initial one.
State(j, name, default) == LET s == Get(j, name, default) IN IF s = "" THEN "initial" ELSE s

\* The parts are joined by a character no accepted document has in them.
calculateStringKey(k1, k2, k3) == IF k3 = "" THEN <<k1, k2>> ELSE <<k1, k2, k3>>

loadServerProvision(j, regexMatchingConfigured) ==
    IF \/ ~ServerProvisionAccepted(j)
       \/ Get(j, "requestSchemaId", "-") = "" \/ Get(j, "responseSchemaId", "-") = ""
       \/ regexMatchingConfigured /\ Get(j, "requestUri", "") \in BadRegexes
    THEN Refused
    ELSE [ok |-> TRUE,
          key |-> calculateStringKey(State(j, "inState", "initial"), j.requestMethod, Get(j, "requestUri", "")),
          outState |-> State(j, "outState", "initial"),
          responseCode |-> j.responseCode,
          responseBody |-> BodyText(Get(j, "responseBody", [kind |-> "none"])),
          responseDelayMs |-> Get(j, "responseDelayMs", 0),
          schemas |-> <<Get(j, "requestSchemaId", ""), Get(j, "responseSchemaId", "")>>,
          items |-> loadTransformation(Get(j, "transform", <<>>)),
          regex |-> regexMatchingConfigured,
          doc |-> j]

loadClientProvision(j) ==
    LET outState == State(j, "outState", "road-closed") IN
    IF \/ ~ClientProvisionAccepted(j)
       \/ State(j, "inState", "initial") = "road-closed" \/ outState = "initial"
       \/ Get(j, "requestSchemaId", "-") = "" \/ Get(j, "responseSchemaId", "-") = ""
    THEN Refused
    ELSE [ok |-> TRUE,
          key |-> calculateStringKey(State(j, "inState", "initial"), j.id, ""),
          outState |-> outState,
          endpoint |-> Get(j, "endpoint", ""),
          method |-> Get(j, "requestMethod", ""),
          uri |-> Get(j, "requestUri", ""),
          requestBody |-> requestBodyText(Get(j, "requestBody", [kind |-> "none"])),
          delays |-> <<Get(j, "requestDelayMs", 0), Get(j, "timeoutMs", 0)>>,
          expected |-> Get(j, "expectedResponseStatusCode", 0),
          schemas |-> <<Get(j, "requestSchemaId", ""), Get(j, "responseSchemaId", "")>>,
          items |-> clientLoadTransformation(Get(j, "transform", <<>>)),
          responseItems |-> clientLoadTransformation(Get(j, "onResponseTransform", <<>>)),
          doc |-> j]

\* needsStorage: an item reads or purges events.  Fallbacks are not looked at.
UsesEvents(item) ==
    item.source.type \in {"ServerEvent", "ClientEvent"}
    \/ item.target.type \in {"ServerEventToPurge", "ClientEventToPurge"}
serverNeedsStorage(p) == \E i \in DOMAIN p.items : UsesEvents(p.items[i])
clientNeedsStorage(p) ==
    \/ \E i \in DOMAIN p.items : UsesEvents(p.items[i])
    \/ \E i \in DOMAIN p.responseItems : UsesEvents(p.responseItems[i])

-----------------------------------------------------------------------------
(* What the documentation says a form of the schemas stands for: the       *)
(* reference the classification is compared with.                          *)

SourceReadings ==
    (<<"request", "uri">> :> "RequestUri") @@ (<<"request", "uri", "path">> :> "RequestUriPath")
    @@ (<<"request", "uri", "param">> :> "RequestUriParam") @@ (<<"request", "body">> :> "RequestBody")
    @@ (<<"response", "body">> :> "ResponseBody") @@ (<<"request", "header">> :> "RequestHeader")
    @@ (<<"response", "header">> :> "ResponseHeader") @@ (<<"response", "statusCode">> :> "ResponseStatusCode")
    @@ (<<"eraser">> :> "Eraser") @@ (<<"inState">> :> "InState") @@ (<<"randomset">> :> "RandomSet")
    @@ (<<"strftime">> :> "Strftime") @@ (<<"var">> :> "SVar") @@ (<<"vault">> :> "SGVar")
    @@ (<<"serverEvent">> :> "ServerEvent") @@ (<<"clientEvent">> :> "ClientEvent")
    @@ (<<"txtFile">> :> "STxtFile") @@ (<<"binFile">> :> "SBinFile") @@ (<<"command">> :> "Command")
    @@ (<<"math">> :> "Math") @@ (<<"value">> :> "Value") @@ (<<"random">> :> "Random")
    @@ (<<"timestamp">> :> "Timestamp") @@ (<<"recvseq">> :> "Recvseq") @@ (<<"sendseq">> :> "Sendseq")

TargetReadings ==
    (<<"response", "statusCode">> :> "ResponseStatusCode_t") @@ (<<"response", "delayMs">> :> "ResponseDelayMs")
    @@ (<<"response", "header">> :> "ResponseHeader_t") @@ (<<"request", "header">> :> "RequestHeader_t")
    @@ (<<"request", "delayMs">> :> "RequestDelayMs") @@ (<<"request", "timeoutMs">> :> "RequestTimeoutMs")
    @@ (<<"request", "uri">> :> "RequestUri_t") @@ (<<"request", "method">> :> "RequestMethod_t")
    @@ (<<"outState">> :> "OutState") @@ (<<"break">> :> "Break") @@ (<<"var">> :> "TVar")
    @@ (<<"serverEvent">> :> "ServerEventToPurge") @@ (<<"clientEvent">> :> "ClientEventToPurge")
    @@ (<<"txtFile">> :> "TTxtFile") @@ (<<"binFile">> :> "TBinFile") @@ (<<"udpSocket">> :> "UDPSocket")
    @@ (<<"clientProvision">> :> "ClientProvision_t")

\* request.headers is all of them; the body and the vault have a form for each kind of value.
SourceRead(form, type) == type = SourceReadings[form.words] \o (IF form.rest = "s" THEN "s" ELSE "")
TargetRead(form, type) ==
    IF form.words \in DOMAIN TargetReadings THEN type = TargetReadings[form.words]
    ELSE IF form.words = <<"vault">> THEN type \in {"TGVar", "TGVarJson_Object", "TGVarJson_JsonString"}
    ELSE type \in {side \o kind : side \in {"RequestBody", "ResponseBody"},
                   kind \in {"String", "HexString"} \cup {"Json_" \o k.name : k \in Range(JsonKinds)}}

ReadAsDocumented(item, sources, targets) ==
    /\ \A form \in sources : Fits(form, item.spec.source) => SourceRead(form, item.source.type)
    /\ \A form \in targets : Fits(form, item.spec.target) => TargetRead(form, item.target.type)
=============================================================================
