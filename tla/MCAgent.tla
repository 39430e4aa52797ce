------------------------------ MODULE MCAgent ------------------------------
(* Scenarios: requests of up to three threads on an agent started with     *)
(* some options and files.                                                 *)
EXTENDS Agent

Texts(body) == [method |-> "POST", query |-> <<>>, type |-> "json", length |-> 1, body |-> body]
Post(path, docs) == Texts([kind |-> IF Len(docs) = 1 THEN "object" ELSE "array", docs |-> docs]) @@ [path |-> path]
Ask(method, path, query) ==
    [method |-> method, path |-> path, query |-> query, type |-> "none", length |-> 0]
Trigger(method, query) == Ask(method, "trigger", query) @@ [id |-> "c"]

MCThreads == {"w1", "w2", "w3"}
Base ==
    [program |-> [t \in MCThreads |-> <<>>], options |-> <<>>, events |-> [server |-> <<>>, client |-> <<>>],
     dotted |-> {"a.b"}, files |-> <<>>, signal |-> FALSE, nproc |-> 4, binds |-> Servers]
Run(w1, w2, w3) == [Base EXCEPT !.program = [w1 |-> w1, w2 |-> w2, w3 |-> w3]]

-----------------------------------------------------------------------------
(* Documents.                                                              *)
Item(source, target) == [source |-> source, target |-> target]
Value == <<"value", ".", "x">>
Var == <<"var", ".", "v">>
Serving(uri, items) == [requestMethod |-> "GET", requestUri |-> uri, responseCode |-> 200, transform |-> items]
Reading == Serving("/a", <<Item(<<"serverEvent", ".", "x">>, Var)>>)
Plain == [requestMethod |-> "GET", requestUri |-> "/b", responseCode |-> 200,
          responseBody |-> [kind |-> "integer", number |-> 2^30 + 5]]
Broken == [requestMethod |-> "GET"]
Calling(items) == [id |-> "c", endpoint |-> "e", requestMethod |-> "GET", requestUri |-> "/a", transform |-> items]
Purging == Calling(<<Item(Value, <<"clientEvent", ".", "x">>)>>)
Vaulting == Calling(<<Item(<<"vault", ".", "x">>, Var)>>)
Simple == [id |-> "c", endpoint |-> "e"]
Endpoint(host) == [id |-> "e", host |-> host, port |-> 1]
Forbidding(host) == Endpoint(host) @@ [permit |-> FALSE]

-----------------------------------------------------------------------------
(* Storage warnings: provisions loaded while the storage is reconfigured.  *)
Config(side, query) == Ask("PUT", side \o "-data/configuration", query)
Discard(side) == Config(side, [discard |-> "true", discardKeyHistory |-> "true"])
Store(side) == Config(side, [discard |-> "false"])
Warnings(side, needs, refused) ==
    LET path == side \o "-provision"
        delete == <<Ask("DELETE", path, <<>>)>>
    IN  <<Run(<<Post(path, <<needs>>)>>, <<Discard(side)>>, delete),
          Run(<<Post(path, <<needs, needs>>)>>, <<Discard(side), Store(side)>>, <<Discard(side)>>),
          Run(delete \o <<Post(path, <<needs>>)>>, <<Store(side), Discard(side)>>, <<Post(path, <<needs, refused>>)>>),
          Run(<<Post(path, <<needs, refused>>), Post(path, <<needs>>)>>, <<Discard(side)>>, <<>>)>>

-----------------------------------------------------------------------------
(* Endpoints updated by two administrators while a request is sent.        *)
WithEndpoint(s) ==
    [s EXCEPT !.files = ("client-endpoint" :> [kind |-> "array", docs |-> <<Endpoint("h0"), Endpoint("h1")>>])
                        @@ ("client-provision" :> [kind |-> "array", docs |-> <<Simple>>])]
IsLazy(s) == [s EXCEPT !.options = "remote-servers-lazy-connection" :> TRUE]
Update(doc) == <<Post("client-endpoint", <<doc>>)>>
Updates ==
    LET race == Run(Update(Endpoint("h2")), Update(Endpoint("h3")), <<Trigger("GET", <<>>)>>)
    IN  <<WithEndpoint(race), IsLazy(WithEndpoint(race)), race,
          WithEndpoint(Run(Update(Endpoint("h2") @@ [secure |-> TRUE]), <<Ask("DELETE", "client-endpoint", <<>>)>>,
                           <<Trigger("TRIGGER", <<>>)>>)),
          WithEndpoint(Run(Update(Forbidding("h2")), <<Trigger("GET", <<>>)>>, <<Trigger("TRIGGER", <<>>)>>)),
          WithEndpoint(Run(<<Post("client-provision", <<Vaulting>>)>>, <<Trigger("TRIGGER", <<>>)>>,
                           <<Trigger("GET", [sequence |-> "1"])>>)),
          IsLazy(Run(<<Post("client-endpoint", <<Endpoint("h2"), Endpoint("")>>)>>, Update(Endpoint("h3")), <<>>)),
          WithEndpoint(Run(<<Trigger("GET", [sequence |-> "2"]), Trigger("GET", [sequence |-> "1", cps |-> "5"]),
                             Trigger("GET", [inState |-> "s"]), Trigger("TRIGGER", [inState |-> "s"])>>
                           \o Update(Endpoint("h1")), <<>>, <<>>)),
          Run(<<Post("client-provision", <<Simple>>), Trigger("GET", <<>>)>>, <<>>, <<>>)>>

-----------------------------------------------------------------------------
(* Stored events, listed and deleted.                                      *)
Event(first, second) == [first |-> first, second |-> second]
Events(prefix) ==
    (prefix \o <<"GET", "/a">> :> <<Event(1, 3), Event(2, 0)>>) @@ (prefix \o <<"PUT", "/b">> :> <<Event(3, 4)>>)
Nr(kind, n) == [kind |-> kind, digits |-> n]
Which(key) == [requestMethod |-> "GET", requestUri |-> "/a"] @@ key
Querying(side, key) ==
    LET uri == side \o "-data"
        numbers == <<Nr("digits", 1), Nr("minus", 2), Nr("digits", 3), Nr("word", 0), Nr("digits", 0)>>
        Listed(query) == Ask("GET", uri, query)
    IN  <<Run([i \in DOMAIN numbers |-> Ask("DELETE", uri, [eventNumber |-> numbers[i]] @@ Which(key))],
              <<Ask("DELETE", uri, Which(key)), Ask("DELETE", uri, [requestMethod |-> "GET"] @@ key)>>,
              <<Ask("DELETE", uri, [eventNumber |-> Nr("minus", 1)] @@ Which(key)),
                Ask("GET", uri \o "/sequence", <<>>), Ask("DELETE", uri, <<>>), Listed(<<>>)>>),
          Run([i \in DOMAIN numbers |-> Listed([eventNumber |-> numbers[i], eventPath |-> "/p"] @@ Which(key))]
              \o <<Listed(<<>>), Listed([eventPath |-> "/p"] @@ Which(key)), Listed(Which(key)),
                   Listed([requestMethod |-> "GET", requestUri |-> "/z"] @@ key),
                   Ask("GET", uri \o "/summary", [maxKeys |-> Nr("digits", 1)]),
                   Ask("GET", uri \o "/sequence", [fromTimestampUs |-> 2, toTimestampUs |-> 3, requestMethod |-> "GET"]),
                   Ask("GET", uri \o "/sequence", [uriRegex |-> [compiles |-> FALSE, finds |-> {}]]),
                   Ask("GET", uri \o "/sequence", [uriRegex |-> [compiles |-> TRUE, finds |-> {"/b"}]])>>,
              <<>>, <<>>)>>
WithEvents(s) == [s EXCEPT !.events = [server |-> Events(<<>>), client |-> Events(<<"e">>)]]
Queries == [i \in 1 .. 4 |-> WithEvents((Querying("server", <<>>)
                                         \o Querying("client", [clientEndpointId |-> "e"]))[i])]

-----------------------------------------------------------------------------
(* Every page, every configuration, and what is refused.                   *)
Showing == <<"server-matching", "server-provision", "client-provision", "client-endpoint", "schema", "vault",
             "server-data", "client-data", "server-data/summary", "client-data/summary", "server-data/sequence",
             "client-data/sequence", "server/configuration", "server-data/configuration",
             "client-data/configuration", "files/configuration", "configuration", "logging", "health",
             "schema/schema", "nothing">>
ShowAll == [i \in DOMAIN Showing |-> Ask("GET", Showing[i], <<>>)]
Loading ==
    <<Post("server-matching", <<[algorithm |-> "RegexMatching", uriPathQueryParameters |-> [filter |-> "Sort"]]>>),
      Post("server-matching", <<[algorithm |-> "FullMatching", uriPathQueryParameters |-> [separator |-> "Semicolon"]]>>),
      Post("server-matching", <<[algorithm |-> "FullMatching", rgx |-> "("]>>),
      Post("server-provision", <<Plain, Plain>>), Post("server-provision", <<Reading, Plain, Broken>>),
      Post("server-provision", <<Plain @@ [requestSchemaId |-> ""]>>),
      Post("server-provision", <<[Plain EXCEPT !.requestUri = "("]>>),
      Post("client-provision", <<Purging, Simple @@ [inState |-> "road-closed"]>>),
      Post("client-endpoint", <<Endpoint("h"), Endpoint("")>>), Post("client-endpoint", <<[id |-> "e"]>>),
      Post("schema", <<[id |-> "s", schema |-> "any"], [id |-> "t", schema |-> "any"]>>),
      Post("schema", <<[id |-> "s", schema |-> "bad"]>>),
      Post("vault/", <<[x |-> "1", y |-> "2"]>>), Post("vault", <<"a.b" :> "1">>),
      Post("nothing", <<Plain>>), Texts([kind |-> "invalid", docs |-> <<>>]) @@ [path |-> "schema"],
      [Post("schema", <<Plain>>) EXCEPT !.type = "text"], [Post("schema", <<Plain>>) EXCEPT !.type = "none", !.length = 0],
      Ask("PATCH", "schema", <<>>), Ask("GET", "", <<>>)>>
Configuring ==
    <<Ask("PUT", "logging", [level |-> "Debug"]), Ask("PUT", "logging", <<>>),
      Ask("PUT", "server/configuration", [receiveRequestBody |-> "false", preReserveRequestBody |-> "maybe"]),
      Ask("PUT", "server/configuration", [preReserveRequestBody |-> "false"]),
      Ask("PUT", "files/configuration", [readCache |-> "false"]), Ask("PUT", "files/configuration", <<>>),
      Config("server", [discard |-> "true", discardKeyHistory |-> "false"]), Config("server", [disablePurge |-> "true"]),
      Config("client", <<>>), Ask("PUT", "nothing", <<>>)>>
Deleting ==
    <<Ask("GET", "vault", [name |-> "x"]), Ask("GET", "vault", [other |-> "x"]), Ask("DELETE", "vault", [other |-> "x"]),
      Ask("DELETE", "vault", [name |-> "x"]), Ask("DELETE", "vault", <<>>), Ask("DELETE", "schema", <<>>),
      Ask("DELETE", "client-endpoint", <<>>), Ask("DELETE", "server-provision", <<>>), Ask("DELETE", "nothing", <<>>)>>
NoTraffic == [valid |-> TRUE, n |-> 0]
Administration ==
    <<Run(Loading \o Configuring \o ShowAll \o Deleting, <<>>, <<>>),
      [Run(Configuring \o ShowAll, <<>>, <<>>) EXCEPT !.options = "traffic-server-port" :> NoTraffic]>>

-----------------------------------------------------------------------------
(* Items with every form of the schemas, with names that look like forms.  *)
Names == <<<<"x">>, <<"s">>, <<"path">>, <<"x", ".", "/p">>, <<"json", ".", "object">>,
           <<"x", ".", "json", ".", "object">>>>
Written(form) ==
    LET rests == CASE form.rest = "alone" -> <<<<>>>>
                   [] form.rest = "some" -> [i \in DOMAIN Names |-> <<".">> \o Names[i]]
                   [] form.rest = "any" -> <<<<".">>, <<".", "x">>>>
                   [] form.rest = "ints" -> <<<<".", "1", ".", "2">>>>
                   [] form.rest = "unit" -> <<<<".", "s">>>>
                   [] form.rest = "s" -> <<<<"s">>>>
                   [] form.rest = "method" -> <<<<".", "GET">>, <<".", "GET", ".", "/p">>>>
    IN  [i \in DOMAIN rests |-> Dots(form.words) \o rests[i]]
RECURSIVE All(_)
All(forms) == IF forms = {} THEN <<>> ELSE LET form == CHOOSE f \in forms : TRUE IN Written(form) \o All(forms \ {form})
Items(sources, targets) ==
    LET from == All(sources)
        to == All(targets)
    IN  [i \in DOMAIN from |-> Item(from[i], Var)] \o [i \in DOMAIN to |-> Item(Value, to[i])]
Filters ==
    <<[string |-> "Size"], [RegexCapture |-> "("], [RegexReplace |-> [rgx |-> "a", fmt |-> "b"]],
      [Append |-> <<"@{v}">>], [Sum |-> [kind |-> "float", amount |-> 1]], [ConditionVar |-> <<"v">>],
      [Split |-> [size |-> 3]], [BaseConvert |-> [in |-> 10, out |-> 16, capital |-> TRUE]],
      [Strptime |-> [fmt |-> "f", unit |-> "ms"]], [RegexKey |-> "a"]>>
Filtered == [i \in DOMAIN Filters |-> Item(Value, Var) @@ [filter |-> Filters[i]]]
            \o <<Item(Value, Var) @@ [onFilterFail |-> <<Item(<<"nothing">>, Var)>>],
                 Item(Value, Var) @@ [onFilterFail |-> <<Item(<<"serverEvent", ".", "x">>, Var)>>]>>
LoadingItems ==
    <<Run(<<Post("server-provision", <<Serving("/a", Filtered \o Items(ServerSources, ServerTargets))>>),
            Post("server-provision", <<Serving("/b", <<Item(Value, Var) @@ [filter |-> [ConditionVar |-> <<"!">>]]>>)>>),
            Post("client-provision", <<Calling(Filtered \o Items(ClientSources, ClientTargets))
                                       @@ [onResponseTransform |-> Items(ResponseSources, ResponseTargets)]>>)>>,
          <<>>, <<>>)>>

-----------------------------------------------------------------------------
(* Starting and stopping.                                                  *)
Files ==
    [schema |-> [kind |-> "array", docs |-> <<[id |-> "s", schema |-> "any"], [id |-> "t", schema |-> "bad"]>>],
     vault |-> [kind |-> "object", docs |-> <<[x |-> "1"]>>]]
    @@ ("server-matching" :> [kind |-> "object", docs |-> <<[algorithm |-> "RegexMatching"]>>])
    @@ ("server-provision" :> [kind |-> "array", docs |-> <<Reading, Broken, Plain>>])
    @@ ("client-provision" :> [kind |-> "invalid"])
N(n) == [valid |-> TRUE, n |-> n]
Worker == "traffic-server-worker-threads"
Histogram == "prometheus-message-size-bytes-histogram-boundaries"
CommandLines ==
    <<<<>>, "traffic-server-port" :> N(0), "disable-metrics" :> TRUE, "discard-data" :> TRUE,
      "traffic-client-worker-threads" :> N(0), "traffic-client-connections" :> N(8), "help" :> TRUE, "without-value" :> TRUE,
      Worker :> [valid |-> FALSE, n |-> 0], Worker :> N(0), Worker :> N(2), Worker :> N(2^30 - 1),
      (Worker :> N(2)) @@ ("traffic-server-max-worker-threads" :> N(1)),
      Histogram :> <<[valid |-> FALSE, n |-> 0]>>, Histogram :> <<N(2), N(1)>>, "log-level" :> "Loud">>
Starting ==
    [i \in DOMAIN CommandLines |-> [Base EXCEPT !.options = CommandLines[i], !.files = Files, !.signal = TRUE]]
    \o <<[Base EXCEPT !.binds = {"admin"}], [Base EXCEPT !.binds = {"traffic"}],
         [Run(<<Post("client-provision", <<Simple>>), Ask("GET", "client-provision", <<>>)>>, <<Trigger("TRIGGER", <<>>)>>, <<>>)
             EXCEPT !.signal = TRUE],
         [Run(<<>>, <<Trigger("TRIGGER", <<>>)>>, <<>>) EXCEPT !.options = "traffic-server-port" :> N(0)]>>

Storages == Warnings("server", Reading, Broken) \o Warnings("client", Purging, [id |-> "#"])
MCScenarios == <<Storages, Updates, Queries, Administration, LoadingItems, Starting>>
=============================================================================
