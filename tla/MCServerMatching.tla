-------------------------- MODULE MCServerMatching --------------------------
(* An instance of ServerMatching: two exact uris and a pattern for both.   *)
EXTENDS ServerMatching

Any == <<"/.*">>
MCRequests == {<<"/a">>, <<"/b", <<2, 1>>>>}
MCKeys == {Default, Any, <<"/a">>, <<"/b", <<1, 2>>>>}

MCRegexMatch(k, u) == k # Default /\ (k = Any \/ k = u)
MCReplaced(u) == <<"/a">>

Document(algorithm, filter) ==
    [schema |-> TRUE, algorithm |-> algorithm, rgx |-> "no", fmt |-> FALSE,
     filter |-> filter, separator |-> "Ampersand"]

MCMatchingDocs ==
    {Document("RegexMatching", "Sort"),
     Document("FullMatching", "Ignore"),
     [Document("FullMatchingRegexReplace", "PassBy") EXCEPT !.rgx = "good", !.fmt = TRUE],
     [Document("FullMatching", "Sort") EXCEPT !.fmt = TRUE]}

Item(k) == [key |-> k, valid |-> TRUE, regex |-> TRUE]

MCProvisionDocs ==
    {<<Item(Any), Item(<<"/a">>)>>,
     <<Item(<<"/a">>), Item(Default)>>,
     <<Item(<<"/b", <<1, 2>>>>), [Item(Any) EXCEPT !.regex = FALSE]>>}
=============================================================================
