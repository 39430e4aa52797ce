----------------------------- MODULE MCUdpTools -----------------------------
(* udp-client, the bridge and udp-server in a row, and each start that     *)
(* fails.                                                                  *)
EXTENDS UdpTools

Number(n) == [valid |-> TRUE, n |-> n]
Wrong == [valid |-> FALSE, n |-> 0]
Uri(path) == <<"http", "://", "h", ":", "8", "/">> \o path

MCSeqOffset == [p \in {"@{seq}", "@{seq-1}"} |-> IF p = "@{seq}" THEN 0 ELSE -1]
MCPatternOrder == <<"@{udp.1}", "@{udp.2}", "@{udp8.2}", "@{udp8}", "@{udp}">>
MCPaths == {"in", "out"}
MCStatuses == {200, 404, -2}

Client == ("udp-socket-path" :> "in") @@ ("initial" :> Number(9)) @@ ("final" :> Number(10))
Bridge == ("udp-socket-path" :> "in") @@ ("uri" :> Uri(<<"@{udp}">>))
Server == "udp-socket-path" :> "out"
Output == "udp-output-socket-path" :> "out"
Listed == "template" :> {<<"@{seq-1}", "|", "@{seq}">>}
To(path, text) == [path |-> path, text |-> text]

Base == [started |-> {"client", "bridge", "server"}, client |-> Client, bridge |-> Bridge, server |-> Server,
         faults |-> {}, signals |-> {}, others |-> <<>>]
Alone(p) == [Base EXCEPT !.started = {p}]

\* Datagrams through all programs.
Flows == {
    [Base EXCEPT !.started = {"client", "bridge"}, !.others = <<To("in", Stats), To("in", Eof)>>],
    [Base EXCEPT !.started = {"client", "bridge"}, !.client = Listed @@ Client, !.signals = {"bridge", "client"},
        !.bridge = ("method" :> <<"P">>) @@ ("body" :> <<"b", "@{udp.2}", "@{no}">>) @@ ("header" :> <<"@{udp8.2}", "@{udp8}">>)
                   @@ ("uri" :> Uri(<<"@{udp.1}">>)) @@ Bridge],
    [Base EXCEPT !.bridge = Output @@ ("workers" :> Number(1)) @@ Bridge, !.client = ("final" :> Number(9)) @@ Client,
        !.others = <<To("out", <<>>)>>],
    [Base EXCEPT !.started = {"bridge", "server"}, !.others = <<To("in", <<"1", "|", "2", "3", "4">>), To("in", <<>>)>>,
        !.bridge = Output @@ ("udp-output-value" :> <<"o", "@{udp8}">>) @@ Bridge, !.signals = {"bridge", "server"}],
    [Base EXCEPT !.started = {"client", "server"}, !.client = ("udp-socket-path" :> "out") @@ Listed @@ Client,
        !.others = <<To("out", Eof)>>],
    [Base EXCEPT !.started = {"bridge", "server"}, !.server = Bridge, !.others = <<To("in", <<"1">>)>>] }

\* Ranges of udp-client, up to the largest number.
Ranges == {[Alone("client") EXCEPT !.client = r @@ Client] : r \in
    { "initial" :> Number(11), ("initial" :> Number(0)) @@ Listed, "final" :> Number(-1),
      "eps" :> Number(0), "eps" :> Wrong, "print-each" :> Number(0) }}

\* Command lines and faults of the listeners.
Starts ==
    {[Alone("bridge") EXCEPT !.bridge = b @@ Bridge] : b \in
        { "workers" :> Number(0), "timeout-milliseconds" :> Number(-1), "log-level" :> "none",
          "uri" :> <<":", "8">>, "uri" :> <<"h", "/", "a">>,
          "prometheus-message-size-bytes-histogram-boundaries" :> <<Number(-1)>> }}
    \cup {[Base EXCEPT !.faults = {f}, !.bridge = Output @@ Bridge] : f \in {"metrics", "socket", "output"}}
    \cup {[Alone("server") EXCEPT !.server = ("print-each" :> Number(0)) @@ Server]}

MCSetups == Flows \cup Ranges \cup Starts
=============================================================================
