---------------------------- MODULE CommandLine ----------------------------
(***************************************************************************)
(* The command line of the agent, read by main().  A command line is a     *)
(* function on the options it has, named without their dashes and by their *)
(* long form; the value of a numeric option is [valid, n], where valid     *)
(* tells whether std::stoul can read it, and the value of a histogram is a *)
(* sequence of such numbers.  "without-value" is given when the last       *)
(* option lacks its value.                                                 *)
(***************************************************************************)
EXTENDS MachineInt, Sequences, FiniteSets, SequencesExt, TLC

Given(o, name) == name \in DOMAIN o
Option(o, name, default) == IF Given(o, name) THEN o[name] ELSE default

\* toNumber: an unsigned long, kept in an int.
toNumber(v) == IntOf(v.n)
NumberOption(o, name, default) == IF Given(o, name) THEN toNumber(o[name]) ELSE default

NumericOptions == {"traffic-server-port", "traffic-server-io-threads", "traffic-server-worker-threads",
    "traffic-server-max-worker-threads", "traffic-server-queue-dispatcher-max-size",
    "admin-server-worker-threads", "long-term-files-close-delay-usecs", "short-term-files-close-delay-usecs",
    "traffic-client-connections", "traffic-client-worker-threads", "traffic-client-pool-max-pending"}

\* Options that end the process with the usage below a minimum.
Minimum ==
    [name \in {"traffic-server-io-threads", "traffic-server-worker-threads", "admin-server-worker-threads",
              "traffic-client-connections"} |-> 1]
    @@ [name \in {"long-term-files-close-delay-usecs", "short-term-files-close-delay-usecs",
                 "traffic-client-worker-threads"} |-> 0]

workerThreads(o) == NumberOption(o, "traffic-server-worker-threads", 1)
maxWorkerThreads(o) == NumberOption(o, "traffic-server-max-worker-threads", workerThreads(o))

\* usage() or the version is printed, and the process exits.
Refuses(o, levels) ==
    \/ Given(o, "help") \/ Given(o, "version") \/ Given(o, "without-value")
    \/ Option(o, "log-level", "Warning") \notin levels
    \/ \E name \in NumericOptions \cap DOMAIN o : ~o[name].valid
    \/ \E name \in DOMAIN Minimum \cap DOMAIN o : toNumber(o[name]) < Minimum[name]
    \/ maxWorkerThreads(o) < workerThreads(o)

\* The configuration that GET configuration shows; only its own option sets the maximum.
configuration(o) ==
    [longTermFilesCloseDelayUsecs |-> NumberOption(o, "long-term-files-close-delay-usecs", 1000000),
     shortTermFilesCloseDelayUsecs |-> NumberOption(o, "short-term-files-close-delay-usecs", 0),
     lazyClientConnection |-> Given(o, "remote-servers-lazy-connection"),
     trafficServerWorkerThreads |-> workerThreads(o),
     trafficServerMaxWorkerThreads |-> NumberOption(o, "traffic-server-max-worker-threads", 1),
     queueDispatcherMaxSize |-> NumberOption(o, "traffic-server-queue-dispatcher-max-size", -1),
     trafficClientConnections |-> NumberOption(o, "traffic-client-connections", 1),
     disableMetrics |-> Given(o, "disable-metrics")]

\* Threads of the client worker pool, by default from the number of cores.
poolThreads(o, nproc) ==
    LET connections == configuration(o).trafficClientConnections
        AtLeast(low, n) == IF n < low THEN low ELSE n
    IN  NumberOption(o, "traffic-client-worker-threads",
                IF connections > nproc THEN AtLeast(1, nproc - 2) ELSE AtLeast(0, nproc - connections - 1))

\* loadHistogramBoundaries: numbers that are neither malformed nor negative, sorted.
boundaries(items) ==
    SortSeq(SelectSeq([i \in DOMAIN items |-> IF items[i].valid THEN items[i].n ELSE -1],
                      LAMBDA n : n >= 0), <)
HistogramOptions == {"prometheus-response-delay-seconds-histogram-boundaries",
                     "prometheus-message-size-bytes-histogram-boundaries"}
\* The last comma of an empty text is removed: undefined.
EmptyHistogram(o) == \E name \in HistogramOptions \cap DOMAIN o : boundaries(o[name]) = <<>>

trafficServerEnabled(o) == NumberOption(o, "traffic-server-port", 8000) > 0
trafficSecured(o) == Given(o, "traffic-server-key") /\ Given(o, "traffic-server-crt")
\* --discard-data implies --discard-data-key-history.
discardData(o) == Given(o, "discard-data")
discardDataKeyHistory(o) == Given(o, "discard-data") \/ Given(o, "discard-data-key-history")
=============================================================================
