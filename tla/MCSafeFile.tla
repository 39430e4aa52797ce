----------------------------- MODULE MCSafeFile -----------------------------
(* An instance of SafeFile and SafeSocket: the limit is reached from the   *)
(* start, or a path is new.  Paths are alike, so one arrangement of each   *)
(* situation is enough; the third path only holds a place.                 *)
EXTENDS SafeSocket

MCBefore == {<<"closed", "app", "app">>, <<"none", "app", "app">>}

Ask(op, p, later) == [op |-> op, path |-> p, later |-> later]

MCOperations ==
    {Ask("write", 1, TRUE), Ask("write", 1, FALSE), Ask("read", 1, FALSE),
     Ask("empty", 1, FALSE), Ask("write", 2, TRUE)}

MCDatagrams == [path: SocketPaths, later: BOOLEAN]
=============================================================================
