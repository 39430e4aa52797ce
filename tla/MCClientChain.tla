---------------------------- MODULE MCClientChain ----------------------------
(* Instances of ClientChain.                                               *)
EXTENDS ClientChain

(* Two steps: the first goes on, loops to itself or purges.                *)
MCOuts == [initial |-> {"initial", "second", "purge"},
           second |-> {"purge"}]

(* The first flow has a key of its own too (a uri with the sequence).      *)
MCKeysOf == [c \in {1, 2} |-> IF c = 1 THEN {"own", "shared"} ELSE {"shared"}]
==============================================================================
