--------------------------- MODULE MCWaitManager ---------------------------
(* WaitManager for TLC; the configurations give the sets.                  *)
EXTENDS WaitManager
=============================================================================
