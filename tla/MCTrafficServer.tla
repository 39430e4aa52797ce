-------------------------- MODULE MCTrafficServer --------------------------
(* TrafficServer for TLC.                                                  *)
EXTENDS TrafficServer
=============================================================================
