----------------------------- MODULE MCShutdown -----------------------------
(* Shutdown with two connections. *)
EXTENDS Shutdown

CONSTANTS c1, c2

TwoConnections == {c1, c2}
=============================================================================
