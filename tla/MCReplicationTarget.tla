------------------------- MODULE MCReplicationTarget -------------------------
(* ReplicationTarget on small sets of files. *)
EXTENDS ReplicationTarget

CONSTANTS a, b, r1, r2, permanent

TwoLocations == {a, b}
OneLocation == {a}
TwoFiles == {<<a, "plain">>, <<b, "gz">>}
OneFile == {<<a, "plain">>}
NoLocations == {}
BadLocation == {b}
OneSlot == {r1}
TwoSlots == {r1, r2}
=============================================================================
