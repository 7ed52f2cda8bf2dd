-------------------------- MODULE MCReadForwarding --------------------------
(* ReadForwarding with three targets, one of which may have a bad address. *)
EXTENDS ReadForwarding

CONSTANTS t1, t2, t3

ThreeTargets == {t1, t2, t3}
NoneOrOne == {{}, {t1}}
=============================================================================
