-------------------------- MODULE ReplicationLedger --------------------------
(***************************************************************************)
(* What write replication promises, without its queues, lists and retries: *)
(* a ledger of the locations this node still owes to one target.  A        *)
(* location is entered when it is stored and struck out only once the      *)
(* target has it; every location owed arrives in the end, unless the       *)
(* target refuses it.  ReplicationTarget implements it.                    *)
(***************************************************************************)
EXTENDS TLAPS

CONSTANTS
  Locations,    \* the locations files are stored under
  Refused       \* those the target never accepts from this node

VARIABLES
  stored,       \* locations this node has
  arrived,      \* locations the target has
  owed          \* locations this node has still to send or to ask about

ledger == <<stored, arrived, owed>>

Init ==
  /\ stored \in SUBSET Locations
  /\ arrived \in SUBSET Locations
  /\ owed = stored       \* a process that starts resynchronises everything

Store(l) ==
  /\ stored' = stored \cup {l}
  /\ owed' = owed \cup {l}
  /\ UNCHANGED arrived

\* Resynchronisation enters any stored locations again.
Resync(L) ==
  /\ L \subseteq stored
  /\ owed' = owed \cup L
  /\ UNCHANGED <<stored, arrived>>

\* The target has the location, from this node or from another.
Arrive(l) ==
  /\ arrived' = arrived \cup {l}
  /\ UNCHANGED <<stored, owed>>

\* Locations are struck out, all of them on the target.
Settle(L) ==
  /\ L \subseteq arrived
  /\ owed' = owed \ L
  /\ UNCHANGED <<stored, arrived>>

Next ==
  \/ \E l \in Locations : Store(l) \/ Arrive(l)
  \/ \E L \in SUBSET Locations : Resync(L) \/ Settle(L)

\* A location that is owed is sent until the target has it.
Deliver(l) == l \in owed /\ l \notin arrived /\ Arrive(l)

Spec == Init /\ [][Next]_ledger

FairSpec == Spec /\ \A l \in Locations \ Refused : WF_ledger(Deliver(l))

-----------------------------------------------------------------------------

\* Whatever this node has and the target does not is owed: a restart, a full
\* queue or an answer that is out of date strikes nothing out by mistake.
NothingForgotten == stored \ arrived \subseteq owed

\* Only what is stored is owed.
OwedIsStored == owed \subseteq stored

\* The ledger forgets nothing and enters nothing that is not stored: what is
\* shown of an implementation by showing that it implements the ledger.
THEOREM LedgerIsRight == Spec => [](NothingForgotten /\ OwedIsStored)
  <1>1. Init => NothingForgotten /\ OwedIsStored
    BY DEF Init, NothingForgotten, OwedIsStored
  <1>2. NothingForgotten /\ OwedIsStored /\ [Next]_ledger
          => (NothingForgotten /\ OwedIsStored)'
    BY DEF Next, Store, Resync, Arrive, Settle, ledger, NothingForgotten, OwedIsStored
  <1> QED
    BY <1>1, <1>2, PTL DEF Spec
=============================================================================
