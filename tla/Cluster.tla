------------------------------- MODULE Cluster -------------------------------
(***************************************************************************)
(* Verm nodes that replicate to one another over any links, loops and      *)
(* redundant ones among them.  Each node has, for each of its targets, the *)
(* files it will send (ReplicationTarget's newFiles and missingFiles) and  *)
(* those it will ask the target about (a resync, or replicatedFiles): what *)
(* ReplicationTarget and FileUploader do in many steps is one step here.   *)
(*                                                                         *)
(* A failed request is no step at all, and one whose answer is lost is a   *)
(* PutArrives or an answered question that is repeated.  A full queue is   *)
(* a file that has to be asked about, since it sets needToResync.          *)
(*                                                                         *)
(* The reply to a list may end early, or not be readable, and the list is  *)
(* counted as answered all the same: what the reply did not name is then   *)
(* forgotten, until the next resync of that link.                          *)
(***************************************************************************)
EXTENDS Naturals

CONSTANTS
  Nodes, Files,
  Links,              \* <<n, t>>: t is a target of n
  TheLink,            \* any link, the one whose ledger is looked at
  MaxDisturbances     \* bound on restarts and resyncs

ASSUME ClusterAssumption ==
  /\ Links \subseteq {l \in Nodes \X Nodes : l[1] # l[2]}
  /\ TheLink \in Links
  /\ MaxDisturbances \in Nat

VARIABLES
  stored,             \* node -> the files it has
  push,               \* link -> files that will be sent
  ask,                \* link -> files the target will be asked about
  cut,                \* link -> files that replies since its last resync should
                      \* have named and did not (a history variable)
  disturbances

vars == <<stored, push, ask, cut, disturbances>>

LinksFrom(n) == {l \in Links : l[1] = n}

\* Every node starts by resynchronising what it has.
Init ==
  /\ stored \in [Nodes -> SUBSET Files]
  /\ push = [l \in Links |-> {}]
  /\ ask = [l \in Links |-> stored[l[1]]]
  /\ cut = [l \in Links |-> {}]
  /\ disturbances = 0

\* A new file is posted at n: EnqueueFile puts it on each target's newFiles,
\* or sets needToResync if that is full.
Post(n, f) ==
  /\ f \notin stored[n]
  /\ stored' = [stored EXCEPT ![n] = @ \cup {f}]
  /\ \E full \in SUBSET LinksFrom(n) :
       /\ push' = [l \in Links |-> IF l \in LinksFrom(n) \ full
                                   THEN push[l] \cup {f} ELSE push[l]]
       /\ ask' = [l \in Links |-> IF l \in full THEN ask[l] \cup {f} ELSE ask[l]]
  /\ UNCHANGED <<cut, disturbances>>

\* Mutant: whatever is PUT is sent on to all targets.
PutSendsOn(l, f) ==
  /\ f \in push[l]
  /\ stored' = [stored EXCEPT ![l[2]] = @ \cup {f}]
  /\ push' = [k \in Links |-> IF k[1] = l[2] THEN push[k] \cup {f} ELSE push[k]]
  /\ UNCHANGED <<ask, cut, disturbances>>

\* Mutant: a file that came by PUT is not replicated any further.
PutEndsHere(l, f) ==
  /\ f \in push[l]
  /\ stored' = [stored EXCEPT ![l[2]] = @ \cup {f}]
  /\ UNCHANGED <<push, ask, cut, disturbances>>

\* The PUT arrives at the target.  If the file is new there, the targets of
\* the target are to be asked about it.
PutArrives(l, f) ==
  /\ f \in push[l]
  /\ stored' = [stored EXCEPT ![l[2]] = @ \cup {f}]
  /\ ask' = [k \in Links |-> IF k[1] = l[2] /\ f \notin stored[l[2]]
                             THEN ask[k] \cup {f} ELSE ask[k]]
  /\ UNCHANGED <<push, cut, disturbances>>

\* Mutant: a PUT that fails is not retried.
PutGivenUp(l, f) ==
  /\ f \in push[l]
  /\ push' = [push EXCEPT ![l] = @ \ {f}]
  /\ UNCHANGED <<stored, ask, cut, disturbances>>

\* The PUT is answered 201.
PutAnswered(l, f) ==
  /\ f \in push[l] /\ f \in stored[l[2]]
  /\ push' = [push EXCEPT ![l] = @ \ {f}]
  /\ UNCHANGED <<stored, ask, cut, disturbances>>

\* Mutant: what the target misses is left to somebody else.
AskAnsweredIdly(l, f) ==
  /\ f \in ask[l]
  /\ ask' = [ask EXCEPT ![l] = @ \ {f}]
  /\ UNCHANGED <<stored, push, cut, disturbances>>

\* The target's answer to a file list is queued: what it misses is sent, and
\* so may be what it got after it had looked.  But queueMissingFiles only logs
\* that a reply was cut short or cannot be decoded, and the list is done with.
AskAnswered(l, f) ==
  /\ f \in ask[l]
  /\ ask' = [ask EXCEPT ![l] = @ \ {f}]
  /\ \/ f \in stored[l[2]] /\ UNCHANGED <<push, cut>>
     \/ push' = [push EXCEPT ![l] = @ \cup {f}] /\ UNCHANGED cut
     \/ /\ f \notin stored[l[2]]
        /\ cut' = [cut EXCEPT ![l] = @ \cup {f}]
        /\ UNCHANGED push
  /\ UNCHANGED <<stored, disturbances>>

\* SIGUSR1, or the resync after a queue was full.
Resync(l) ==
  /\ disturbances < MaxDisturbances
  /\ disturbances' = disturbances + 1
  /\ ask' = [ask EXCEPT ![l] = @ \cup stored[l[1]]]
  /\ cut' = [cut EXCEPT ![l] = {}]
  /\ UNCHANGED <<stored, push>>

\* Mutant: what a node starts with takes the place of what the others have.
RestartAlone(n) ==
  /\ disturbances < MaxDisturbances
  /\ disturbances' = disturbances + 1
  /\ push' = [l \in LinksFrom(n) |-> {}]
  /\ ask' = [l \in LinksFrom(n) |-> stored[n]]
  /\ cut' = [l \in LinksFrom(n) |-> {}]
  /\ UNCHANGED stored

\* Mutant: there is no resync at the start.
RestartUnsynced(n) ==
  /\ disturbances < MaxDisturbances
  /\ disturbances' = disturbances + 1
  /\ push' = [l \in Links |-> IF l[1] = n THEN {} ELSE push[l]]
  /\ ask' = [l \in Links |-> IF l[1] = n THEN {} ELSE ask[l]]
  /\ cut' = [l \in Links |-> IF l[1] = n THEN {} ELSE cut[l]]
  /\ UNCHANGED stored

\* A node stops and starts again: its queues are gone, its files are not.
Restart(n) ==
  /\ disturbances < MaxDisturbances
  /\ disturbances' = disturbances + 1
  /\ push' = [l \in Links |-> IF l[1] = n THEN {} ELSE push[l]]
  /\ ask' = [l \in Links |-> IF l[1] = n THEN stored[n] ELSE ask[l]]
  /\ cut' = [l \in Links |-> IF l[1] = n THEN {} ELSE cut[l]]
  /\ UNCHANGED stored

Next ==
  \/ \E n \in Nodes : Restart(n) \/ \E f \in Files : Post(n, f)
  \/ \E l \in Links : Resync(l)
  \/ \E l \in Links, f \in Files :
        PutArrives(l, f) \/ PutAnswered(l, f) \/ AskAnswered(l, f)

Spec == Init /\ [][Next]_vars

\* Links work in the end; nothing is assumed of clients and restarts.
FairSpec ==
  /\ Spec
  /\ \A l \in Links, f \in Files :
       /\ WF_vars(PutArrives(l, f))
       /\ WF_vars(PutAnswered(l, f))
       /\ WF_vars(AskAnswered(l, f))

-----------------------------------------------------------------------------
(* Properties *)

TypeOK ==
  /\ stored \in [Nodes -> SUBSET Files]
  /\ push \in [Links -> SUBSET Files]
  /\ ask \in [Links -> SUBSET Files] /\ cut \in [Links -> SUBSET Files]
  /\ disturbances \in 0..MaxDisturbances

\* Nodes replicate what they have only, and whatever a node has and its target
\* does not is on its way or will be asked about, whichever way it came, unless
\* it is what a cut reply did not name, and the link has not resynchronised
\* since.  Nothing else is ever forgotten, and a resync or a restart makes good
\* what was.
LinksForgetOnlyCut ==
  \A l \in Links :
    /\ push[l] \cup ask[l] \cup cut[l] \subseteq stored[l[1]]
    /\ stored[l[1]] \ stored[l[2]] \subseteq push[l] \cup ask[l] \cup cut[l]

Quiet == \A l \in Links : push[l] = {} /\ ask[l] = {}

\* A cut reply did not name f, and it has not got to the target since.
Forgotten(f) == \E l \in Links : f \in cut[l] \ stored[l[2]]

\* There is a path of links from n to t: every set of nodes that holds n and
\* the targets of all it holds, holds t.
Reaches(n, t) ==
  \A S \in SUBSET Nodes :
    n \in S /\ (\A l \in Links : l[1] \in S => l[2] \in S) => t \in S

\* When there is nothing left to send and to ask, every file that no cut reply
\* has kept back is on all nodes that its node replicates to over any number of
\* links.
QuietMeansConverged ==
  Quiet => \A n, t \in Nodes : \A f \in stored[n] :
             Reaches(n, t) /\ ~Forgotten(f) => f \in stored[t]

\* The traffic stops: nodes that replicate to one another in a loop, or over
\* several ways, do not send or ask about a file for ever.
TrafficStops == <>[]Quiet

\* Every file gets to every node that can be reached from its own, restarts of
\* any node on the way included, unless a cut reply keeps it back for good: one
\* that is made good by a resync, or by the file's coming another way, does not.
EventuallyEverywhere ==
  \A n, t \in Nodes : \A f \in Files :
    Reaches(n, t) /\ []<>~Forgotten(f) => (f \in stored[n] ~> f \in stored[t])

\* Each link keeps the ledger that ReplicationTarget implements: whatever the
\* nodes do, it starts as a ledger does, and each step of the cluster is one of
\* the ledger or leaves it alone, but for one: a cut reply strikes out what has
\* not arrived, and ledgers do not.  (That what is owed is delivered in the end
\* is part of EventuallyEverywhere.)
Owed == push[TheLink] \cup ask[TheLink]

Ledger == INSTANCE ReplicationLedger WITH
  Locations <- Files,
  Refused <- {},
  stored <- stored[TheLink[1]],
  arrived <- stored[TheLink[2]],
  owed <- Owed

StrikeOutCut ==
  \E f \in Files :
    /\ f \in cut[TheLink]' /\ Owed' = Owed \ {f}
    /\ UNCHANGED stored

LinkKeepsLedger == Ledger!Init /\ [][Ledger!Next \/ StrikeOutCut]_(Ledger!ledger)
=============================================================================
