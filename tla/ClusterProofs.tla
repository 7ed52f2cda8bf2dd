---------------------------- MODULE ClusterProofs ----------------------------
(* Theorems about Cluster, for any nodes, files and links. *)
EXTENDS Cluster, TLAPS

LEMMA LinkNodes == ASSUME NEW l \in Links PROVE l[1] \in Nodes /\ l[2] \in Nodes
  BY ClusterAssumption

\* Every step keeps the types.
LEMMA TypeStep == TypeOK /\ [Next]_vars => TypeOK'
<1> SUFFICES ASSUME TypeOK, [Next]_vars PROVE TypeOK'
  OBVIOUS
<1> USE DEF TypeOK
<1>1. ASSUME NEW n \in Nodes, Restart(n) PROVE TypeOK'
  BY <1>1, ClusterAssumption DEF Restart
<1>2. ASSUME NEW n \in Nodes, NEW f \in Files, Post(n, f) PROVE TypeOK'
  <2>1. PICK full \in SUBSET LinksFrom(n) :
          /\ push' = [l \in Links |-> IF l \in LinksFrom(n) \ full
                                      THEN push[l] \cup {f} ELSE push[l]]
          /\ ask' = [l \in Links |-> IF l \in full THEN ask[l] \cup {f} ELSE ask[l]]
    BY <1>2 DEF Post
  <2>2. push' \in [Links -> SUBSET Files] /\ ask' \in [Links -> SUBSET Files]
    BY <2>1
  <2>3. /\ stored' \in [Nodes -> SUBSET Files] /\ disturbances' \in 0..MaxDisturbances
        /\ cut' \in [Links -> SUBSET Files]
    BY <1>2 DEF Post
  <2> QED BY <2>2, <2>3
<1>3. ASSUME NEW l \in Links, Resync(l) PROVE TypeOK'
  BY <1>3, LinkNodes, ClusterAssumption DEF Resync
<1>4. ASSUME NEW l \in Links, NEW f \in Files, PutArrives(l, f) PROVE TypeOK'
  BY <1>4, LinkNodes DEF PutArrives
<1>5. ASSUME NEW l \in Links, NEW f \in Files, PutAnswered(l, f) PROVE TypeOK'
  BY <1>5 DEF PutAnswered
<1>6. ASSUME NEW l \in Links, NEW f \in Files, AskAnswered(l, f) PROVE TypeOK'
  BY <1>6 DEF AskAnswered
<1>7. CASE UNCHANGED vars
  BY <1>7 DEF vars
<1> QED
  BY <1>1, <1>2, <1>3, <1>4, <1>5, <1>6, <1>7 DEF Next

\* The types of Cluster hold for any nodes, files and links.
THEOREM ClusterTypeCorrect == Spec => []TypeOK
<1>1. Init => TypeOK
  BY LinkNodes, ClusterAssumption DEF Init, TypeOK
<1> QED
  BY <1>1, TypeStep, PTL DEF Spec

-----------------------------------------------------------------------------

\* What LinksForgetOnlyCut says of one link.
LinkRight(l) ==
  /\ push[l] \cup ask[l] \cup cut[l] \subseteq stored[l[1]]
  /\ stored[l[1]] \ stored[l[2]] \subseteq push[l] \cup ask[l] \cup cut[l]

\* A step keeps each link right: what is stored anew is queued on the links of
\* its node, and what leaves a link's queues is at the target, or was cut.
LEMMA LinkStep ==
  ASSUME TypeOK, LinksForgetOnlyCut, [Next]_vars, NEW k \in Links
  PROVE LinkRight(k)'
<1> USE DEF TypeOK, LinkRight
<1>0. LinkRight(k) /\ k[1] \in Nodes /\ k[2] \in Nodes /\ k[1] # k[2]
  BY ClusterAssumption DEF LinksForgetOnlyCut
<1>1. ASSUME NEW n \in Nodes, Restart(n) PROVE LinkRight(k)'
  BY <1>0, <1>1 DEF Restart
<1>2. ASSUME NEW n \in Nodes, NEW f \in Files, Post(n, f) PROVE LinkRight(k)'
  <2>1. PICK full \in SUBSET LinksFrom(n) :
          /\ push' = [l \in Links |-> IF l \in LinksFrom(n) \ full
                                      THEN push[l] \cup {f} ELSE push[l]]
          /\ ask' = [l \in Links |-> IF l \in full THEN ask[l] \cup {f} ELSE ask[l]]
    BY <1>2 DEF Post
  <2>2. stored' = [stored EXCEPT ![n] = @ \cup {f}] /\ cut' = cut
    BY <1>2 DEF Post
  <2>3. CASE k[1] = n
    <3>1. k \in LinksFrom(n)
      BY <2>3 DEF LinksFrom
    <3>2. push'[k] \cup ask'[k] = push[k] \cup ask[k] \cup {f}
      BY <2>1, <3>1
    <3>3. stored'[k[1]] = stored[k[1]] \cup {f} /\ stored'[k[2]] = stored[k[2]]
      BY <1>0, <2>2, <2>3
    <3> QED BY <1>0, <2>2, <3>2, <3>3
  <2>4. CASE k[1] # n
    <3>1. k \notin LinksFrom(n)
      BY <2>4 DEF LinksFrom
    <3>2. push'[k] = push[k] /\ ask'[k] = ask[k]
      BY <2>1, <3>1
    <3>3. stored'[k[1]] = stored[k[1]] /\ stored[k[2]] \subseteq stored'[k[2]]
      BY <1>0, <2>2, <2>4
    <3> QED BY <1>0, <2>2, <3>2, <3>3
  <2> QED BY <2>3, <2>4
<1>3. ASSUME NEW l \in Links, Resync(l) PROVE LinkRight(k)'
  BY <1>0, <1>3 DEF Resync
<1>4. ASSUME NEW l \in Links, NEW f \in Files, PutArrives(l, f) PROVE LinkRight(k)'
  <2>1. l[2] \in Nodes
    BY LinkNodes
  <2>2. stored' = [stored EXCEPT ![l[2]] = @ \cup {f}] /\ push' = push /\ cut' = cut
    BY <1>4 DEF PutArrives
  <2>3. ask'[k] = IF k[1] = l[2] /\ f \notin stored[l[2]] THEN ask[k] \cup {f} ELSE ask[k]
    BY <1>4 DEF PutArrives
  <2>4. CASE k[1] = l[2]
    <3>1. stored'[k[1]] = stored[k[1]] \cup {f} /\ stored'[k[2]] = stored[k[2]]
      BY <1>0, <2>1, <2>2, <2>4
    <3> QED BY <1>0, <2>2, <2>3, <2>4, <3>1
  <2>5. CASE k[1] # l[2]
    <3>1. stored'[k[1]] = stored[k[1]] /\ stored[k[2]] \subseteq stored'[k[2]]
      BY <1>0, <2>1, <2>2, <2>5
    <3> QED BY <1>0, <2>2, <2>3, <2>5, <3>1
  <2> QED BY <2>4, <2>5
<1>5. ASSUME NEW l \in Links, NEW f \in Files, PutAnswered(l, f) PROVE LinkRight(k)'
  BY <1>0, <1>5 DEF PutAnswered
<1>6. ASSUME NEW l \in Links, NEW f \in Files, AskAnswered(l, f) PROVE LinkRight(k)'
  BY <1>0, <1>6 DEF AskAnswered
<1>7. CASE UNCHANGED vars
  BY <1>0, <1>7 DEF vars
<1> QED
  BY <1>1, <1>2, <1>3, <1>4, <1>5, <1>6, <1>7 DEF Next

\* On no link, of any topology, is anything made up, or anything forgotten but
\* what a reply that was cut short since its last resync did not name.
THEOREM OnlyCutIsForgotten == Spec => []LinksForgetOnlyCut
<1>1. Init => TypeOK /\ LinksForgetOnlyCut
  BY LinkNodes, ClusterAssumption DEF Init, TypeOK, LinksForgetOnlyCut
<1>2. TypeOK /\ LinksForgetOnlyCut /\ [Next]_vars => TypeOK' /\ LinksForgetOnlyCut'
  <2> SUFFICES ASSUME TypeOK, LinksForgetOnlyCut, [Next]_vars
               PROVE TypeOK' /\ LinksForgetOnlyCut'
    OBVIOUS
  <2>1. TypeOK'
    BY TypeStep
  <2>2. ASSUME NEW l \in Links PROVE LinkRight(l)'
    BY <2>2, LinkStep
  <2> QED BY <2>1, <2>2 DEF LinkRight, LinksForgetOnlyCut
<1> QED
  BY <1>1, <1>2, PTL DEF Spec

\* In a cluster at rest the nodes that have a file are closed under links, and
\* so hold every node that can be reached from one of them.
LEMMA RestIsConverged == TypeOK /\ LinksForgetOnlyCut => QuietMeansConverged
<1> SUFFICES ASSUME TypeOK, LinksForgetOnlyCut, Quiet,
                    NEW n \in Nodes, NEW t \in Nodes, NEW f \in stored[n],
                    Reaches(n, t), ~Forgotten(f)
             PROVE f \in stored[t]
  BY DEF QuietMeansConverged
<1> DEFINE Having == {m \in Nodes : f \in stored[m]}
<1>1. ASSUME NEW l \in Links, l[1] \in Having PROVE l[2] \in Having
  <2>1. stored[l[1]] \ stored[l[2]] \subseteq cut[l]
    BY DEF LinksForgetOnlyCut, Quiet
  <2>2. f \notin cut[l] \ stored[l[2]]
    BY DEF Forgotten
  <2> QED BY <1>1, <2>1, <2>2, LinkNodes
<1>2. n \in Having /\ Having \in SUBSET Nodes
  OBVIOUS
<1>3. t \in Having
  BY <1>1, <1>2 DEF Reaches
<1> QED BY <1>3

\* Whenever the traffic has stopped, every file that no cut reply has kept back
\* is on all nodes that can be reached from any that has it, over links of any
\* shape.
THEOREM ConvergedAtRest == Spec => []QuietMeansConverged
<1> QED
  BY ClusterTypeCorrect, OnlyCutIsForgotten, RestIsConverged, PTL

-----------------------------------------------------------------------------

Here == TheLink[1]
There == TheLink[2]
LEMMA TheLinkNodes == Here \in Nodes /\ There \in Nodes /\ Here # There
  BY ClusterAssumption DEF Here, There

\* Every step of the cluster is a step of the ledger, or none, or strikes out
\* what a reply that was cut short did not name.
LEMMA LedgerStep ==
  ASSUME TypeOK, LinksForgetOnlyCut, [Next]_vars
  PROVE [Ledger!Next \/ StrikeOutCut]_(Ledger!ledger)
<1> USE DEF TypeOK
<1>0. /\ TheLink \in Links /\ Owed \in SUBSET Files
      /\ stored[Here] \in SUBSET Files /\ Owed \subseteq stored[Here]
  BY ClusterAssumption, TheLinkNodes DEF Owed, LinksForgetOnlyCut, Here
<1>a. ASSUME NEW f \in Files, stored'[Here] = stored[Here] \cup {f},
             Owed' = Owed \cup {f}, stored'[There] = stored[There]
      PROVE Ledger!Next
  BY <1>a DEF Ledger!Next, Ledger!Store, Owed, Here, There
<1>b. ASSUME NEW f \in Files, stored'[There] = stored[There] \cup {f},
             stored'[Here] = stored[Here], Owed' = Owed
      PROVE Ledger!Next
  BY <1>b DEF Ledger!Next, Ledger!Arrive, Owed, Here, There
<1>c. ASSUME stored' = stored, Owed' = Owed \cup stored[Here]
      PROVE Ledger!Next
  BY <1>c, <1>0 DEF Ledger!Next, Ledger!Resync, Owed, Here, There
<1>d. ASSUME NEW f \in stored[There], f \in Files, stored' = stored, Owed' = Owed \ {f}
      PROVE Ledger!Next
  BY <1>d DEF Ledger!Next, Ledger!Settle, Owed, Here, There
<1>e. ASSUME stored'[Here] = stored[Here], stored'[There] = stored[There], Owed' = Owed
      PROVE UNCHANGED Ledger!ledger
  BY <1>e DEF Ledger!ledger, Owed, Here, There
<1>1. ASSUME NEW n \in Nodes, Restart(n) PROVE [Ledger!Next \/ StrikeOutCut]_(Ledger!ledger)
  <2>1. CASE n = Here
    <3>1. Owed' = stored[Here] /\ stored' = stored
      BY <1>1, <2>1, <1>0 DEF Restart, Owed, Here
    <3> QED BY <3>1, <1>0, <1>c
  <2>2. CASE n # Here
    <3>1. Owed' = Owed /\ stored' = stored
      BY <1>1, <2>2, <1>0 DEF Restart, Owed, Here
    <3> QED BY <3>1, <1>e
  <2> QED BY <2>1, <2>2
<1>2. ASSUME NEW n \in Nodes, NEW f \in Files, Post(n, f)
      PROVE [Ledger!Next \/ StrikeOutCut]_(Ledger!ledger)
  <2>1. PICK full \in SUBSET LinksFrom(n) :
          /\ push' = [l \in Links |-> IF l \in LinksFrom(n) \ full
                                      THEN push[l] \cup {f} ELSE push[l]]
          /\ ask' = [l \in Links |-> IF l \in full THEN ask[l] \cup {f} ELSE ask[l]]
    BY <1>2 DEF Post
  <2>2. stored' = [stored EXCEPT ![n] = @ \cup {f}]
    BY <1>2 DEF Post
  <2>3. CASE n = Here
    <3>1. TheLink \in LinksFrom(n)
      BY <1>0, <2>3 DEF LinksFrom, Here
    <3>2. Owed' = Owed \cup {f}
      BY <1>0, <2>1, <3>1 DEF Owed
    <3> QED BY <2>2, <2>3, <3>2, <1>a, TheLinkNodes
  <2>4. CASE n # Here
    <3>1. TheLink \notin LinksFrom(n)
      BY <2>4 DEF LinksFrom, Here
    <3>2. Owed' = Owed
      BY <1>0, <2>1, <3>1 DEF Owed
    <3>3. stored'[Here] = stored[Here]
      BY <2>2, <2>4, TheLinkNodes
    <3>4. CASE n = There
      BY <2>2, <3>2, <3>3, <3>4, <1>b, TheLinkNodes
    <3>5. CASE n # There
      BY <2>2, <3>2, <3>3, <3>5, <1>e, TheLinkNodes
    <3> QED BY <3>4, <3>5
  <2> QED BY <2>3, <2>4
<1>3. ASSUME NEW l \in Links, Resync(l) PROVE [Ledger!Next \/ StrikeOutCut]_(Ledger!ledger)
  <2>1. stored' = stored
    BY <1>3 DEF Resync
  <2>2. CASE l = TheLink
    <3>1. Owed' = Owed \cup stored[Here]
      BY <1>3, <2>2 DEF Resync, Owed, Here
    <3> QED BY <2>1, <3>1, <1>c
  <2>3. CASE l # TheLink
    <3>1. Owed' = Owed
      BY <1>0, <1>3, <2>3 DEF Resync, Owed
    <3> QED BY <2>1, <3>1, <1>e
  <2> QED BY <2>2, <2>3
<1>4. ASSUME NEW l \in Links, NEW f \in Files, PutArrives(l, f)
      PROVE [Ledger!Next \/ StrikeOutCut]_(Ledger!ledger)
  <2>1. l[2] \in Nodes /\ stored' = [stored EXCEPT ![l[2]] = @ \cup {f}]
    BY <1>4, LinkNodes DEF PutArrives
  <2>2. Owed' = IF Here = l[2] /\ f \notin stored[l[2]] THEN Owed \cup {f} ELSE Owed
    BY <1>4, <1>0 DEF PutArrives, Owed, Here
  <2>3. CASE Here = l[2] /\ f \notin stored[l[2]]
    BY <2>1, <2>2, <2>3, <1>a, TheLinkNodes
  <2>4. CASE Here = l[2] /\ f \in stored[l[2]]
    <3>1. stored'[Here] = stored[Here] /\ stored'[There] = stored[There]
      BY <2>1, <2>4, TheLinkNodes
    <3> QED BY <2>2, <2>4, <3>1, <1>e
  <2>5. CASE There = l[2]
    BY <2>1, <2>2, <2>5, <1>b, TheLinkNodes
  <2>6. CASE Here # l[2] /\ There # l[2]
    BY <2>1, <2>2, <2>6, <1>e, TheLinkNodes
  <2> QED BY <2>3, <2>4, <2>5, <2>6
<1>5. ASSUME NEW l \in Links, NEW f \in Files, PutAnswered(l, f)
      PROVE [Ledger!Next \/ StrikeOutCut]_(Ledger!ledger)
  <2>1. stored' = stored /\ f \in stored[l[2]]
    BY <1>5 DEF PutAnswered
  <2>2. CASE l = TheLink
    <3>1. Owed' = Owed \/ Owed' = Owed \ {f}
      BY <1>5, <1>0, <2>2 DEF PutAnswered, Owed
    <3> QED BY <2>1, <2>2, <3>1, <1>d, <1>e DEF There
  <2>3. CASE l # TheLink
    <3>1. Owed' = Owed
      BY <1>5, <1>0, <2>3 DEF PutAnswered, Owed
    <3> QED BY <2>1, <3>1, <1>e
  <2> QED BY <2>2, <2>3
<1>6. ASSUME NEW l \in Links, NEW f \in Files, AskAnswered(l, f)
      PROVE [Ledger!Next \/ StrikeOutCut]_(Ledger!ledger)
  <2>1. stored' = stored
    BY <1>6 DEF AskAnswered
  <2>2. CASE l = TheLink
    <3>1. \/ Owed' = Owed
          \/ Owed' = Owed \ {f} /\ (f \in stored[l[2]] \/ f \in cut'[TheLink])
      BY <1>6, <1>0, <2>2 DEF AskAnswered, Owed
    <3>2. CASE Owed' = Owed \ {f} /\ f \in cut'[TheLink]
      BY <2>1, <3>2 DEF StrikeOutCut
    <3> QED BY <2>1, <2>2, <3>1, <3>2, <1>d, <1>e DEF There
  <2>3. CASE l # TheLink
    <3>1. Owed' = Owed
      BY <1>6, <1>0, <2>3 DEF AskAnswered, Owed
    <3> QED BY <2>1, <3>1, <1>e
  <2> QED BY <2>2, <2>3
<1>7. CASE UNCHANGED vars
  BY <1>7, <1>e DEF vars, Owed
<1> QED
  BY <1>1, <1>2, <1>3, <1>4, <1>5, <1>6, <1>7 DEF Next

\* Whatever the cluster does, each of its links keeps the ledger that one node
\* keeps of what it owes to one target; only a cut reply strikes out what has
\* not arrived.
THEOREM LinksKeepLedgers == Spec => LinkKeepsLedger
<1>1. Init => Ledger!Init
  BY ClusterAssumption, TheLinkNodes DEF Init, Ledger!Init, Owed, Here, There
<1>2. TypeOK /\ LinksForgetOnlyCut /\ [Next]_vars
        => [Ledger!Next \/ StrikeOutCut]_(Ledger!ledger)
  BY LedgerStep
<1> QED
  BY <1>1, <1>2, ClusterTypeCorrect, OnlyCutIsForgotten, PTL
     DEF Spec, LinkKeepsLedger
=============================================================================
