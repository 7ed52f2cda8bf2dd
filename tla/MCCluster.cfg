\* A loop of three nodes, one link of it both ways, and a fourth node; one
\* file, which may be on any nodes at first; two restarts or resyncs.
CONSTANTS
  n1 = n1
  n2 = n2
  n3 = n3
  n4 = n4
  f1 = f1
  Nodes <- FourNodes
  Files <- OneFile
  Links <- LoopAndLeaf
  TheLink <- Backwards
  MaxDisturbances = 2
SPECIFICATION FairSpec
INVARIANTS
  TypeOK
  LinksForgetOnlyCut
  QuietMeansConverged
PROPERTIES
  TrafficStops
  EventuallyEverywhere
  LinkKeepsLedger
\* The cluster comes to rest.
CHECK_DEADLOCK FALSE
