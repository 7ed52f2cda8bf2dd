------------------------------ MODULE MCCluster ------------------------------
(* Cluster with four nodes: three in a loop, two of these linked both ways,*)
(* and one that is a target only.                                          *)
EXTENDS Cluster

CONSTANTS n1, n2, n3, n4, f1

FourNodes == {n1, n2, n3, n4}
OneFile == {f1}
LoopAndLeaf == {<<n1, n2>>, <<n2, n3>>, <<n3, n1>>, <<n1, n3>>, <<n3, n4>>}

\* In the loop, and one of two ways from n1 to n3.
Backwards == <<n1, n3>>
=============================================================================
