--------------------------- MODULE MCApplication ---------------------------
(* Small instances of Application for TLC: two Applications of one name in *)
(* two namespaces of a cluster, which share their children.                *)
EXTENDS Application

CONSTANTS n1, n2, c1

OwnNamespace == [a \in App |-> a.namespace]
OneCluster == [i \in Inst |-> c1]
OtherNamespace == [a \in App |-> n2]
=============================================================================
