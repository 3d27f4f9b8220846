----------------------------- MODULE MCProcess -----------------------------
(* A small instance of Process for TLC: one logical cluster, bound by two  *)
(* objects, and one call of Run per process, as in main.                   *)
EXTENDS Process

CONSTANTS c1

OneCluster == [o \in Object |-> c1]
=============================================================================
