---------------------------- MODULE MCProvider ----------------------------
(* Small instances of Provider for TLC: the first logical cluster has two  *)
(* objects, so that a Delete can leave its cluster non-empty.              *)
EXTENDS Provider, TLC

CONSTANTS c1, c2, o1, o2, o3

MCClusterOf == (o1 :> c1) @@ (o2 :> c1) @@ (o3 :> c2)
MCClusterOfOne == (o1 :> c1) @@ (o2 :> c1)

Symmetric == Permutations(Inst)
SymmetricRuns == Permutations(Inst) \cup Permutations(Runs)
=============================================================================
