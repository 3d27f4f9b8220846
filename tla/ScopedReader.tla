---------------------------- MODULE ScopedReader ----------------------------
(***************************************************************************)
(* The reader of one logical cluster on the store that all of them share   *)
(* is the reader of that cluster on a store of its own.                    *)
(***************************************************************************)
EXTENDS CacheReader

OwnKey == {k \in Key : k.cluster = clusterName}

(* The same code where there is no other cluster.                          *)
Alone == INSTANCE CacheReader WITH
  Cluster <- {clusterName},
  store <- [k \in OwnKey |-> store[k]]

(* Whatever is asked of it, by fields too, and whatever other clusters     *)
(* have, a Get, each step of a List and each answer are those of a cache   *)
(* that holds this cluster only; what happens to the others is not seen at *)
(* all (forked_cache_reader.go:63-204; indexes.go:27-53;                   *)
(* wildcard.go:92-95, 147-158).                                            *)
ReadsAlone == Alone!Spec

=============================================================================
