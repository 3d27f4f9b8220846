\* Two clusters with an object each of the same name; a handler with resync.
SPECIFICATION FairSpec
CONSTANTS
  Cluster = {c1, c2}
  Name = {a}
  Version = {v1, v2}
  Absent = absent
  clusterName = c1
  WithResync = TRUE
  MaxPending = 4
INVARIANTS
  ScopedInv
  KnowsItsCluster
PROPERTIES
  ImplementsInformer
  CatchesUp
  MakesSense
