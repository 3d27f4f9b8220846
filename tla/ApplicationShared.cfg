CONSTANTS
  n1 = n1
  n2 = n2
  Cluster = {c1}
  Namespace = {n1, n2}
  Name = {app}
  RefNamespace <- OwnNamespace
  NoApp = NoApp
  c1 = c1
  Inst = {i1, i2}
  NoInst = NoInst
  NameOf <- OneCluster
  MaxVersion = 2
  MaxFailures = 1
SPECIFICATION FairSpec
INVARIANT ApplicationInv
INVARIANT ReadyMeansDeployed
INVARIANT NotForgotten
INVARIANT StaleIsQueued
INVARIANT WatchesTheListed
PROPERTY EventuallyReady
PROPERTY Quiesces
