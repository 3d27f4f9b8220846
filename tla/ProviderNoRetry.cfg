CONSTANTS
  c1 = c1
  c2 = c2
  o1 = o1
  o2 = o2
  o3 = o3
  Cluster = {c1}
  Object = {o1, o2}
  ClusterOf <- MCClusterOfOne
  Runs = {r1}
  NoRun = NoRun
  Inst = {i1, i2}
  NoInst = NoInst
  MaxPending = 2
  MaxFailures = 1
SPECIFICATION FairSpec
PROPERTY RepresentsEachCluster
\* after Shutdown nothing is left to do
CHECK_DEADLOCK FALSE
