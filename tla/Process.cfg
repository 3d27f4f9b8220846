CONSTANTS
  c1 = c1
  Cluster = {c1}
  Object = {o1, o2}
  ClusterOf <- OneCluster
  Runs = {r1}
  NoRun = NoRun
  Inst = {i1, i2}
  NoInst = NoInst
  MaxPending = 2
  MaxFailures = 2
SPECIFICATION ProcessFairSpec
INVARIANT ProcessInv
PROPERTY ServedAcrossRestarts
PROPERTY ForgottenAcrossRestarts
PROPERTY DirectoryAcrossRestarts
