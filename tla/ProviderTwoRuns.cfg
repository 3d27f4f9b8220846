CONSTANTS
  c1 = c1
  c2 = c2
  o1 = o1
  o2 = o2
  o3 = o3
  Cluster = {c1}
  Object = {o1, o2}
  ClusterOf <- MCClusterOfOne
  Runs = {r1, r2}
  NoRun = NoRun
  Inst = {i1, i2, i3}
  NoInst = NoInst
  MaxPending = 3
  MaxFailures = 1
SPECIFICATION Spec
SYMMETRY SymmetricRuns
INVARIANT IInv
INVARIANT ContextTracked
INVARIANT ListedIsLive
PROPERTY DirectorySpec
\* after Shutdown nothing is left to do
CHECK_DEADLOCK FALSE
