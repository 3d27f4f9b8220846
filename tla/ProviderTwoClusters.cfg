\* Two clusters, three objects, one call of Run, one failure.
CONSTANTS
  c1 = c1
  c2 = c2
  o1 = o1
  o2 = o2
  o3 = o3
  Cluster = {c1, c2}
  Object = {o1, o2, o3}
  ClusterOf <- MCClusterOf
  Runs = {r1}
  NoRun = NoRun
  Inst = {i1, i2, i3}
  NoInst = NoInst
  MaxPending = 3
  MaxFailures = 1
SPECIFICATION FairSpec
INVARIANT RepresentedIsEngaged
INVARIANT NoLostNotification
INVARIANT Converged
PROPERTY EventuallyServed
PROPERTY EventuallyForgotten
PROPERTY ShutdownReturns
\* after Shutdown nothing is left to do
CHECK_DEADLOCK FALSE
