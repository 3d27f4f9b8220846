\* Two goroutines, two kinds, informers removed and calls that fail: the callers
\* may end up blocked.
SPECIFICATION FairSpec
CONSTANTS
  Caller = {p1, p2}
  NoCaller = nobody
  Kind = {k1, k2}
  ListKind <- MCListKind
  NoKind = none
  Informer = {i1, i2}
  NoInformer = nil
  Removable = {k1, k2}
  Failing = {k1, k2}
INVARIANTS
  TrackerInv
  KnownIsCurrent
  TrackedIsRunning
PROPERTIES
  CallsReturn
CHECK_DEADLOCK FALSE
