\* An informer is removed and asked for again.
SPECIFICATION Spec
CONSTANTS
  Caller = {p1, p2}
  NoCaller = nobody
  Kind = {k1}
  ListKind <- MCListKind
  NoKind = none
  Informer = {i1}
  NoInformer = nil
  Removable = {k1}
  Failing = {}
INVARIANTS
  NoDuplicate
