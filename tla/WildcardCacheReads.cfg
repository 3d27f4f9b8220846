\* Get and List of a kind with an informer or without.
SPECIFICATION Spec
CONSTANTS
  Caller = {p1, p2}
  NoCaller = nobody
  Kind = {k1}
  ListKind <- MCListKind
  NoKind = none
  Informer = {i1}
  NoInformer = nil
  Removable = {}
  Failing = {}
INVARIANTS
  ReadsAnswer
