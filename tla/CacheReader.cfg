\* Two clusters, two namespaces, one name; a resource with namespaces or without.
SPECIFICATION Spec
CONSTANTS
  Cluster = {c1, c2}
  Namespace = {n1, n2}
  NoNamespace = none
  Name = {a}
  v1 = v1
  Value = {v1, v2}
  Field = {f1}
  Absent = absent
  Nil = nil
  clusterName = c1
  Queries <- MCQueries
SYMMETRY SymmetricNamespaces
INVARIANTS
  ReaderInv
  ListExact
  GetExact
PROPERTIES
  ReadsAlone
