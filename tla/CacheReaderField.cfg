\* List by a field for which IndexField was called.
SPECIFICATION Spec
CONSTANTS
  Cluster = {c1, c2}
  Namespace = {n1}
  NoNamespace = none
  Name = {a}
  v1 = v1
  Value = {v1, v2}
  Field = {f1}
  Absent = absent
  Nil = nil
  clusterName = c1
  Queries <- MCQueries
INVARIANTS
  FieldSelected
