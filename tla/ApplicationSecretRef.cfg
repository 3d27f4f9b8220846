CONSTANTS
  n1 = n1
  n2 = n2
  Cluster = {c1}
  Namespace = {n1, n2}
  Name = {app}
  RefNamespace <- OtherNamespace
  NoApp = NoApp
  c1 = c1
  Inst = {i1}
  NoInst = NoInst
  NameOf <- OneCluster
  MaxVersion = 1
  MaxFailures = 0
SPECIFICATION FairSpec
PROPERTY AnyNamespaceServed
