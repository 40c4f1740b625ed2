SPECIFICATION ClusterSpec
CONSTANTS
  r0 = r0
  r1 = r1
  r2 = r2
  n1 = n1
  n2 = n2
  n3 = n3
  s1 = s1
  s2 = s2
  Nodes = {r0, r1, r2}
  Nil = Nil
  Rank <- ReplicaIds
  Triples <- GroupTriples
  OtherBucket <- OtherTriples
  Ids = {1, 2}
  Preds = {1, 2}
  compact_threshold = 1
  Impatient = {r2}
  MaxTerm = 3
  MaxIndex = 2
  MaxDeliveries = 20
CHECK_DEADLOCK FALSE
INVARIANTS
  GroupServesItsLog
  RemoteCallsAgree
PROPERTIES
  ProbesAreCurrent
  MigrationsAreExact
