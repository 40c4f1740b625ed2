SPECIFICATION Spec
CONSTANTS
  Nodes = {"n1", "n2", "n3"}
  Nil = Nil
  Ops <- Writes
  Campaigns <- Contested
  Mortal = {"n1"}
  Threads = {"driver"}
  MaxLog = 1
  MaxLate = 1
  MaxLateAtKill = 0
CHECK_DEADLOCK FALSE
INVARIANTS
  RaftIsSafe
  ReplicasAreReplays
PROPERTIES
  CommitIsFinal
