SPECIFICATION FairSpec
CONSTANTS
  Txns = {t1, t2}
  Views = {v1}
  Legacy = {w1}
  Keys = {k1}
  Base = {k1}
  Levels = {"ReadCommitted", "Serializable"}
  NoOwner = NoOwner
  UpdateMayFail = FALSE
  MaxVersion = 3
INVARIANTS
  CommitsAreCurrent
PROPERTIES
  ImplementsSnapshotIsolation
  WriterIsReleased
