SPECIFICATION Spec
CONSTANTS
  Txns = {t1, t2}
  Views = {v1}
  Legacy = {w1}
  Keys = {k1}
  Base = {k1}
  Levels = {"ReadCommitted", "RepeatableRead"}
  NoOwner = NoOwner
  UpdateMayFail = TRUE
  MaxVersion = 4
SYMMETRY Symmetry
INVARIANTS
  TypeOK
  NoLostUpdate
  ViewsAreStable
  HistoryIsBounded
