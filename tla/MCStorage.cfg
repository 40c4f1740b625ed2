SPECIFICATION StorageSpec
CONSTANTS
  MaxPage = 2
  Data = {d1}
  Zero = Zero
  Nil = Nil
  capacity = 1
  MaxErrors = 1
  v1 = v1
  None = None
  q1 = q1
  q2 = q2
  q3 = q3
  q0 = q0
  Entities = {e1, e2}
  PredTerms = {p}
  Literals = {l}
  LITERAL_FIRST_ID = 4
  MaxOps = 3
SYMMETRY Sym
CONSTRAINT Whole
CHECK_DEADLOCK FALSE
INVARIANTS
  FreeListIsSound
  IndexFilesAgree
  DiskStoreAgrees
PROPERTIES
  FlushIsAtomic
  LoadsAreSnapshots
