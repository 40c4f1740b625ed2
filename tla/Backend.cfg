SPECIFICATION BackendSpec
CONSTANTS
  Ids = {a, b}
  Preds = {p, q}
  Batches <- Parallel
SYMMETRY Symmetric
INVARIANTS
  ReadsAgree
PROPERTIES
  Implements
  RocksImplements
