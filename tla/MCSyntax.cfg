SPECIFICATION Spec
CONSTANTS
  MaxElements = 3
  MaxPieces = 4
  MaxLines = 3
  MaxStatements = 2
  MaxReference = 6
  MAX_NESTING_DEPTH = 4
CHECK_DEADLOCK FALSE
PROPERTIES
  TokensAreLongest
  RequestsAreRead
  DocumentsAreRead
