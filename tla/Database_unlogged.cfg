SPECIFICATION DatabaseSpec
CONSTANTS
  NoString = NoString
  LITERAL_FIRST_ID = 8
  Nil = Nil
  Torn = Torn
  Err = Err
  a = a
  b = b
  c = c
  Triples <- Edges
  Inferred <- Rules
  Graphs = {a}
  capacity = 1
  MaxLog = 2
  MaxUndo = 2
INVARIANT
  CapturesEveryMutation
