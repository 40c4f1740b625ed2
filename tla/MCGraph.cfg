SPECIFICATION Spec
CONSTANTS
  RDF_TYPE = 5
  RDFS_SUBCLASS = 6
  RDFS_SUBPROP = 7
  RDFS_DOMAIN = 8
  RDFS_RANGE = 9
  LITERAL_FIRST_ID = 10
  STR_SIG_LITERAL = 2
  EDGE_SIG_INTERVAL_NUM_HALF = 2
  EDGE_SIG_INTERVAL_BASE = 1
  STR_AND_EDGE_INTERVAL_BASE = 2
  LIMB = 8
  FANOUT = 2
  DISK_FANOUT = 2
  Insertable <- MCInsertable
  Definitions <- MCDefinitions
  MaxRules = 2
CHECK_DEADLOCK FALSE
INVARIANTS
  SearchesAgree
  StructuresAgree
  FilterIsExact
  InferenceIsExact
