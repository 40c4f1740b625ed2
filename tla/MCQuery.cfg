SPECIFICATION MCSpec
CONSTANTS
  Triples <- MCTriples
  Quads <- MCQuads
  GraphNames <- MCGraphNames
  PRED_FIRST = 3
  LEFTDEEP_DP_LIMIT = 4
  BUSHY_DP_LIMIT = 4
  BUSHY_DP_FROM = 3
  MASK_BITS = 4
  SMALL_QUERY_VAR_NUM = 2
  MAX_2OPT_PASSES = 2
  I64_MAX = 7
  I128_MAX = 127
  PRECISION = 3
  GRAIN = 16
  Years <- MCYears
CHECK_DEADLOCK FALSE
PROPERTIES
  ValuesAgree
  AnswersAgree
  PlansAreComplete
  FormsAgree
