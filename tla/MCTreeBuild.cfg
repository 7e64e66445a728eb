SPECIFICATION Spec
CONSTANTS
  Own = {"a", "b", "x"}
  Leaf = {"x"}
  Handled = {"a", "x"}
  Negation = {n1, n2, n3}
  NULL = NULL
  MAX_OPTION_SIZE = 6
  CALLBACKS_N = 2
  Branches = {"show", "config"}
  MaxCalls = 4
INVARIANTS
  PipeEverywhereOnce
  NegationMirrors
  BatchGoesUp
CHECK_DEADLOCK FALSE
