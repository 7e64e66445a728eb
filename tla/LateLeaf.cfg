SPECIFICATION Spec
CONSTANTS
  Own = {"a", "x", "y"}
  Leaf = {"x", "y"}
  Handled = {"a", "x"}
  Negation = {n1, n2, n3}
  NULL = NULL
  MAX_OPTION_SIZE = 6
  CALLBACKS_N = 2
  Branches = {"show", "config"}
  MaxCalls = 4
INVARIANTS
  OneLeaf
CHECK_DEADLOCK FALSE
