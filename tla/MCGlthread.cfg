SPECIFICATION Spec
CONSTANTS
  n1 = n1
  n2 = n2
  n3 = n3
  Heads = {h1, h2}
  Node = {n1, n2, n3}
  NULL = NULL
  temp_list = temp_list
  Weight <- MCWeight
INVARIANTS
  PointersAgree
  StackListIsEmpty
PROPERTIES
  IsLists
  CallsReturn
