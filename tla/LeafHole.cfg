SPECIFICATION Spec
CONSTANTS
  Param <- MCParam
  NoParam = NoParam
  Key <- MCKey
  Kind <- MCKind
  Name <- MCName
  Children <- MCChildren
  HasCallback <- MCHasCallback
  Batch = {}
  Recursive = {}
  RootHook = "root"
  ShowHook = "show"
  ConfigHook = "config"
  Hooks <- MCHooks
  Pipe = NoParam
  FilterParams = {}
  RefreshHook = NoParam
  RefreshValHook = NoParam
  ClrscrHook = NoParam
  HostNameLeaf = NoParam
  MAX_OPTION_SIZE = 5
  LeafValid <- MCLeafValid
  DEF_CLI_HDR <- MCHdr
  MAX_COMMAND_LENGTH = 40
  LEAF_VALUE_HOLDER_SIZE = 4
  MAX_STACK_SIZE = 32
INVARIANTS
  LineMatchesStack
CHECK_DEADLOCK FALSE
