SPECIFICATION Spec
CONSTANTS
  Param <- MCParam
  NoParam = NoParam
  Key <- MCKey
  Kind <- MCKind
  Name <- MCName
  Children <- MCChildren
  HasCallback <- MCHasCallback
  Batch = {}
  Recursive = {}
  RootHook = "root"
  ShowHook = "show"
  ConfigHook = "config"
  Hooks <- MCHooks
  Pipe = "pipe"
  FilterParams <- MCFilterParams
  RefreshHook = "refresh"
  RefreshValHook = "interval"
  ClrscrHook = "cls"
  HostNameLeaf = NoParam
  MAX_OPTION_SIZE = 5
  LeafValid <- MCLeafValid
  DEF_CLI_HDR <- MCHdr
  MAX_COMMAND_LENGTH = 24
  LEAF_VALUE_HOLDER_SIZE = 2
  MAX_STACK_SIZE = 32
INVARIANTS
  CheckpointIsFirstPipe
  RefreshIffOnStack
  FiltersSplitOff
CHECK_DEADLOCK FALSE
