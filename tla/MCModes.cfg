SPECIFICATION Spec
CONSTANTS
  Param <- MCParam
  NoParam = NoParam
  Key <- MCKey
  Kind <- MCKind
  Name <- MCName
  Children <- MCChildren
  HasCallback <- MCHasCallback
  Batch <- MCBatch
  Recursive = {}
  RootHook = "root"
  ShowHook = "show"
  ConfigHook = "config"
  Hooks <- MCHooks
  Pipe = NoParam
  FilterParams = {}
  RefreshHook = NoParam
  RefreshValHook = NoParam
  ClrscrHook = NoParam
  HostNameLeaf = NoParam
  MAX_OPTION_SIZE = 4
  LeafValid <- MCLeafValid
  DEF_CLI_HDR <- MCHdr
  MAX_COMMAND_LENGTH = 40
  LEAF_VALUE_HOLDER_SIZE = 2
  MAX_STACK_SIZE = 32
INVARIANTS
  TypeOK
  StacksInStep
  NegateIffNo
  ModeIsOne
  LineMatchesStack
  MatchListIsExact
  AssertsHold
  HistoryIsCommand
PROPERTIES
  CommandKeepsMode
  CallsWhatIsShown
CHECK_DEADLOCK FALSE
