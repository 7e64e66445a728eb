SPECIFICATION Spec
CONSTANTS
  Letter = {"a", "b"}
  Prompt <- MCPrompt
  MAX_COMMAND_LENGTH = 6
  COLS = 6
  ROWS = 3
INVARIANTS
  ScreenShowsLine
  BufferIsWhole
PROPERTIES
  EditsAsKeyed
  KeysKeepSync
CHECK_DEADLOCK FALSE
