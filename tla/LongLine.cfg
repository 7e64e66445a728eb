SPECIFICATION Spec
CONSTANTS
  Letter = {"a"}
  Prompt <- MCPrompt
  MAX_COMMAND_LENGTH = 8
  COLS = 3
  ROWS = 8
INVARIANT PositionBehindPrompt
CHECK_DEADLOCK FALSE
