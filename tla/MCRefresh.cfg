SPECIFICATION Spec
CONSTANTS
    Commands <- AnyCommand
    Lines = 2
    MaxSignals = 3
PROPERTIES
    NoRunAfterCtrlC
    CtrlCIsForRefresh
    RefreshUntilCtrlC
CHECK_DEADLOCK FALSE
