SPECIFICATION Spec
CONSTANTS
    Commands <- WithInterval
    Lines = 2
    MaxSignals = 3
PROPERTIES
    CtrlCIsHandled
CHECK_DEADLOCK FALSE
