SPECIFICATION UtSpec
CONSTANTS
    Texts <- MCTexts
    Matches <- MCMatches
    BadRegex = {}
    Chains <- MCChains
    FileNames = {"log"}
    NULL = NULL
    MaxLines = 2
    CUM_BUFFER_MAX_SIZE = 2
    ScriptKinds = {"show", "config"}
    ConfigPrints = FALSE
    MaxResults = 1
    MaxCrashes = 1
INVARIANTS
    QueueIsDrained
PROPERTIES
    ReceivesOwnOutput
    ShellOutputIsShown
