SPECIFICATION Spec
CONSTANTS
    Texts <- MCTexts
    Matches <- MCMatches
    BadRegex = {"["}
    Chains <- MCSaveCount
    FileNames = {"count"}
    NULL = NULL
    MaxLines = 3
    CUM_BUFFER_MAX_SIZE = 4
INVARIANTS
    OutputIsFiltered
