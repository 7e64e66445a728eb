SPECIFICATION Spec
CONSTANTS
    Cell = {c1, c2, c3, c4}
    Main = Main
    NULL = NULL
    Texts <- MCTexts
    Empty = ""
    Commands <- MCCommands
    Runs <- MCRuns
    Exceptional = {"show history"}
    HostName = "config host-name"
    LIMIT = 2
INVARIANTS
    HistoryIsBounded
SYMMETRY Symmetry
