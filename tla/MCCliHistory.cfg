SPECIFICATION Spec
CONSTANTS
    Cell = {c1, c2, c3}
    Main = Main
    NULL = NULL
    Texts <- MCTexts
    Empty = ""
    Commands <- MCCommands
    Runs <- MCRuns
    Exceptional = {"show history"}
    HostName = "config host-name"
    LIMIT = 2
INVARIANTS
    ListIsSound
    BrowsingIsSound
PROPERTIES
    IsHistory
SYMMETRY Symmetry
