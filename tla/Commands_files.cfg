\* All commands over paths that are files of each other; one failing step or a kill in each.
CONSTANTS
    CommandLines <- MCCommandLines
    Pieces <- MCPieces
    Dotted <- MCDotted
    MaxFaults = 1
    None = None
SPECIFICATION Spec
CHECK_DEADLOCK FALSE
INVARIANTS
    FilesApart
    NoForeignWal
    FailureKeepsOutput
    NothingLeftBehind
