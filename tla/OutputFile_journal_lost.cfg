\* A kill between the removal of the sidecars and the rename.
CONSTANTS
    Processes = {p1}
    Writer = "results"
    Hot = TRUE
    PowerFails = FALSE
    Old = Old
    Nothing = Nothing
SPECIFICATION OutputSpec
INVARIANTS
    NeverPartial
