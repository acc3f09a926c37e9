\* Two processes write one results file; failures, kills and power losses.
CONSTANTS
    Processes = {p1, p2}
    Writer = "results"
    Hot = FALSE
    PowerFails = TRUE
    Old = Old
    Nothing = Nothing
SPECIFICATION OutputSpec
INVARIANTS
    NeverPartial
