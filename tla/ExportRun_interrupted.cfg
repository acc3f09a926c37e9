\* A signal while the export is published.
CONSTANTS
    Contents = {c1}
    Old = Old
    HasTimeout = FALSE
    MaxSignals = 1
    MaxEdits = 0
SPECIFICATION Spec
CHECK_DEADLOCK FALSE
INVARIANTS
    FailedPublishRestores
