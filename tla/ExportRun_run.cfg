\* One export with a signal, a timeout and an input that is edited and changed back.
CONSTANTS
    Contents = {c1, c2}
    Old = Old
    HasTimeout = TRUE
    MaxSignals = 1
    MaxEdits = 2
SPECIFICATION Spec
CHECK_DEADLOCK FALSE
INVARIANTS
    NothingLeftRunning
    OnlyOwnGroupSignalled
    SuccessIsFaithful
    NoStaleSidecar
PROPERTIES
    BackstopEnds
