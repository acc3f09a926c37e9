\* Unique names that are not mangled: every property of the match state and of the final pass.
CONSTANTS
    m1 = m1
    m2 = m2
    d1 = d1
    d2 = d2
    Main <- MCMain
    Diff <- MCDiff
    Name <- MCName
    Mangled <- MCName
    PairKey <- MCPairKey
    SubNames <- MCSubNames
    NullSubs = {}
    SameAddress <- MCSameAddress
    Equal <- MCEqual
    Tables <- MCTables
    MaxItems = 4
SPECIFICATION Spec
CHECK_DEADLOCK FALSE
INVARIANTS
    EntriesBacked
    CleanupIdempotent
    OneToOne
    ChosenAreBest
    DroppedForAReason
PROPERTIES
    MainStaysMatched
