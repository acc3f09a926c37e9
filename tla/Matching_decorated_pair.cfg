\* Unique names, one of them demangled: the final pass may have an address pair twice.
CONSTANTS
    m1 = m1
    m2 = m2
    d1 = d1
    d2 = d2
    Main <- MCMain
    Diff <- MCDiff
    Name <- MCName
    Mangled <- MCDecorated
    PairKey <- MCPairKey
    SubNames <- MCSubNames
    NullSubs = {}
    SameAddress <- MCSameAddress
    Equal <- MCEqual
    Tables <- MCTables
    MaxItems = 3
SPECIFICATION Spec
CHECK_DEADLOCK FALSE
INVARIANTS
    PairOnce
