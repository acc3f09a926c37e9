SPECIFICATION Spec
CONSTANTS
    Codes <- MCCodes
    NullCode = NullCode
    NoTarget = NoTarget
    Unknown = Unknown
    Outside = Outside
    NoBlock = NoBlock
    CfgDecodeWindowBytes = 3
    CfgMaxRangeBytes = 5
    CfgMaxBlocks = 4
    CfgMaxInstructions = 4
    Int32Max = 7
CHECK_DEADLOCK FALSE
INVARIANTS
    GraphIsExact
    ComponentsAreExact
PROPERTIES
    ScanEnds
