\* The pure calculations on all small inputs: three-bit floats, two-line texts, JSON of nesting two.
CONSTANTS
    None = None
    Raise = Raise
    Refuse = Refuse
    Contexts <- MCContexts
    AutoJunkLength = 4
    AutoJunkShare = 4
    Characters <- MCCharacters
    NotInteger = NotInteger
    HooksLoaded = TRUE
    SameProcessor = TRUE
    Scale <- MCScale
    MaxCalls = 2
    DoubleBits = 6
    DoubleMaxExp = 13
    TooDeep = TooDeep
    MaxJsonDepth = 2
    LimbBits = 7
    PowDigits = 2
    PowFives = 3
    Precision = 3
    MaxExp = 3
    MinExp <- MCMinExp
    QuotientBits = 6
    MaxSignificant = 6
    MaxMagnitude = 2
    MinMagnitude <- MCMinMagnitude
    MaxExpDigits = 1
    MaxAbsExp = 11
    ReprDigits = 2
    ReprLow <- MCReprLow
    ReprHigh = 1
SPECIFICATION Spec
CHECK_DEADLOCK FALSE
INVARIANTS
    BlocksAreSound
    DiffIsRight
    CacheIsPythonDict
    PerfectMeansAlike
    HookOncePerPair
    
    FloatsAreExact
    JsonIsPython
