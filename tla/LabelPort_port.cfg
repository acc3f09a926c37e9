\* Ports in chains of three, with changed labels, kept labels and results files of another pair.
CONSTANTS
    b1 = b1
    b2 = b2
    b3 = b3
    f1 = f1
    f2 = f2
    f3 = f3
    o1 = o1
    o2 = o2
    a = a
    b = b
    c = c
    m = m
    Exports = {b1, b2, b3}
    Outputs = {o1, o2}
    Functions = {f1, f2, f3}
    RealNames = {a, b, c, m}
    Placeholder = Placeholder
    Null = Null
    Table <- MCTable
    Diffs <- MCDiffs
    Jobs <- MCJobs
    UserNames = {b}
    Settings <- MCSettings
    One = 2
    MaxPorts = 3
    MaxEdits = 1
    NoRow = NoRow
    NoOrigin = NoOrigin
    Missing = Missing
SPECIFICATION Spec
CHECK_DEADLOCK FALSE
INVARIANTS
    HistoryIsTrue
PROPERTIES
    AppliedNamesAreUnique
    RealNamesSurvive
