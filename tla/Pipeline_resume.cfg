\* Kills, failed saves, power losses, resumes and changed inputs; up to three faults; every run ends.
CONSTANTS
    unusable = unusable
    stripped = stripped
    settled = settled
    growing = growing
    Inputs <- MCInputs
    Usable <- MCUsable
    Skips <- MCSkips
    Totals <- MCTotals
    MaxIteration = 1
    MaxFaults = 3
    NoCheckpoint = NoCheckpoint
    Damaged = Damaged
    NoCursor = NoCursor
    NoOutput = NoOutput
SPECIFICATION Spec
INVARIANTS
    SavedCursorsAccepted
    CheckpointOnPath
PROPERTIES
    SavedStagesNotRepeated
    SameAsUninterrupted
    RunEnds
