\* Kills, failing writes and power losses on a file system that syncs directories.
CONSTANTS
    Checkpoints = {c1, c2}
    MaxGeneration = 2
    DirectorySyncs = TRUE
    Absent = Absent
    Torn = Torn
SPECIFICATION Spec
INVARIANTS
    ManifestVouches
    SweepIsSafe
PROPERTIES
    ProgressKept
    OnlyOwnDirectoryRemoved
    ImplementsCell
