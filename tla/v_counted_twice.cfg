SPECIFICATION Spec
CONSTANTS
    MaxCycles = 1
    MaxCrashes = 1
    Batches <- SomeBatches
    LineageMax = 7
    TornWrites = FALSE
    LLMMayFail = FALSE
    ReviewDirPerRun = FALSE
INVARIANTS
    CumulativeMatchesReports
\* The cycle bound stops the system.
CHECK_DEADLOCK FALSE
