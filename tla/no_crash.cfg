SPECIFICATION Spec
CONSTANTS
    MaxCycles = 3
    MaxCrashes = 0
    Batches <- PromotableBatches
    LineageMax = 2
    TornWrites = FALSE
    LLMMayFail = FALSE
    ReviewDirPerRun = FALSE
INVARIANTS
    CumulativeMatchesReports
PROPERTIES
    TestedCycleReported
\* The cycle bound stops the system.
CHECK_DEADLOCK FALSE
