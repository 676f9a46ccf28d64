SPECIFICATION Spec
CONSTANTS
    MaxCycles = 2
    MaxCrashes = 0
    Batches <- PromotableBatches
    LineageMax = 2
    TornWrites = FALSE
    LLMMayFail = FALSE
    ReviewDirPerRun = FALSE
INVARIANTS
    PromotedHasPr
\* The cycle bound stops the system.
CHECK_DEADLOCK FALSE
