SPECIFICATION Spec
CONSTANTS
    MaxCycles = 2
    MaxCrashes = 0
    Batches <- PromotableBatches
    LineageMax = 2
    TornWrites = FALSE
    LLMMayFail = FALSE
    ReviewDirPerRun = TRUE
INVARIANTS
    ApprovalPromoted
\* The cycle bound stops the system.
CHECK_DEADLOCK FALSE
