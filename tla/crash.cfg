SPECIFICATION Spec
CONSTANTS
    MaxCycles = 2
    MaxCrashes = 1
    Batches <- SomeBatches
    LineageMax = 7
    TornWrites = FALSE
    LLMMayFail = TRUE
    ReviewDirPerRun = FALSE
INVARIANTS
    RollbackMatchesDrift
PROPERTIES
    CeilingHonoured
    PromotingFinishes
\* The cycle bound stops the system.
CHECK_DEADLOCK FALSE
