SPECIFICATION Spec
CONSTANTS
    MaxCycles = 2
    MaxCrashes = 2
    Batches <- SomeBatches
    LineageMax = 7
    TornWrites = TRUE
    LLMMayFail = FALSE
    ReviewDirPerRun = FALSE
INVARIANTS
    TypeOK
    CheckpointBacksState
    OnePrPerPatch
    RejectionsCountedOnce
    PromotionJustified
PROPERTIES
    ImplementsCycleLedger
\* The cycle bound stops the system.
CHECK_DEADLOCK FALSE
