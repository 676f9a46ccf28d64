SPECIFICATION QueueSpec
CONSTANTS
    Requests <- MixedRequests
    MaxCycles = 2
    MaxCrashes = 0
    AuditMayFail = FALSE
    RenameMayFail = FALSE
INVARIANT EnqueuedIsJudged
\* The nights are bounded.
CHECK_DEADLOCK FALSE
