SPECIFICATION SharedSpec
CONSTANTS
    \* HumanReview
    Patch = {p1, p2}
    Copies = 1
    Reviewers = {r1, r2}
    MaxCalls = 3
    MaxUpsets = 1
    MayFail = {"reviewer", "runner"}
    \* OpenClawQueue
    Requests <- MixedRequests
    MaxCycles = 2
    MaxCrashes = 1
    AuditMayFail = TRUE
    RenameMayFail = TRUE
    \* RepoSplit
    Calls = {c1, c2}
    RawPlan <- SmallPlan
    ReportFiles <- Reports
    PlanInputs <- SomePlans
    PreviewInputs <- SomePreviews
    ConfirmInputs <- SomeConfirms
    ExecuteInputs <- SomeExecutions
    Ttl = 1
    MaxClock = 1
    MaxConfirmations = 1
    MaxPreviews = 1
    MaxRestarts = 1
    None = None
SYMMETRY Symmetry
INVARIANTS
    
    RecordTrue
    PromotedByApproval
    NoFalseBypass
    TestedOnce
    NothingLost
    CleanRunIsComplete
    FilteredBeforeTarget
\* Every component is bounded, and a crash in TESTING stops the runner.
CHECK_DEADLOCK FALSE
