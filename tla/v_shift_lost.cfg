SPECIFICATION Spec
CONSTANTS
    \* Measures
    Null = Null
    MaxHistory = 8
    MinRuns = 5
    MaxMeasuredNights = 2
    SavedValues = {0, 1}
    Snapshots = {500, 860, 920}
    CandidateLists <- MCCandidates
    InitialHistories <- MCHistories
    InitialLedgers <- MCLedgers
    \* SkillMemory
    NoEnvironment = NoEnvironment
    Environments = {"HOSTILE", "NORMAL"}
    SkillBatches <- MCSkillBatches
    Decay <- MCDecay
    TreeMaxNodes = 3
    TreeEntries = 5
    HintEntries = 3
    MaxHints = 2
    MaxHot = 1
    ExpiredMax = 1
    MaxEntries = 6
    MaxDay = 3
    \* Dispatch
    None = None
    Requests <- MCRequests
    Rejections <- MCRejections
    MaxPrecedents = 2
    Prohibitions = 1
    Reviews <- MCReviews
    ReviewTimes = {0}
    MaxRequests = 2
    MaxWatches = 2
    \* Streak
    Unknown = Unknown
    WeekInputs <- MCWeekInputs
    MaxWeeks = 4
    MaxUnsound = 1
    MaxEvaluated = 5
    \* Proposals
    NoFile = NoFile
    NoProfile = NoProfile
    Unavailable = Unavailable
    Codes = {"F-001", "F-004", "F-007"}
    GraveCodes = {"F-001"}
    MaxConstraints = 1
    Window = 2
    MaxSeeds = 2
    Observations <- MCObservations
    Replies <- MCReplies
    Worlds <- MCWorlds
    Hidden = {"dependencies"}
    MaxCycles = 3
    MaxFailures = 1
    \* Caretaker
    Modes <- MCModes
    OldRuns <- MCOldRuns
    OldPulls <- MCOldPulls
    Elsewhere <- MCElsewhere
    GovernanceStale = TRUE
    JobResults <- MCJobResults
    Trunk = main
    MaxNights = 2
    MaxGitFailures = 2
    MaxKills = 1
    \* ComparisonGate
    Tables <- MCTables
    Profiles <- MCProfiles
    NoTable = NoTable
    NoResult = NoResult
    MaxGateRuns = 3
    \* OpenClawLearning
    g1 = g1
    g2 = g2
    Gateways = {g1, g2}
    NoReason = NoReason
    Torn = Torn
    Asks <- MCAsks
    Stops <- MCStops
    Environs = {"STABLE"}
    HintQualities = {1000}
    Mornings <- MCMornings
    MaxAttempts = 2
    MaxRewards = 2
    MaxUpsets = 1
    \* PrSubmitter
    s1 = s1
    s2 = s2
    s3 = s3
    Skills = {s1, s2, s3}
    Batches <- MCBatches
    Main = main
    Detached = Detached
    MaxRuns = 3
    MaxCrashes = 1
    CanConflict = TRUE
INVARIANT ShiftsAreTold
\* Every tool is bounded.
CHECK_DEADLOCK FALSE
