SPECIFICATION MeasuresSpec
CONSTANTS
    Null = Null
    MaxHistory = 8
    MinRuns = 5
    MaxMeasuredNights = 2
    SavedValues = {0, 1}
    Snapshots = {500, 860, 920}
    CandidateLists <- MCCandidates
    InitialHistories <- MCHistories
    InitialLedgers <- MCLedgers
INVARIANT EnvInvalidRejected
\* The nights are bounded.
CHECK_DEADLOCK FALSE
