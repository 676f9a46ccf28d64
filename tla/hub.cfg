SPECIFICATION Spec
CONSTANTS
    Boot = boot
    Quarantines = {q1, q2}
    Generations = {g1}
    Edits = {}
    Ticks <- OneTick
    RecordEvery = 1
    StallLimit = 1
    PageLimit = 2
    Watched = {q1}
    Failing = {q1}
INVARIANTS
    LogIsChained
    WatchdogNeverFires
    ReadersMissNothing
\* Requests, edits and ticks are bounded.
CHECK_DEADLOCK FALSE
