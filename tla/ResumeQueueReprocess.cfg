CONSTANTS
    Resumes = {r1}
    Jobs = {j1, j2}
    Workers = {w1, w2}
    Requesters = {q1, q2}
    NoJob = NoJob
    NoResume = NoResume
    MaxTries = 2
    MaxAsked = 4
    MaxCrashes = 0
    MaxDuplicates = 0
    SlowWorkers = FALSE
    Stoppable = FALSE
    SendMayFail = FALSE
    Uploads = FALSE
SPECIFICATION Spec
CHECK_DEADLOCK FALSE
SYMMETRY Symmetry
INVARIANTS NoPhantomProgress
PROPERTIES CompletedHasResult
