CONSTANTS
    Resumes = {r1}
    Jobs = {j1, j2}
    Workers = {w1, w2}
    Requesters = {q1}
    NoJob = NoJob
    NoResume = NoResume
    MaxTries = 1
    MaxAsked = 2
    MaxCrashes = 1
    MaxDuplicates = 0
    SlowWorkers = FALSE
    Stoppable = TRUE
    SendMayFail = TRUE
    Uploads = TRUE
SPECIFICATION Spec
CHECK_DEADLOCK FALSE
INVARIANTS TypeOK
PROPERTIES RunningEnds QueuedIsServed
