CONSTANTS
    Resumes = {r1}
    Jobs = {j1, j2}
    Workers = {w1, w2}
    Requesters = {q1, q2}
    NoJob = NoJob
    NoResume = NoResume
    MaxTries = 1
    MaxAsked = 2
    MaxCrashes = 1
    MaxDuplicates = 1
    SlowWorkers = FALSE
    Stoppable = FALSE
    SendMayFail = TRUE
    Uploads = TRUE
SPECIFICATION Spec
CHECK_DEADLOCK FALSE
SYMMETRY Symmetry
INVARIANTS OneActiveJobPerResume ExclusiveClaim
PROPERTIES EvaluationByRunningClaim RecoveryKeepsResult StrandedOnlyByLoss LifecycleSpec
