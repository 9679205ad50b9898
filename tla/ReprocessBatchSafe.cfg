CONSTANTS
    N = 2
    PageSize = 1
    Batches = {b1}
    MaxJobs = 1
    Coordinators = {c1, c2}
    Workers = {w1}
    NoBatch = NoBatch
    NoJob = NoJob
    Steps = 1
    StallTimeout = 1
    PollPeriod = 1
    PageMayClose = FALSE
    MaxCrashes = 0
    CrashAnywhere = FALSE
    MaxRetries = 0
    MaxOutside = 1
    MaxLate = 1
    MaxOvertakes = 0
    MaxFaults = 1
    Stoppable = TRUE
    CallsMayFail = TRUE
SPECIFICATION Spec
CHECK_DEADLOCK FALSE
SYMMETRY Symmetry
INVARIANTS TypeOK
PROPERTIES StoppedStaysStopped CompletedReachesTarget
