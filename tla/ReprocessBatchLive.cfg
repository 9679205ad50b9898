CONSTANTS
    N = 2
    PageSize = 1
    Batches = {b1}
    MaxJobs = 1
    Coordinators = {c1}
    Workers = {w1}
    NoBatch = NoBatch
    NoJob = NoJob
    Steps = 0
    StallTimeout = 2
    PollPeriod = 1
    PageMayClose = TRUE
    MaxCrashes = 1
    CrashAnywhere = TRUE
    MaxRetries = 1
    MaxOutside = 0
    MaxLate = 0
    MaxOvertakes = 1
    MaxFaults = 1
    Stoppable = FALSE
    CallsMayFail = FALSE
SPECIFICATION Spec
CHECK_DEADLOCK FALSE
PROPERTIES BatchEnds CompletedItemIsDone
