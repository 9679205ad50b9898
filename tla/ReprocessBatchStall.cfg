CONSTANTS
    N = 2
    PageSize = 1
    Batches = {b1}
    MaxJobs = 1
    Coordinators = {c1}
    Workers = {w1}
    NoBatch = NoBatch
    NoJob = NoJob
    Steps = 0
    StallTimeout = 2
    PollPeriod = 1
    PageMayClose = FALSE
    MaxCrashes = 1
    CrashAnywhere = FALSE
    MaxRetries = 0
    MaxOutside = 0
    MaxLate = 0
    MaxOvertakes = 0
    MaxFaults = 1
    Stoppable = FALSE
    CallsMayFail = FALSE
SPECIFICATION Spec
CHECK_DEADLOCK FALSE
PROPERTIES AbandonedIsRecovered
