CONSTANTS
    Jobs = {j1, j2}
    Callers = {q1, q2}
    Consumers = {c1, c2}
    NoJob = NoJob
    BatchSize = 2
    MaxAttempts = 2
    MaxRetries = 0
    MaxCrashes = 2
    MaxDuplicates = 2
SPECIFICATION QueueSpec
INVARIANTS OneRunner
PROPERTIES LifecycleSpec WaitingIsServed RunningEnds
CHECK_DEADLOCK FALSE
