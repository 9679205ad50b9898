CONSTANTS
    Callers = {q1, q2}
    Consumers = {c1, c2}
    NoJob = NoJob
    BatchSize = 1
    MaxAttempts = 2
    MaxRetries = 0
    MaxCrashes = 1
    MaxDuplicates = 1
    MaxRows = 2
    Setups <- MCSetups
    Offered = {"approve", "approveAll", "result", "advance", "evaluate", "talent", "cancel", "delete"}
    Unchecked = {"passed"}
    MaxAsked = 3
    MaxFaults = 1
SPECIFICATION Spec
CHECK_DEADLOCK FALSE
INVARIANTS TypeOK OneVerdict OfferAfterTwoPasses
PROPERTIES PassGetsInterview
