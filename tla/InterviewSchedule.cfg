CONSTANTS
    Callers = {q1, q2}
    Consumers = {c1, c2}
    NoJob = NoJob
    BatchSize = 1
    MaxAttempts = 2
    MaxRetries = 0
    MaxCrashes = 1
    MaxDuplicates = 1
    Slots = {t1, t2}
    MaxEvents = 2
    NoEvent = NoEvent
    Offered = {"schedule", "reschedule", "cancel", "result", "direct", "offline", "card", "start"}
    MaxAsked = 2
    MaxLost = 1
SPECIFICATION Spec
CHECK_DEADLOCK FALSE
SYMMETRY Symmetry
INVARIANTS TypeOK OneLiveEvent RescheduleAgrees CancelledIsEmpty
PROPERTIES QueueRefined CancelledStays
