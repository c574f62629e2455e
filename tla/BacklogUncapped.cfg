SPECIFICATION Spec
CONSTANTS
    BatchSize = 1
    QueueCapacity = 1
    MaxRetries = 0
    MaxEvents = 3
    Flushers = {}
    Cancellers = {}

INVARIANTS
    BacklogCapped
CHECK_DEADLOCK FALSE
