SPECIFICATION FairSpec
CONSTANTS
    BatchSize = 1
    QueueCapacity = 1
    MaxRetries = 0
    MaxEvents = 1
    Flushers = {f1, f2}
    Cancellers = {}
    f1 = f1
    f2 = f2
PROPERTIES
    FlushReturns
CHECK_DEADLOCK FALSE
