SPECIFICATION FairSpec
CONSTANTS
    BatchSize = 2
    QueueCapacity = 2
    MaxRetries = 1
    MaxEvents = 3
    Flushers = {f1}
    Cancellers = {f1}
    f1 = f1
INVARIANTS
    TypeOK
    Ledger
    RetryBudget
    HeadOfLine
    OversizeOnlyWhenDisconnected
    NoLostWakeup
PROPERTIES
    FlushCoverage
    FlushReturns
    AcceptedSettles
    ChannelFairSpec
CHECK_DEADLOCK FALSE
