SPECIFICATION FairSpec
CONSTANTS
    MaxRetries = 1
    Rows = 1
    MaxShipped = 2
PROPERTIES
    FailedInsertRetried
CHECK_DEADLOCK FALSE
