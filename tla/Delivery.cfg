SPECIFICATION FairSpec
CONSTANTS
    MaxRetries = 1
    Rows = 2
    MaxShipped = 2
INVARIANTS
    CopiesBounded
    AcceptedStored
PROPERTIES
    ShipsAll
CHECK_DEADLOCK FALSE
