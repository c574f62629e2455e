SPECIFICATION FairSpec
CONSTANTS
    Limit = 2
    Since = 1
    MaxRows = 3
    MaxTime = 4
    MaxWire = 6
INVARIANTS
    StreamLedger
    NoRepeat
    Complete
PROPERTIES
    TailDelivers
    TailEnds
    IteratorReleases
CHECK_DEADLOCK FALSE
