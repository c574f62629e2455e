SPECIFICATION FairSpec
CONSTANTS
    Rpcs = {u1, s1, s2}
    Streams = {s1, s2}
    MaxBatches = 2
    MaxRows = 1
    u1 = u1
    s1 = s1
    s2 = s2
INVARIANTS
    AcceptedLanded
    OneCall
    Totals
    StreamInOrder
PROPERTIES
    CallEnds
CHECK_DEADLOCK FALSE
