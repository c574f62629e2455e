SPECIFICATION FairSpec
CONSTANTS
    Logs = {a, b}
    Spans = {s}
    Metrics = {m}
    Poison = {b}
    MaxInits = 2
    a = a
    b = b
    s = s
    m = m
INVARIANTS
    Ledger
    NativeKept
PROPERTIES
    Drains
CHECK_DEADLOCK FALSE
