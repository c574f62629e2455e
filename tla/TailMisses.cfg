SPECIFICATION Spec
CONSTANTS
    Limit = 2
    Since = 1
    MaxRows = 3
    MaxTime = 3
    MaxWire = 4
INVARIANTS
    CursorPromise
CHECK_DEADLOCK FALSE
