SPECIFICATION Spec
CONSTANTS
    Keys = {"traceId", "agentId", "orderId"}
    Values = {"a", "b"}
    LogLevels = {"warn"}
    SpanIds = {"s1", "s2"}
    Requests = {"r1", "r2"}
    MaxObjects = 4
    MaxBuffered = 1
INVARIANTS
    Carried
    SpanIdCarried
    TraceUnlessOverlapped
CHECK_DEADLOCK FALSE
