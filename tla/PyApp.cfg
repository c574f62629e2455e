SPECIFICATION Spec
CONSTANTS
    None = None
    Https = {"https"}
    Endpoints = {"https", "http"}
    Sizes = {None, 0, 9000}
    Capacities = {None}
    Tls = {None}
    Keys = {"trace_id", "span_id", "order_id"}
    Strings = {"a"}
    LogLevels = {"error"}
    SpanIds = {"s1"}
    MaxInits = 2
    MaxObjects = 3
    MaxHandlers = 1
INVARIANTS
    Inherited
    SpanFamily
    EngineConfigured
CHECK_DEADLOCK FALSE
