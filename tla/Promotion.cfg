SPECIFICATION Spec
CONSTANTS
    None = None
    Ids = {"a"}
INVARIANT PromotedInColumns
CHECK_DEADLOCK FALSE
