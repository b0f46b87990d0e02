CONSTANTS
    W = 2
    Kinds = {"ring"}
    MaxCalls = 2
    MaxTimeouts = 1
SPECIFICATION Spec
INVARIANTS
    ShownIsExact
CHECK_DEADLOCK FALSE
