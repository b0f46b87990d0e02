CONSTANTS
    W = 3
    Kinds = {"ring", "owner"}
    MaxCalls = 3
    MaxTimeouts = 1
SPECIFICATION FairSpec
INVARIANTS
    CeInv
    WrongSumIsReported
    SharedTogether
PROPERTIES
    SlotReadBeforeReuse
    FlagsNeverFall
    ImplementsAllReduce
    EveryCallCompletes
CHECK_DEADLOCK FALSE
