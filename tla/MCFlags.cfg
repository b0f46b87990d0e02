CONSTANTS
    R = 2
    Sizes <- MCSizes
    MaxBlocks = 2
    LbMax = 2
    MaxCalls = 4
SPECIFICATION MCSpec
INVARIANTS
    FlagsInv
    ReturnedIsExact
    BlamedPeerIsLate
PROPERTIES
    PushLandsOnSentinel
    ImplementsAllReduce
    EveryCallCompletes
CHECK_DEADLOCK FALSE
