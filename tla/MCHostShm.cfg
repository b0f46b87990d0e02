CONSTANTS
    r1 = r1
    r2 = r2
    Rank = {r1, r2}
    Algos = {"oneshot", "twoshot", "dma"}
    Modes = {"eager"}
    MaxCalls = 4
    MaxLag = 1
    GenMod = 16
    CheckEvery = 2
SPECIFICATION FairSpec
INVARIANTS
    TypeOK
    WrongSumIsReported
    SkewAtMostOne
    PolledFlagNotOverrun
    IInv
PROPERTIES
    ImplementsAllReduce
    EveryCallCompletes
CHECK_DEADLOCK FALSE
