CONSTANTS
    N = 3
    Prompts = {3, 6}
    BlockSize = 2
    NBlocks = 9
    Chunk = 3
    InFlight = 3
    MaxFails = 2
    MaxAborts = 1
SPECIFICATION Spec
INVARIANTS FailedInv SweptNeverServed
PROPERTY InnocentsSpared
CHECK_DEADLOCK FALSE
