CONSTANTS
    N = 4
    Prompts = {3, 6}
    BlockSize = 2
    NBlocks = 12
    Chunk = 3
    InFlight = 2
    MaxFails = 1
    MaxAborts = 0
SPECIFICATION Spec
INVARIANT NeverServedFromThem
CHECK_DEADLOCK FALSE
