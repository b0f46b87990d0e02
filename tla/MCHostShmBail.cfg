CONSTANTS
    r1 = r1
    r2 = r2
    Rank = {r1, r2}
    Algos = {"oneshot", "twoshot"}
    Modes = {"eager"}
    MaxCalls = 2
    MaxLag = 1
    GenMod = 16
    CheckEvery = 2
SPECIFICATION Spec
SYMMETRY RankSymmetry
INVARIANT TimeoutLeavesOutUntouched
CHECK_DEADLOCK FALSE
