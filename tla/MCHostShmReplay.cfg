CONSTANTS
    r1 = r1
    r2 = r2
    Rank = {r1, r2}
    Algos = {"oneshot", "twoshot"}
    Modes = {"replay"}
    MaxCalls = 5
    MaxLag = 2
    GenMod = 16
    CheckEvery = 2
SPECIFICATION NoticeSpec
SYMMETRY RankSymmetry
INVARIANT HostNoticesInTime
CHECK_DEADLOCK FALSE
