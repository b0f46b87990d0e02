CONSTANTS
    N = 3
    MaxAttempts = 3
    MaxDeaths = 1
SPECIFICATION Spec
INVARIANTS
    TypeOK
    EnabledTogether
    EnabledIsComplete
    RegisterOneAtATime
    NothingLeftBehind
PROPERTY EveryoneFinishes
CHECK_DEADLOCK FALSE
