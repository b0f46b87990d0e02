CONSTANTS
    N = 3
    Prompts = {1, 3, 8}
    Hits = {0, 2}
    MaxOutput = 2
    Prios = {0, 1}
    MaxTokens = 5
    MaxSeqs = 3
    Capacity = 10
    Chunk = 3
    Partials = 2
    Lookahead = 2
    PPSizes = {1, 2}
SPECIFICATION FairSpec
INVARIANTS
    FairInv
    BudgetBalances
    DecodesRideAlong
    LongPrefillsShareTheChunk
    EveryDecodeGetsItsTurn
PROPERTY Served
CHECK_DEADLOCK FALSE
