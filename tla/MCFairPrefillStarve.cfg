CONSTANTS
    N = 4
    Prompts = {1, 4}
    Hits = {0}
    MaxOutput = 6
    Prios = {0}
    MaxTokens = 6
    MaxSeqs = 4
    Capacity = 40
    Chunk = 3
    Partials = 2
    Lookahead = 0
    PPSizes = {1}
SPECIFICATION Spec
INVARIANTS
    BypassNeverStarvesDecodes
CHECK_DEADLOCK FALSE
