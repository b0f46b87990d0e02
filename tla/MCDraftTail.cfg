CONSTANTS
    Pipelines <- MCPipelines
    NSlots = 2
    MaxSteps = 5
    MaxEvents = 1
SPECIFICATION FairSpec
INVARIANTS
    DraftInv
    DraftsAreNewest
    NoStrayDrafts
    AgedHaveLanded
PROPERTY EveryStepFinishes
CHECK_DEADLOCK FALSE
