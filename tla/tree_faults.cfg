SPECIFICATION FairSpec
CONSTANTS
    Node = {1, 2}
    Link <- Pair
    Breakable <- Pair
    Ageing = {1}
    MaxSeq = 1
    MaxTasks = 1
    Prompt = FALSE
    Calm = FALSE
    None = None
INVARIANTS TypeOK UnfitParentIsReconsidered SequenceIsIssued
PROPERTIES   LostParentIsLeft
CHECK_DEADLOCK FALSE
