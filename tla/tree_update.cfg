SPECIFICATION Spec
CONSTANTS
    Node = {1, 2}
    Link <- Pair
    Breakable = {}
    Ageing = {}
    MaxSeq = 1
    MaxTasks = 1
    Prompt = TRUE
    Calm = TRUE
    None = None
PROPERTY NewerFromParentIsAccepted
CHECK_DEADLOCK FALSE
