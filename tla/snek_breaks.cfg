SPECIFICATION Spec
CONSTANTS
    Node = {1, 2, 3}
    Link <- Triangle
    Port <- Ports
    MaxSeq = 0
    Ids = {1, 2}
    Breakable <- Triangle
    Ageing = {}
    Prompt = FALSE
    Calm = TRUE
    None = None
INVARIANTS  AscendingIsInstalled
ACTION_CONSTRAINT TreeFirst
CHECK_DEADLOCK FALSE
