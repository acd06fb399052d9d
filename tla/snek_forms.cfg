SPECIFICATION FairSpec
CONSTANTS
    Node = {1, 2, 3}
    Link <- Star
    Port <- Ports
    MaxSeq = 1
    Ids = {1, 2}
    Breakable = {}
    Ageing = {}
    Prompt = TRUE
    Calm = TRUE
    None = None
PROPERTY SnakeForms
CHECK_DEADLOCK FALSE
