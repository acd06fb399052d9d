SPECIFICATION Spec
CONSTANTS
    Node = {1, 2, 3}
    Link <- Star
    Port <- Ports
    MaxSeq = 1
    Ids = {1, 2}
    Breakable = {}
    Ageing = {1}
    Prompt = FALSE
    Calm = TRUE
    None = None
INVARIANTS
    AscendingIsInstalled
    
    SnakeIsOrdered
    TrafficArrives
CHECK_DEADLOCK FALSE
