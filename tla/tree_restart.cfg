SPECIFICATION RestartSpec
CONSTANTS
    Node = {1, 2, 3}
    Link <- Line
    Breakable = {}
    Ageing = {}
    MaxSeq = 2
    MaxTasks = 1
    Prompt = TRUE
    Calm = TRUE
    None = None
    Crashing = {3}
INVARIANTS CaughtUpAtRest OneRootAtRest
PROPERTY Converges
CHECK_DEADLOCK FALSE
