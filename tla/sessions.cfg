SPECIFICATION FairSpec
CONSTANTS
    a = a
    b = b
    Key = {a, b}
    Dialer = {d1, d2}
    Cap = 1
    MaxFrames <- TwoAndOne
    MaxChan = 5
    Long = {2}
    Fragile = {a}
    None = None
INVARIANTS TypeOK LiveSessionIsKnown
PROPERTIES  FramesGetThrough DialsReturn
CHECK_DEADLOCK FALSE
