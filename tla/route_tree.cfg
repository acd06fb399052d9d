SPECIFICATION FairSpec
CONSTANTS
    Node = {1, 2, 3, 4}
    Link <- Chord
    Port <- Ports
    MaxSeq = 1
    Calm = TRUE
    None = None
INVARIANT LoopFindsClosest
PROPERTIES EachHopIsCloser Delivered
CHECK_DEADLOCK FALSE
