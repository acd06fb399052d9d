SPECIFICATION FairSpec
CONSTANTS
    p = p
    q = q
    c1 = c1
    c2 = c2
    c3 = c3
    u1 = u1
    s1 = s1
    Peer = {p, q}
    Conn = {c1, c2, c3}
    PeerOf <- TwoOfOne
    User = {u1}
    Stopper = {s1}
    Free = Free
    Reserved = Reserved
    None = None
CONSTRAINT OneDisturbance
INVARIANTS TypeOK ConnectedHasPort  ConnectedIsPolled
PROPERTIES HalvesMeet StopEndsPeerings DeadPeeringsLeave
CHECK_DEADLOCK FALSE
