SPECIFICATION FairSpec
CONSTANTS
    PeerTask = {p1, p2}
    OtherTask = {x}
INVARIANTS TypeOK OnlySetupAcksDeadlock
PROPERTIES HandlersEnd
CHECK_DEADLOCK FALSE
