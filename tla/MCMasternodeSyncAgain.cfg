SPECIFICATION SpecAnswered
CONSTANTS
    p1 = p1  p2 = p2  p3 = p3
    Peer <- MCPeer
    OldPeer <- MCOldPeer
    Threshold = 2
    Enforced = TRUE
    MaxSeen = 2
    MaxEvents = 1
PROPERTY
    ResyncFinishes
CHECK_DEADLOCK FALSE
