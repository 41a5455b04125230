SPECIFICATION Spec
CONSTANTS
    p1 = p1  p2 = p2  p3 = p3
    Peer <- MCPeer
    OldPeer <- MCOldPeer
    Threshold = 2
    Enforced = TRUE
    MaxSeen = 1
    MaxEvents = 1
PROPERTY
    SyncTimesOut
CHECK_DEADLOCK FALSE
