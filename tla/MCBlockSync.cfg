SPECIFICATION Spec
CONSTANTS
    p1 = p1  p2 = p2  p3 = p3
    Peer = {p1, p2, p3}
    Silent = {p3}
    Preferred = {p1, p2, p3}
    FirstTip = 5
    Recent = 4
    Limit = 3
    MaxEvents = 1
INVARIANTS
    TypeOK
PROPERTIES
    CatchesUp
CHECK_DEADLOCK FALSE
