SPECIFICATION Spec
CONSTANTS
    p1 = p1  p2 = p2  p3 = p3
    Peer = {p1}
    Silent = {}
    Preferred = {p1}
    FirstTip = 5
    Recent = 4
    Limit = 3
    MaxEvents = 1
PROPERTIES
    CatchesUpAlways
CHECK_DEADLOCK FALSE
