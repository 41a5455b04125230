SPECIFICATION Spec
CONSTANTS
    g = g
    a1 = a1
    a2 = a2
    b1 = b1
    b2 = b2
    b3 = b3
    Blocks = {g, a1, a2, b1, b2}
    Genesis = g
    None = None
    Parent <- MCForkParent
    Work <- MCForkWork
    BadContext = {}
    Invalid = {b2}
    Contested = {}
    Checkpointed = {}
    AddressOrders <- MCAddressOrders
    HeadersFirst = TRUE
    Operations = {"invalidate"}
    MaxCalls = 2
    MaxDisconnect = 1
    MaxRestarts = 0
INVARIANTS
    CandidatesComplete
    FailuresHaveCause
CHECK_DEADLOCK FALSE
