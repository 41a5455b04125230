SPECIFICATION Spec
CONSTANTS
    g = g
    a1 = a1
    a2 = a2
    b1 = b1
    b2 = b2
    b3 = b3
    Blocks = {g, a1, a2, b1, b2}
    Genesis = g
    None = None
    Parent <- MCForkParent
    Work <- MCForkWork
    BadContext = {}
    Invalid = {}
    Contested = {}
    Checkpointed = {}
    AddressOrders <- MCAddressOrders
    HeadersFirst = FALSE
    Operations = {"invalidate", "reconsider"}
    MaxCalls = 2
    MaxDisconnect = 1
    MaxRestarts = 0
INVARIANT FailuresHaveCause
CHECK_DEADLOCK FALSE
