SPECIFICATION Spec
CONSTANTS
    g = g
    a1 = a1
    a2 = a2
    b1 = b1
    b2 = b2
    b3 = b3
    Blocks = {g, a1, a2, b1, b2}
    Genesis = g
    None = None
    Parent <- MCParent
    Work <- MCWork
    BadContext = {}
    Invalid = {a2}
    Contested = {b1}
    Checkpointed = {}
    AddressOrders <- MCAddressOrders
    HeadersFirst = FALSE
    Operations = {}
    MaxCalls = 0
    MaxDisconnect = 1
    MaxRestarts = 0
INVARIANT BestChainActive
