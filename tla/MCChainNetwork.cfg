SPECIFICATION Spec
CONSTANTS
    g = g
    a1 = a1
    a2 = a2
    b1 = b1
    b2 = b2
    b3 = b3
    Blocks = {g, a1, b1, b2, b3}
    Genesis = g
    None = None
    Parent <- MCParent
    Work <- MCWork
    BadContext = {}
    Invalid = {b2}
    Contested = {}
    Checkpointed = {}
    AddressOrders <- MCAddressOrders
    HeadersFirst = TRUE
    Operations = {}
    MaxCalls = 0
    MaxDisconnect = 1
    MaxRestarts = 1
INVARIANTS
    LinksExact
    ActiveChainChecked
    BestChainActive
    RestartPossible
PROPERTY ActivationEnds
