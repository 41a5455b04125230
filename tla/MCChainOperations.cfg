SPECIFICATION Spec
CONSTANTS
    g = g
    a1 = a1
    a2 = a2
    b1 = b1
    b2 = b2
    b3 = b3
    Blocks = {g, a1, a2, b1, b2}
    Genesis = g
    None = None
    Parent <- MCParent
    Work <- MCWork
    BadContext = {a2}
    Invalid = {}
    Contested = {b1}
    Checkpointed = {a1}
    AddressOrders <- MCOneOrder
    HeadersFirst = FALSE
    Operations = {"invalidate", "reconsider", "reprocess"}
    MaxCalls = 1
    MaxDisconnect = 2
    MaxRestarts = 1
INVARIANTS
    CandidatesGoodEnough
    DiskConsistent
CHECK_DEADLOCK FALSE
