SPECIFICATION Spec
CONSTANTS
    n1 = n1  n2 = n2  m1 = m1  m2 = m2  p1 = p1  p2 = p2
    None = None
    Node = {n1, n2}
    Masternode = {m1, m2}
    Self <- MCSelf
    Payee = {p1, p2}
    MaxLevel = 2
    LevelOf <- MCLevelOf
    PayeesAt <- MCPayeesAt
    Payment <- MCPayment
    Ranked <- MCRanked
    Total = 2
    Required = 2
    Ahead = 1
    Keep = 2
    HashOrder <- MCHashOrder
    Outdated <- MCOutdated
    MaxTip = 4
    MaxVoted = 2
    MaxSent = 3
    MaxRestarts = 1
CHECK_DEADLOCK FALSE
INVARIANT
    RefusedHasVoted
