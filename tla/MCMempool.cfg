SPECIFICATION Spec
CONSTANTS
    g = g  a = a  b = b  c = c  d = d  e = e  x = x  y = y  s1 = s1  s2 = s2  s3 = s3
    g1 = g1  g2 = g2  a1 = a1  a2 = a2  a3 = a3  b1 = b1  s11 = s11
    p1 = p1  p2 = p2
    Tx <- MCTx
    Reward <- MCReward
    Outpoint <- MCOutpoint
    Creator <- MCCreator
    Spends <- MCSpends
    BadTx = {e}
    Refusable = {a, b, c}
    GenesisBlock <- MCGenesisBlock
    Blocks <- MCBlocks
    Maturity = 2
    MaxHeight = 4
    Peer = {p1, p2}
    MaxOrphans = 3
INVARIANTS
    PoolConsistent
    DisconnectAssertHolds
    OrphanIndexExact
PROPERTIES
    OrphansResolved
CHECK_DEADLOCK FALSE
