SPECIFICATION Spec
CONSTANTS
    g = g
    p1 = p1
    p2 = p2
    p3 = p3
    p4 = p4
    p5 = p5
    f3 = f3
    f4 = f4
    x4 = x4
    c1 = c1
    c2 = c2
    c3 = c3
    c4 = c4
    c5 = c5
    s3 = s3
    k3 = k3
    pay = pay
    join = join
    next = next
    late = late
    again = again
    early = early
    Txids <- MCTxids
    Tx <- MCTxEmptyOutput
    Blocks = {g, p1, p2, p3, p4, p5, f3, f4, x4}
    Genesis = g
    Parent <- MCParent
    Txs <- MCTxs
    Maturity = 2
    MaxReorg = 3
    Startup <- Deep
    Verifications <- MCVerifications
    MaxVerify = 0
    MaxRestarts = 0
INVARIANT CoinsExact
