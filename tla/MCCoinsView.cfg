SPECIFICATION Spec
CONSTANTS
    t1 = t1
    t2 = t2
    t3 = t3
    full = full
    part = part
    b0 = b0
    b1 = b1
    b2 = b2
    b3 = b3
    b4 = b4
    Txids = {t1, t2, t3}
    Coins = {full, part}
    Pruned = Pruned
    Missing = Missing
    NoEntry = NoEntry
    Blocks = {b0, b1, b2, b3, b4}
    Genesis = b0
    NullHash = NullHash
    CoinsAt <- MCCoinsAt
INVARIANTS
    TypeOK
    FlagsSound
    ViewAsIntended
    BatchWriteAssertHolds
    DbMatchesBestBlock
PROPERTY ImplementsStore
