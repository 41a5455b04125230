SPECIFICATION Spec
CONSTANTS
    t1 = t1  t2 = t2  o1 = o1  o2 = o2  m1 = m1  m2 = m2  m3 = m3
    None = None
    EmptyTx = EmptyTx
    Self = m2
    Tx <- MCTx
    Outpoint <- MCOutpoint
    Spends <- MCSpends
    Masternode <- MCMasternode
    PeerVotes <- MCPeerVotes
    Height = {1}
    LockHeight = {1}
    WalletTx <- MCWalletTx
    PlainTx <- MCPlainTx
    Ranked <- MCRanked
    Required = 2
    BlockFiltering = TRUE
    MaxBlocks = 1
    MaxMessages = 4
INVARIANT
    OnlyCompleteLocksBlock
CHECK_DEADLOCK FALSE
