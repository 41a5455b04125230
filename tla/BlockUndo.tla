------------------------------ MODULE BlockUndo ------------------------------
(***************************************************************************)
(* ConnectBlock and DisconnectBlock of main.cpp, transaction by            *)
(* transaction: what they do to the coins (UpdateCoins, CCoins::Spend),    *)
(* the undo data that one writes and the other reads, and mapStakeSpent,   *)
(* with which ProcessNewBlock judges the stake of a block on a fork.       *)
(* DisconnectBlock also serves VerifyDB, on a view that is thrown away.    *)
(*                                                                         *)
(* Everything happens under cs_main; a job is the call that has it, and    *)
(* works on a scratch view of the coins.  Which block is connected next is *)
(* the business of ChainState, and any child of the tip will do here.      *)
(***************************************************************************)
EXTENDS Integers, Sequences, FiniteSets

CONSTANTS
    Txids,          \* transaction ids
    Tx,             \* Tx[t]: its kind, inputs (outpoints) and spendable outputs
    Blocks,         \* the blocks that may be received
    Genesis,        \* the genesis block, whose transactions are not connected
    Parent,         \* Parent[b]: hashPrevBlock
    Txs,            \* Txs[b]: the transactions of block b, in order
    Maturity,       \* Params().COINBASE_MATURITY()
    MaxReorg,       \* Params().MaxReorganizationDepth()
    Startup,        \* -checklevel and -checkblocks: the VerifyDB of AppInit2
    Verifications,  \* the levels and depths with which verifychain is called
    MaxVerify,      \* bound on calls of verifychain
    MaxRestarts     \* bound on restarts

Outpoints == Txids \X Nat

Check == [level : 0 .. 4, depth : Nat]

ASSUME TransactionAssumption ==
    /\ Tx \in [Txids -> [kind : {"coinbase", "coinstake", "plain"},
                         ins : Seq(Outpoints), outs : SUBSET Nat]]
    /\ \A t \in Txids : /\ Tx[t].kind = "coinbase" <=> Tx[t].ins = <<>>
                        /\ \A i, j \in DOMAIN Tx[t].ins :
                              Tx[t].ins[i] = Tx[t].ins[j] => i = j
                        /\ \A i \in DOMAIN Tx[t].ins : Tx[t].ins[i][1] # t

ASSUME BlockAssumption ==
    /\ Genesis \in Blocks
    /\ Parent \in [Blocks \ {Genesis} -> Blocks]
    /\ Txs \in [Blocks -> Seq(Txids)]
    /\ Txs[Genesis] = <<>>
    /\ \A b \in Blocks : \A i \in DOMAIN Txs[b] :
          Tx[Txs[b][i]].kind = "coinbase" <=> i = 1

ASSUME BoundAssumption ==
    /\ Maturity \in Nat /\ MaxReorg \in Nat
    /\ Startup \in Check /\ Verifications \subseteq Check
    /\ MaxVerify \in Nat /\ MaxRestarts \in Nat

VARIABLES
    received,   \* blocks that ProcessNewBlock has let through to AcceptBlock
    tip,        \* chainActive.Tip()
    coins,      \* pcoinsTip
    undo,       \* the undo files, by block and outpoint
    stakeSpent, \* mapStakeSpent
    view,       \* the coins in the scratch view of the job
    job,        \* the call that holds cs_main
    top,        \* greatest height connected since the start (no variable of
                \* the code)
    verifies, restarts

vars == <<received, tip, coins, undo, stakeSpent, view, job, top, verifies, restarts>>

-----------------------------------------------------------------------------
(* The tree of blocks. *)

Height[b \in Blocks] == IF b = Genesis THEN 0 ELSE Height[Parent[b]] + 1

\* Every block descends from the genesis block, and ContextualCheckBlock wants
\* the height of the block in its coinbase (main.cpp:3441).
ASSUME HeightAssumption ==
    /\ Height \in [Blocks -> Nat] /\ Height[Genesis] = 0
    /\ \A b \in Blocks \ {Genesis} : Height[b] = Height[Parent[b]] + 1
    /\ \A b, d \in Blocks :
          (Txs[b] # <<>> /\ Txs[d] # <<>> /\ Txs[b][1] = Txs[d][1]) => Height[b] = Height[d]

Ancestors[b \in Blocks] ==
    IF b = Genesis THEN {b} ELSE {b} \cup Ancestors[Parent[b]]

Elements(s) == {s[i] : i \in DOMAIN s}

\* The inputs of t, and which outputs of p are among a set of outpoints.
Inputs(t) == Elements(Tx[t].ins)
OutsOf(p, S) == {o[2] : o \in {q \in S : q[1] = p}}

-----------------------------------------------------------------------------
(* CCoins. *)

\* CCoins::Clear, and any CCoins without outputs: they are all equal.
NoCoins == [outs |-> {}, base |-> FALSE, stake |-> FALSE, height |-> 0]

\* CCoins::FromTx; outs has no unspendable outputs (ClearUnspendable).
FromTx(t, h) ==
    IF Tx[t].outs = {} THEN NoCoins
    ELSE [outs |-> Tx[t].outs, base |-> Tx[t].kind = "coinbase",
          stake |-> Tx[t].kind = "coinstake", height |-> h]

IsAvailable(c, o) == o[2] \in c[o[1]].outs

\* CCoinsViewCache::HaveInputs
HaveInputs(c, t) == \A o \in Inputs(t) : IsAvailable(c, o)

\* Mutant: coinstakes may be spent at once.
MutMatureCoinbase(c, t, h) ==
    \A o \in Inputs(t) : c[o[1]].base => h - c[o[1]].height >= Maturity

\* The maturity rule of CheckInputs, for a transaction in a block of height h.
Mature(c, t, h) ==
    \A o \in Inputs(t) : (c[o[1]].base \/ c[o[1]].stake)
                            => h - c[o[1]].height >= Maturity

\* CCoins without the outputs S.
Without(cc, S) == IF cc.outs \subseteq S THEN NoCoins ELSE [cc EXCEPT !.outs = @ \ S]

\* UpdateCoins: the inputs are spent, the outputs added.
UpdateCoins(c, t, h) ==
    [p \in Txids |-> IF p = t THEN FromTx(t, h) ELSE Without(c[p], OutsOf(p, Inputs(t)))]

\* CTxInUndo for an input that leaves other outputs: nHeight is 0.
NoMeta == [base |-> FALSE, stake |-> FALSE, height |-> 0]

MetaOf(cc) == [base |-> cc.base, stake |-> cc.stake, height |-> cc.height]

\* The CTxUndo that UpdateCoins fills: the input that spends the last output
\* of a transaction, in the order of vin, keeps the transaction's metadata.
SpendUndo(c, t) ==
    [o \in Inputs(t) |->
        LET i == CHOOSE k \in DOMAIN Tx[t].ins : Tx[t].ins[k] = o
            spent == {Tx[t].ins[k] : k \in 1 .. i}
        IN  IF c[o[1]].outs \subseteq OutsOf(o[1], spent) THEN MetaOf(c[o[1]]) ELSE NoMeta]

\* Mutant: DisconnectBlock takes the height from its own block.
MutRestoreOwnHeight(cc, S, meta, h) ==
    IF S = {} THEN cc
    ELSE IF meta = NoMeta THEN [cc EXCEPT !.outs = @ \cup S]
    ELSE [outs |-> S, base |-> meta.base, stake |-> FALSE, height |-> h]

\* What DisconnectBlock, in a block of height h, makes of the CCoins cc of a
\* transaction whose outputs S it restores: fCoinStake stays as Clear left it.
Restore(cc, S, meta, h) ==
    IF S = {} THEN cc
    ELSE IF meta = NoMeta THEN [cc EXCEPT !.outs = @ \cup S]
    ELSE [outs |-> S, base |-> meta.base, stake |-> FALSE, height |-> meta.height]

\* The metadata that undo data u has for transaction p among the inputs of t.
MetaFor(u, t, p) ==
    LET kept == {u[o] : o \in {q \in Inputs(t) : q[1] = p}} \ {NoMeta}
    IN  IF kept = {} THEN NoMeta ELSE CHOOSE m \in kept : TRUE

\* One round of DisconnectBlock's loop: outputs removed, inputs restored.
UndoTx(c, t, u, h) ==
    [p \in Txids |-> IF p = t THEN NoCoins
                     ELSE Restore(c[p], OutsOf(p, Inputs(t)), MetaFor(u, t, p), h)]

\* The checks of that round, each of which clears fClean.
CleanTx(c, t, u, h) ==
    /\ c[t] = FromTx(t, h)
    /\ \A o \in Inputs(t) : /\ (MetaFor(u, t, o[1]) # NoMeta) <=> c[o[1]] = NoCoins
                            /\ ~IsAvailable(c, o)

-----------------------------------------------------------------------------
(* mapStakeSpent. *)

\* Mutant: coinstakes are left out.
MutStakeInputsPlain(b) ==
    UNION {Inputs(t) : t \in {s \in Elements(Txs[b]) : Tx[s].kind = "plain"}}

\* The inputs of block b, all but the coinbase's.
StakeInputs(b) == UNION {Inputs(t) : t \in Elements(Txs[b])}

\* New entries are inserted, unless there is one, and old ones deleted.
ConnectStakeSpent(b) ==
    LET old == DOMAIN stakeSpent
        all == [o \in old \cup StakeInputs(b) |-> IF o \in old THEN stakeSpent[o] ELSE Height[b]]
    IN  [o \in {q \in DOMAIN all : all[q] >= Height[b] - MaxReorg} |-> all[o]]

\* The input of a proof-of-stake block, which ProcessNewBlock looks up if not
\* all inputs of the coinstake are unspent at the tip.
IsProofOfStake(b) == Len(Txs[b]) > 1 /\ Tx[Txs[b][2]].kind = "coinstake"

StakeAdmitted(b) ==
    IsProofOfStake(b) => \/ HaveInputs(coins, Txs[b][2])
                         \/ Tx[Txs[b][2]].ins[1] \in DOMAIN stakeSpent

\* ContextualCheckBlockHeader: the fork is not too deep.
NotTooDeep(b) == Height[tip] - Height[b] < MaxReorg

-----------------------------------------------------------------------------
NoUndo == [o \in {} |-> NoMeta]

Idle == [op |-> "idle", block |-> Genesis, pos |-> 0, undo |-> NoUndo, clean |-> TRUE,
         level |-> 0, low |-> 0]

Init ==
    /\ received = {Genesis}
    /\ tip = Genesis
    /\ coins = [t \in Txids |-> NoCoins]
    /\ undo = [b \in {} |-> NoUndo]
    /\ stakeSpent = [o \in {} |-> 0]
    /\ view = coins
    /\ job = Idle
    /\ top = 0
    /\ verifies = 0
    /\ restarts = 0

\* The job at the beginning of ConnectBlock, or of DisconnectBlock, on b.
AtStart(b) == [job EXCEPT !.block = b, !.pos = 0, !.undo = NoUndo]
AtEnd(b) == [job EXCEPT !.block = b, !.pos = Len(Txs[b]), !.undo = undo[b]]

\* ProcessNewBlock up to AcceptBlock.
ProcessNewBlock(b) ==
    /\ job = Idle
    /\ b \notin received /\ Parent[b] \in received
    /\ NotTooDeep(b)
    /\ StakeAdmitted(b)
    /\ received' = received \cup {b}
    /\ UNCHANGED <<tip, coins, undo, stakeSpent, view, job, top, verifies, restarts>>

\* ConnectTip opens a view and calls ConnectBlock.
ConnectTip(b) ==
    /\ job = Idle
    /\ b \in received \ {Genesis}
    /\ Parent[b] = tip
    /\ view' = coins
    /\ job' = [AtStart(b) EXCEPT !.op = "connect"]
    /\ UNCHANGED <<received, tip, coins, undo, stakeSpent, top, verifies, restarts>>

\* DisconnectTip opens a view and calls DisconnectBlock.
DisconnectTip ==
    /\ job = Idle
    /\ tip # Genesis
    /\ view' = coins
    /\ job' = [AtEnd(tip) EXCEPT !.op = "disconnect"]
    /\ UNCHANGED <<received, tip, coins, undo, stakeSpent, top, verifies, restarts>>

\* VerifyDB, on a view of the coins at the tip, with check c.
VerifyDB(c) ==
    [Idle EXCEPT !.op = "verify", !.block = tip, !.pos = Len(Txs[tip]), !.undo = undo[tip],
                 !.level = c.level, !.low = Height[tip] - c.depth]

\* The RPC verifychain, at a level at which it disconnects blocks.
VerifyChain ==
    /\ job = Idle
    /\ verifies < MaxVerify
    /\ tip # Genesis
    /\ \E c \in Verifications : c.level >= 3 /\ job' = VerifyDB(c)
    /\ view' = coins
    /\ verifies' = verifies + 1
    /\ UNCHANGED <<received, tip, coins, undo, stakeSpent, top, restarts>>

\* A restart: mapStakeSpent is not saved, and AppInit2 calls VerifyDB.
Restart ==
    /\ restarts < MaxRestarts
    /\ restarts' = restarts + 1
    /\ stakeSpent' = [o \in {} |-> 0]
    /\ top' = Height[tip]
    /\ view' = coins
    /\ job' = IF tip = Genesis \/ Startup.level < 3 THEN Idle ELSE VerifyDB(Startup)
    /\ UNCHANGED <<received, tip, coins, undo, verifies>>

-----------------------------------------------------------------------------
(* ConnectBlock: in ConnectTip ("connect"), and at level 4 of VerifyDB      *)
(* ("reconnect").                                                           *)

Connecting == job.op \in {"connect", "reconnect"}

Acceptable(t) == HaveInputs(view, t) /\ Mature(view, t, Height[job.block])

\* One transaction.
ConnectTx ==
    /\ Connecting
    /\ job.pos < Len(Txs[job.block])
    /\ LET t == Txs[job.block][job.pos + 1]
           u == SpendUndo(view, t)
       IN  /\ Acceptable(t)
           /\ view' = UpdateCoins(view, t, Height[job.block])
           /\ job' = [job EXCEPT !.pos = @ + 1,
                                 !.undo = [o \in DOMAIN job.undo \cup Inputs(t) |->
                                              IF o \in Inputs(t) THEN u[o] ELSE job.undo[o]]]
    /\ UNCHANGED <<received, tip, coins, undo, stakeSpent, top, verifies, restarts>>

\* A transaction is refused: the view is dropped.
ConnectBlockFails ==
    /\ Connecting
    /\ job.pos < Len(Txs[job.block])
    /\ ~Acceptable(Txs[job.block][job.pos + 1])
    /\ job' = Idle
    /\ view' = coins
    /\ UNCHANGED <<received, tip, coins, undo, stakeSpent, top, verifies, restarts>>

\* Undo data is written once; an older one is kept.
WithUndo(b) ==
    [d \in DOMAIN undo \cup {b} |-> IF d \in DOMAIN undo THEN undo[d] ELSE job.undo]

\* chainActive.Next(b)
NextInChain(b) == CHOOSE d \in Ancestors[tip] \ {Genesis} : Parent[d] = b

\* The end of ConnectBlock, and of ConnectTip with it; or on to the next
\* block in VerifyDB, whose view is dropped in the end.
ConnectBlock ==
    /\ Connecting
    /\ job.pos = Len(Txs[job.block])
    /\ undo' = WithUndo(job.block)
    /\ stakeSpent' = ConnectStakeSpent(job.block)
    /\ IF job.op = "connect"
       THEN /\ coins' = view
            /\ tip' = job.block
            /\ top' = IF Height[job.block] > top THEN Height[job.block] ELSE top
       ELSE UNCHANGED <<coins, tip, top>>
    /\ IF job.block = tip'
       THEN job' = Idle /\ view' = coins'
       ELSE job' = AtStart(NextInChain(job.block)) /\ UNCHANGED view
    /\ UNCHANGED <<received, verifies, restarts>>

-----------------------------------------------------------------------------
(* DisconnectBlock: in DisconnectTip ("disconnect"), and at level 3 of      *)
(* VerifyDB ("verify").                                                     *)

Disconnecting == job.op \in {"disconnect", "verify"}

\* One transaction; mapStakeSpent changes whatever the view is for.
DisconnectTx ==
    /\ Disconnecting
    /\ job.pos > 0
    /\ LET t == Txs[job.block][job.pos]
           h == Height[job.block]
       IN  /\ view' = UndoTx(view, t, job.undo, h)
           /\ job' = [job EXCEPT !.pos = @ - 1,
                                 !.clean = @ /\ CleanTx(view, t, job.undo, h)]
           /\ stakeSpent' = [o \in DOMAIN stakeSpent \ Inputs(t) |-> stakeSpent[o]]
    /\ UNCHANGED <<received, tip, coins, undo, top, verifies, restarts>>

\* The end of DisconnectBlock and of DisconnectTip, which fails if the block
\* did not match the coins.
DisconnectBlock ==
    /\ job.op = "disconnect"
    /\ job.pos = 0
    /\ IF job.clean
       THEN coins' = view /\ tip' = Parent[tip]
       ELSE UNCHANGED <<coins, tip>>
    /\ job' = Idle
    /\ view' = coins'
    /\ UNCHANGED <<received, undo, stakeSpent, top, verifies, restarts>>

\* VerifyDB has disconnected a block in memory, and goes on to the one before,
\* to reconnecting, or to its end.
VerifyNext ==
    LET b == Parent[job.block]
    IN  /\ job.op = "verify"
        /\ job.pos = 0
        /\ \/ /\ b # Genesis /\ Height[b] >= job.low
              /\ job' = AtEnd(b)
              /\ UNCHANGED view
           \/ /\ b = Genesis \/ Height[b] < job.low
              /\ IF job.clean /\ job.level >= 4
                 THEN /\ job' = [AtStart(job.block) EXCEPT !.op = "reconnect"]
                      /\ UNCHANGED view
                 ELSE job' = Idle /\ view' = coins
        /\ UNCHANGED <<received, tip, coins, undo, stakeSpent, top, verifies, restarts>>

-----------------------------------------------------------------------------
Next ==
    \/ \E b \in Blocks \ {Genesis} : ProcessNewBlock(b) \/ ConnectTip(b)
    \/ DisconnectTip
    \/ VerifyChain
    \/ Restart
    \/ ConnectTx
    \/ ConnectBlockFails
    \/ ConnectBlock
    \/ DisconnectTx
    \/ DisconnectBlock
    \/ VerifyNext

Spec == Init /\ [][Next]_vars

-----------------------------------------------------------------------------
Meta == [base : BOOLEAN, stake : BOOLEAN, height : Nat]
CCoins == [outs : SUBSET Nat, base : BOOLEAN, stake : BOOLEAN, height : Nat]

\* u is undo data, or part of it.
IsUndo(u) == DOMAIN u \subseteq Outpoints /\ \A o \in DOMAIN u : u[o] \in Meta

\* Every variable holds a value of its kind.
TypeOK ==
    /\ received \subseteq Blocks
    /\ tip \in Blocks
    /\ coins \in [Txids -> CCoins] /\ view \in [Txids -> CCoins]
    /\ DOMAIN undo \subseteq Blocks /\ \A b \in DOMAIN undo : IsUndo(undo[b])
    /\ DOMAIN stakeSpent \subseteq Outpoints
    /\ \A o \in DOMAIN stakeSpent : stakeSpent[o] \in Nat
    /\ DOMAIN job = DOMAIN Idle
    /\ job.op \in {"idle", "connect", "disconnect", "verify", "reconnect"}
    /\ job.block \in Blocks /\ job.pos \in 0 .. Len(Txs[job.block])
    /\ IsUndo(job.undo) /\ job.clean \in BOOLEAN
    /\ top \in Nat /\ verifies \in Nat /\ restarts \in Nat

\* The transactions of the chain that ends with b.
Confirmed[b \in Blocks] ==
    IF b = Genesis THEN {} ELSE Confirmed[Parent[b]] \cup Elements(Txs[b])

\* The height at which t comes into the chain that ends with b.
HeightIn(b, t) ==
    LET D == {d \in Ancestors[b] : t \in Elements(Txs[d])}
    IN  CHOOSE h \in {Height[d] : d \in D} : \A d \in D : h <= Height[d]

\* The definition of unspent: the coins after the transactions S of b's
\* chain are the outputs of S that no transaction of S spends.
CoinsAfter(S, b) ==
    LET spent == UNION {Inputs(s) : s \in S}
    IN  [t \in Txids |-> IF t \in S THEN Without(FromTx(t, HeightIn(b, t)), OutsOf(t, spent))
                                    ELSE NoCoins]

\* The transactions that the scratch view has been taken through.
InView ==
    IF job = Idle THEN Confirmed[tip]
    ELSE Confirmed[Parent[job.block]] \cup {Txs[job.block][i] : i \in 1 .. job.pos}

\* Connecting and disconnecting, in whatever order, never leave anything in
\* the coins, or in a scratch view halfway through a block, but the unspent
\* outputs of the chain, each with the kind and height of its transaction; and
\* DisconnectBlock never finds the coins or the undo data at odds with the block,
\* which would make DisconnectTip fail or VerifyDB report an inconsistency.
CoinsExact ==
    /\ TypeOK
    /\ job.clean
    /\ coins = CoinsAfter(Confirmed[tip], tip)
    /\ view = CoinsAfter(InView, IF job = Idle THEN tip ELSE job.block)

\* On the active chain no output is spent twice or before it exists, no
\* transaction appears twice, and what coinbases and coinstakes create is
\* spent only when mature.
ChainValid ==
    \A d, e \in Ancestors[tip] :
        \A i \in DOMAIN Txs[d], j \in DOMAIN Txs[e] :
            LET s == Txs[d][i]
                t == Txs[e][j]
            IN  /\ <<d, i>> # <<e, j>> => s # t /\ Inputs(s) \cap Inputs(t) = {}
                /\ OutsOf(s, Inputs(t)) # {} =>
                      /\ Height[d] < Height[e] \/ (d = e /\ i < j)
                      /\ Tx[s].kind # "plain" => Height[e] - Height[d] >= Maturity

\* The stake of b was unspent at its parent and is known to the active chain.
StakeKnown(b) ==
    /\ IsProofOfStake(b)
    /\ Parent[b] \in received
    /\ \A o \in Inputs(Txs[b][2]) :
          /\ IsAvailable(CoinsAfter(Confirmed[Parent[b]], Parent[b]), o)
          /\ o[1] \in Confirmed[tip]

\* A block on a fork that leaves the active chain at most MaxReorg blocks below
\* the greatest height is not refused for its stake, if the stake was unspent at
\* the block's parent and is known to the active chain: spent there, it is in
\* mapStakeSpent.
ForkStakeAdmitted ==
    job = Idle =>
        \A b \in Blocks \ {Genesis} :
            /\ StakeKnown(b)
            /\ \E a \in Ancestors[tip] \cap Ancestors[Parent[b]] : Height[a] >= top - MaxReorg
            => StakeAdmitted(b)

\* Neither is any block less than MaxReorg below the greatest height, which
\* ContextualCheckBlockHeader lets through.  (It is, at the end of a long fork.)
RecentStakeAdmitted ==
    job = Idle =>
        \A b \in Blocks \ {Genesis} : StakeKnown(b) /\ Height[b] > top - MaxReorg => StakeAdmitted(b)
=============================================================================
