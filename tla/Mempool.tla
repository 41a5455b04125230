------------------------------ MODULE Mempool ------------------------------
(***************************************************************************)
(* The transaction memory pool (CTxMemPool, txmempool.cpp), the way in     *)
(* through AcceptToMemoryPool (main.cpp), what connecting and disconnecting*)
(* blocks does to it, and the orphan transactions that wait for a parent.  *)
(*                                                                         *)
(* Everything here runs under cs_main, so each operation is one step; only *)
(* the loop of the "tx" message over the orphans that a new transaction    *)
(* brings in is spread over several steps, during which the lock is held.  *)
(* The chain stands for the coins of pcoinsTip: BlockUndo and CoinsView    *)
(* show that those are the unspent outputs of the active chain.            *)
(***************************************************************************)
EXTENDS Integers, Sequences, FiniteSets

CONSTANTS
    Tx,            \* all transactions
    Reward,        \* the coinbases and coinstakes among them
    Outpoint,      \* all outputs
    Creator,       \* outpoint -> the transaction it is an output of
    Spends,        \* transaction -> the outpoints it spends
    BadTx,         \* the transactions whose scripts fail (nDoS > 0)
    Refusable,     \* those that fees, priority or a SwiftTX lock may keep out
    GenesisBlock,  \* the block the chain starts with, a sequence of Tx
    Blocks,        \* the blocks that may be connected, sequences of Tx
    Maturity,      \* COINBASE_MATURITY
    MaxHeight,     \* bound on the length of the chain
    Peer,
    MaxOrphans     \* -maxorphantx

ASSUME TxAssumption == Reward \subseteq Tx /\ BadTx \subseteq Tx /\ Refusable \subseteq Tx
ASSUME CreatorAssumption == Creator \in [Outpoint -> Tx]
ASSUME SpendsAssumption == Spends \in [Tx -> SUBSET Outpoint]
ASSUME BlocksAssumption == GenesisBlock \in Seq(Tx) /\ Blocks \subseteq Seq(Tx)
ASSUME BoundsAssumption == {Maturity, MaxOrphans} \subseteq Nat /\ MaxHeight \in Nat \ {0}
\* CheckTransaction refuses a transaction without inputs; the first block has
\* only a coinbase.
ASSUME InputsAssumption ==
    /\ \A t \in Tx \ Reward : Spends[t] # {}
    /\ \A i \in DOMAIN GenesisBlock : Spends[GenesisBlock[i]] = {}
ASSUME FiniteAssumption == IsFiniteSet(Tx)

VARIABLES
    pool,        \* mapTx (as a set of transactions) and mapNextTx
    chain,       \* the blocks of the active chain
    mapOrphanTransactions,        \* orphan -> the peer it came from
    mapOrphanTransactionsByPrev,  \* parent -> its orphans
    work         \* vWorkQueue, vEraseQueue and setMisbehaving of a "tx" handler;
                 \* history: accepted, every transaction it let into the pool

orphanVars == <<mapOrphanTransactions, mapOrphanTransactionsByPrev>>
vars == <<pool, chain, orphanVars, work>>

Idle == [queue |-> <<>>, tried |-> {}, erase |-> {}, misbehaving |-> {}, accepted |-> {}]

Ran(f) == {f[x] : x \in DOMAIN f}

Parents(t) == {Creator[o] : o \in Spends[t]}

------------------------------------------------------------------------------
(* The coins of a chain.                                                    *)

ChainTx(ch) == UNION {Ran(ch[i]) : i \in DOMAIN ch}

SpentIn(ch) == UNION {Spends[t] : t \in ChainTx(ch)}

Unspent(ch) == {o \in Outpoint : Creator[o] \in ChainTx(ch)} \ SpentIn(ch)

\* AccessCoins finds something: an output is left.
CoinsOf(ch, t) == {o \in Unspent(ch) : Creator[o] = t}

HeightOf(ch, t) == CHOOSE i \in DOMAIN ch : t \in Ran(ch[i])

\* A transaction in the block after ch may spend the output.
Mature(ch, o) ==
    Creator[o] \in Reward => Len(ch) + 1 - HeightOf(ch, Creator[o]) >= Maturity

------------------------------------------------------------------------------
(* CTxMemPool.                                                              *)

\* addUnchecked.
Add(P, t) ==
    [tx |-> P.tx \cup {t},
     next |-> [o \in DOMAIN P.next \cup Spends[t] |->
                  IF o \in Spends[t] THEN t ELSE P.next[o]]]

\* What remove finds from t on through mapNextTx: t, the transactions that spend
\* its outputs, those that spend theirs, ...
Family(P, t) ==
    LET reach[n \in 0 .. Cardinality(Tx)] ==
            IF n = 0 THEN {t}
            ELSE LET S == reach[n - 1]
                 IN  S \cup {P.next[o] : o \in {x \in DOMAIN P.next : Creator[x] \in S}}
    IN  reach[Cardinality(Tx)]

RemoveAll(P, S) ==
    LET gone == S \cap P.tx
        freed == UNION {Spends[t] : t \in gone}
    IN  [tx |-> P.tx \ gone, next |-> [o \in DOMAIN P.next \ freed |-> P.next[o]]]

\* Mutant: the descendants stay.
MutantRemoveRecursive(P, t) == RemoveAll(P, {t})

\* remove(tx, removed, fRecursive = true): t itself need not be in the pool.
RemoveRecursive(P, t) == RemoveAll(P, Family(P, t))

\* removeCoinbaseSpends, with the coins of ch and at the height after it.
RemoveCoinbaseSpends(P, ch) ==
    LET spends == {t \in P.tx : \E o \in Spends[t] :
                      /\ Creator[o] \notin P.tx
                      /\ CoinsOf(ch, Creator[o]) = {} \/ ~ Mature(ch, o)}
    IN  RemoveAll(P, UNION {Family(P, t) : t \in spends})

\* Mutant: the descendants of a conflicting transaction stay.
MutantRemoveConflicts(P, t) ==
    RemoveAll(P, {P.next[o] : o \in Spends[t] \cap DOMAIN P.next} \ {t})

\* removeConflicts: what spends an input of t goes, with its family.
RemoveConflicts(P, t) ==
    LET conflicts == {P.next[o] : o \in Spends[t] \cap DOMAIN P.next} \ {t}
    IN  RemoveAll(P, UNION {Family(P, u) : u \in conflicts})

\* removeForBlock: the transactions of the block leave the pool, their children
\* stay.
RemoveForBlock(P, block) ==
    LET after[i \in 0 .. Len(block)] ==
            IF i = 0 THEN P
            ELSE RemoveConflicts(RemoveAll(after[i - 1], {block[i]}), block[i])
    IN  after[Len(block)]

------------------------------------------------------------------------------
(* AcceptToMemoryPool.                                                      *)

\* Coinbase and coinstake are only valid in a block.
IsLoose(t) == t \notin Reward

\* HaveCoins of CCoinsViewMemPool.
HaveCoins(P, ch, t) == t \in P.tx \/ CoinsOf(ch, t) # {}

\* HaveInputs of the same view.
HaveInputs(P, ch, t) == \A o \in Spends[t] : Creator[o] \in P.tx \/ o \in Unspent(ch)

\* CheckInputs, apart from the scripts.
InputsMature(P, ch, t) == \A o \in Spends[t] : Creator[o] \in P.tx \/ Mature(ch, o)

\* What AcceptToMemoryPool answers; refuse are the transactions that fees,
\* priority, standardness or a lock keep out this time.
Verdict(P, ch, t, refuse) ==
    IF \/ ~ IsLoose(t)
       \/ t \in refuse
       \/ t \in P.tx
       \/ Spends[t] \cap DOMAIN P.next # {}
       \/ HaveCoins(P, ch, t)
    THEN "refused"
    ELSE IF \E u \in Parents(t) : ~ HaveCoins(P, ch, u) THEN "missing inputs"
    ELSE IF ~ HaveInputs(P, ch, t) \/ ~ InputsMature(P, ch, t) THEN "refused"
    ELSE IF t \in BadTx THEN "invalid"
    ELSE "accepted"

\* The loop of DisconnectTip over the transactions of its block: back into the
\* pool, or out of it with everything that depends on them.
Resurrect(P, ch, block, refuse) ==
    LET after[i \in 0 .. Len(block)] ==
            IF i = 0 THEN P
            ELSE LET Q == after[i - 1]
                 IN  IF Verdict(Q, ch, block[i], refuse) = "accepted"
                     THEN Add(Q, block[i])
                     ELSE RemoveRecursive(Q, block[i])
    IN  after[Len(block)]

------------------------------------------------------------------------------
Init ==
    /\ pool = [tx |-> {}, next |-> <<>>]
    /\ chain = <<GenesisBlock>>
    /\ mapOrphanTransactions = <<>>
    /\ mapOrphanTransactionsByPrev = <<>>
    /\ work = Idle

\* A transaction from the wallet, an RPC call or a lock request: the orphans are
\* not looked at.
SendTransaction(t, refuse) ==
    /\ work = Idle
    /\ Verdict(pool, chain, t, refuse) = "accepted"
    /\ pool' = Add(pool, t)
    /\ UNCHANGED <<chain, orphanVars, work>>

\* The block can follow the chain.
Connectable(block) ==
    /\ Ran(block) \cap ChainTx(chain) = {}
    /\ \A i \in DOMAIN block :
        /\ block[i] \notin BadTx
        /\ \A o \in Spends[block[i]] :
            /\ \/ o \in Unspent(chain) /\ Mature(chain, o)
               \/ \E j \in 1 .. i - 1 : Creator[o] = block[j] /\ block[j] \notin Reward
            /\ \A j \in 1 .. i - 1 : o \notin Spends[block[j]]

\* ConnectTip.
ConnectTip(block) ==
    /\ work = Idle
    /\ Len(chain) < MaxHeight
    /\ Connectable(block)
    /\ chain' = Append(chain, block)
    /\ pool' = RemoveForBlock(pool, block)
    /\ UNCHANGED <<orphanVars, work>>

\* DisconnectTip, once the coins are those of the previous block.
DisconnectTip(refuse) ==
    LET block == chain[Len(chain)]
        rest == SubSeq(chain, 1, Len(chain) - 1)
    IN
    /\ work = Idle
    /\ Len(chain) > 1
    /\ chain' = rest
    /\ pool' = RemoveCoinbaseSpends(Resurrect(pool, rest, block, refuse), rest)
    /\ UNCHANGED <<orphanVars, work>>

------------------------------------------------------------------------------
(* The "tx" message and the orphans.                                        *)

\* AddOrphanTx into mapOrphanTransactionsByPrev.
IndexOrphan(byPrev, t) ==
    [u \in DOMAIN byPrev \cup Parents(t) |->
        (IF u \in DOMAIN byPrev THEN byPrev[u] ELSE {}) \cup
        (IF u \in Parents(t) THEN {t} ELSE {})]

\* Mutant: a parent without orphans keeps its entry.
MutantUnindexOrphans(byPrev, S) == [u \in DOMAIN byPrev |-> byPrev[u] \ S]

\* EraseOrphanTx for each of S, in both maps.
UnindexOrphans(byPrev, S) ==
    [u \in {v \in DOMAIN byPrev : byPrev[v] \ S # {}} |-> byPrev[u] \ S]

EraseOrphans(orphans, byPrev, S) ==
    /\ mapOrphanTransactions' = [t \in DOMAIN orphans \ S |-> orphans[t]]
    /\ mapOrphanTransactionsByPrev' = UnindexOrphans(byPrev, S)

\* A new transaction is accepted; the handler goes on with its orphans.
TxAccepted(t, refuse) ==
    /\ work = Idle
    /\ Verdict(pool, chain, t, refuse) = "accepted"
    /\ pool' = Add(pool, t)
    /\ work' = [Idle EXCEPT !.queue = <<t>>, !.accepted = {t}]
    /\ UNCHANGED <<chain, orphanVars>>

\* A transaction that misses a parent is kept, unless it is known or too big;
\* LimitOrphanTxSize evicts orphans at random.
TxOrphaned(t, peer) ==
    /\ work = Idle
    /\ Verdict(pool, chain, t, {}) = "missing inputs"
    /\ t \notin DOMAIN mapOrphanTransactions
    /\ LET orphans == [u \in DOMAIN mapOrphanTransactions \cup {t} |->
                          IF u = t THEN peer ELSE mapOrphanTransactions[u]]
           excess == Cardinality(DOMAIN orphans) - MaxOrphans
       IN  \E S \in SUBSET DOMAIN orphans :
           /\ Cardinality(S) = IF excess > 0 THEN excess ELSE 0
           /\ EraseOrphans(orphans, IndexOrphan(mapOrphanTransactionsByPrev, t), S)
    /\ UNCHANGED <<pool, chain, work>>

\* The orphans of the transaction at the head of vWorkQueue not yet looked at.
Waiting ==
    LET h == Head(work.queue) IN
    IF h \in DOMAIN mapOrphanTransactionsByPrev
    THEN mapOrphanTransactionsByPrev[h] \ work.tried
    ELSE {}

\* Mutant: once an orphan is let in, the others of the same transaction are left.
MutantProcessOrphan(t, refuse) ==
    /\ work # Idle
    /\ t \in Waiting
    /\ IF Verdict(pool, chain, t, refuse) = "accepted"
       THEN /\ pool' = Add(pool, t)
            /\ work' = [work EXCEPT !.queue = Append(@, t), !.tried = @ \cup Waiting,
                                    !.erase = @ \cup {t}, !.accepted = @ \cup {t}]
       ELSE work' = [work EXCEPT !.tried = @ \cup {t}] /\ UNCHANGED pool
    /\ UNCHANGED <<chain, orphanVars>>

\* One orphan of the transaction at the head.
ProcessOrphan(t, refuse) ==
    LET verdict == Verdict(pool, chain, t, refuse)
        peer == mapOrphanTransactions[t]
        tried == [work EXCEPT !.tried = @ \cup {t}]
    IN
    /\ work # Idle
    /\ t \in Waiting
    /\ IF peer \in work.misbehaving \/ verdict = "missing inputs"
       THEN work' = tried /\ UNCHANGED pool
       ELSE IF verdict = "accepted"
       THEN /\ pool' = Add(pool, t)
            /\ work' = [tried EXCEPT !.queue = Append(@, t), !.erase = @ \cup {t},
                                     !.accepted = @ \cup {t}]
       ELSE /\ work' = [tried EXCEPT !.erase = @ \cup {t},
                                     !.misbehaving = IF verdict = "invalid"
                                                     THEN @ \cup {peer} ELSE @]
            /\ UNCHANGED pool
    /\ UNCHANGED <<chain, orphanVars>>

\* The next one in vWorkQueue; after the last, vEraseQueue is worked off.
NextInQueue ==
    /\ work # Idle
    /\ Waiting = {}
    /\ IF Len(work.queue) > 1
       THEN /\ work' = [work EXCEPT !.queue = Tail(@), !.tried = {}]
            /\ UNCHANGED orphanVars
       ELSE /\ work' = Idle
            /\ EraseOrphans(mapOrphanTransactions, mapOrphanTransactionsByPrev, work.erase)
    /\ UNCHANGED <<pool, chain>>

\* EraseOrphansFor, when a peer has gone.
EraseOrphansFor(peer) ==
    /\ work = Idle
    /\ peer \in Ran(mapOrphanTransactions)
    /\ EraseOrphans(mapOrphanTransactions, mapOrphanTransactionsByPrev,
           {t \in DOMAIN mapOrphanTransactions : mapOrphanTransactions[t] = peer})
    /\ UNCHANGED <<pool, chain, work>>

------------------------------------------------------------------------------
\* Every operation, with what the policy refuses while it runs.
Next ==
    \/ \E t \in Tx : SendTransaction(t, {})
    \/ \E block \in Blocks : ConnectTip(block)
    \/ \E refuse \in SUBSET Refusable : DisconnectTip(refuse)
    \/ \E t \in Tx : TxAccepted(t, {})
    \/ \E t \in Tx, peer \in Peer : TxOrphaned(t, peer)
    \/ \E t \in Tx, refuse \in SUBSET Refusable : ProcessOrphan(t, refuse)
    \/ NextInQueue
    \/ \E peer \in Peer : EraseOrphansFor(peer)

Spec == Init /\ [][Next]_vars

------------------------------------------------------------------------------
(* Properties.                                                              *)

\* Every variable has its type.
TypeOK ==
    /\ pool.tx \subseteq Tx \ Reward
    /\ DOMAIN pool.next \subseteq Outpoint /\ Ran(pool.next) \subseteq Tx
    /\ chain \in Seq(Seq(Tx)) /\ Len(chain) \in 1 .. MaxHeight
    /\ DOMAIN mapOrphanTransactions \subseteq Tx /\ Ran(mapOrphanTransactions) \subseteq Peer
    /\ Cardinality(DOMAIN mapOrphanTransactions) <= MaxOrphans
    /\ work \in [queue : Seq(Tx), tried : SUBSET Tx, erase : SUBSET Tx, misbehaving : SUBSET Peer,
                 accepted : SUBSET Tx]

\* The assertions of CTxMemPool::check: every input of a transaction in the pool
\* is an output of another one in the pool or an unspent coin that the next block
\* may spend (no immature coinbase or coinstake), and mapNextTx holds the inputs
\* of the pool, each with the one transaction that spends it.  A reorganisation
\* must keep this while transactions come back, are refused and take their
\* descendants with them; then the whole pool can go into the next block.
PoolConsistent ==
    /\ TypeOK
    /\ \A t \in pool.tx : \A o \in Spends[t] :
        Creator[o] \in pool.tx \/ (o \in Unspent(chain) /\ Mature(chain, o))
    /\ DOMAIN pool.next = UNION {Spends[t] : t \in pool.tx}
    /\ \A t \in pool.tx : \A o \in Spends[t] : pool.next[o] = t

\* The assertion in removeCoinbaseSpends (txmempool.cpp:480): when the loop of
\* DisconnectTip has put back or removed every transaction of the block, with
\* their descendants, whatever is left in the pool finds the coins it spends.
\* Holds for the next disconnection whichever transactions are refused.
DisconnectAssertHolds ==
    (work = Idle /\ Len(chain) > 1) =>
        LET rest == SubSeq(chain, 1, Len(chain) - 1) IN
        \A refuse \in SUBSET Refusable :
            LET R == Resurrect(pool, rest, chain[Len(chain)], refuse) IN
            \A t \in R.tx : \A u \in Parents(t) : u \in R.tx \/ CoinsOf(rest, u) # {}

\* The two orphan maps agree: what is not erased from mapOrphanTransactionsByPrev
\* with its orphan would make the "tx" handler read an orphan that is gone
\* (operator[] at main.cpp:5134 would create an empty one).
OrphanIndexExact ==
    /\ DOMAIN mapOrphanTransactionsByPrev =
           UNION {Parents(t) : t \in DOMAIN mapOrphanTransactions}
    /\ \A u \in DOMAIN mapOrphanTransactionsByPrev :
        mapOrphanTransactionsByPrev[u] =
            {t \in DOMAIN mapOrphanTransactions : u \in Parents(t)}

\* "Recursively process any orphan transactions that depended on this one"
\* (main.cpp:5124): when the handler is done, an orphan that still waits for a
\* transaction the handler let in, the one of the message or an orphan, misses some
\* other parent, or spends an input that another one has got hold of meanwhile,
\* unless its peer misbehaved.
OrphansResolved ==
    [][(work # Idle /\ work' = Idle) =>
        \A t \in DOMAIN mapOrphanTransactions' :
            \/ Parents(t) \cap work.accepted = {}
            \/ mapOrphanTransactions[t] \in work.misbehaving
            \/ Spends[t] \cap DOMAIN pool.next # {}
            \/ Verdict(pool, chain, t, {}) = "missing inputs"]_vars

=============================================================================
