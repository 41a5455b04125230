------------------------------ MODULE CoinsView ------------------------------
(***************************************************************************)
(* The stack of coin views of coins.cpp, txdb.cpp and main.cpp: a scratch  *)
(* CCoinsViewCache opened by ConnectTip or DisconnectTip, on top of the    *)
(* long-lived cache pcoinsTip, on top of the LevelDB view CCoinsViewDB.    *)
(*                                                                         *)
(* A CCoins is abstracted to whether it still has unspent outputs (a       *)
(* member of Coins) or not (Pruned); the caches never look deeper.  A      *)
(* cache is a function from txid to an entry or NoEntry.                   *)
(***************************************************************************)
EXTENDS Naturals

CONSTANTS
    Txids,      \* transaction ids
    Coins,      \* the states of a CCoins with at least one unspent output
    Pruned,     \* a CCoins all of whose outputs are spent
    Missing,    \* GetCoins returned false
    NoEntry,    \* cacheCoins has no entry for the txid
    Blocks,     \* block hashes
    Genesis,    \* hash of the genesis block
    NullHash,   \* uint256(0)
    CoinsAt     \* CoinsAt[b]: the unspent coins after block b (what
                \* ConnectBlock and DisconnectBlock leave in the view)

Flags == {"DIRTY", "FRESH"}

Entry == [coins : Coins \cup {Pruned}, flags : SUBSET Flags]

ASSUME ValuesDistinct ==
    /\ Pruned \notin Coins
    /\ Missing \notin Coins \cup {Pruned}
    /\ NoEntry \notin Entry
    /\ NoEntry \notin [Txids -> Coins \cup {Pruned}]

ASSUME BlocksAssumption ==
    /\ Genesis \in Blocks
    /\ NullHash \notin Blocks
    /\ CoinsAt \in [Blocks -> [Txids -> Coins \cup {Pruned}]]
    /\ CoinsAt[Genesis] = [t \in Txids |-> Pruned]

VARIABLES
    db,         \* CCoinsViewDB: the records under key 'c'
    dbBest,     \* CCoinsViewDB: the record under key 'B'
    tip,        \* pcoinsTip->cacheCoins
    tipBest,    \* pcoinsTip->hashBlock
    view,       \* cacheCoins of the scratch view
    viewOpen,   \* whether a scratch view is alive
    intended    \* the coins as its owner believes to have left them: what it
                \* found, with its own changes (no variable of the code)

vars == <<db, dbBest, tip, tipBest, view, viewOpen, intended>>

EmptyCache == [t \in Txids |-> NoEntry]

AllPruned == [t \in Txids |-> Pruned]

-----------------------------------------------------------------------------
(* CCoinsViewCache, as operators on a cache c and on base, the result of    *)
(* base->GetCoins for each txid.                                            *)

GetCoins(c, base, t) == IF c[t] # NoEntry THEN c[t].coins ELSE base[t]

GetAll(c, base) == [t \in Txids |-> GetCoins(c, base, t)]

\* Mutants: an entry that is not in the parent is never, or always, fresh.
MutFreshInNever(base, t) == {}
MutFreshInAlways(base, t) == {"FRESH"}

\* The parent has no entry, or only an empty one: our version is fresh.
FreshIn(base, t) == IF base[t] \in {Missing, Pruned} THEN {"FRESH"} ELSE {}

FetchCoins(c, base, t) ==
    IF c[t] # NoEntry \/ base[t] = Missing
    THEN c
    ELSE [c EXCEPT ![t] = [coins |-> base[t], flags |-> FreshIn(base, t)]]

\* Mutant: the destructor does not look at FRESH.
MutModifyCoinsErases(c, base, t, v) ==
    LET old == IF c[t] # NoEntry THEN c[t].flags ELSE FreshIn(base, t)
    IN  [c EXCEPT ![t] = IF v = Pruned THEN NoEntry
                         ELSE [coins |-> v, flags |-> old \cup {"DIRTY"}]]

\* ModifyCoins together with the CCoinsModifier that ends with the value v:
\* its destructor erases an entry that is fresh and pruned.
ModifyCoins(c, base, t, v) ==
    LET old == IF c[t] # NoEntry THEN c[t].flags ELSE FreshIn(base, t)
    IN  [c EXCEPT ![t] = IF "FRESH" \in old /\ v = Pruned
                         THEN NoEntry
                         ELSE [coins |-> v, flags |-> old \cup {"DIRTY"}]]

\* Mutant: a pruned child entry erases ours, FRESH or not.
MutMergeEntryErases(us, e) ==
    IF e = NoEntry THEN us
    ELSE IF "DIRTY" \notin e.flags THEN us
    ELSE IF e.coins = Pruned THEN NoEntry
    ELSE [coins |-> e.coins, flags |-> IF us = NoEntry THEN {"DIRTY", "FRESH"}
                                       ELSE us.flags \cup {"DIRTY"}]

\* One entry of CCoinsViewCache::BatchWrite: child entry e into our entry us.
MergeEntry(us, e) ==
    IF e = NoEntry THEN us
    ELSE IF "DIRTY" \notin e.flags THEN us
    ELSE IF us = NoEntry
         THEN IF e.coins = Pruned
              THEN NoEntry
              ELSE [coins |-> e.coins, flags |-> {"DIRTY", "FRESH"}]
    ELSE IF "FRESH" \in us.flags /\ e.coins = Pruned
         THEN NoEntry
         ELSE [coins |-> e.coins, flags |-> us.flags \cup {"DIRTY"}]

BatchWrite(c, child) == [t \in Txids |-> MergeEntry(c[t], child[t])]

\* The assert inside CCoinsViewCache::BatchWrite.
MergeAssert(us, e) ==
    (e # NoEntry /\ us = NoEntry)
        => (("DIRTY" \in e.flags /\ e.coins # Pruned) => "FRESH" \in e.flags)

\* Mutants: pruned coins are written as they are; pruned coins are skipped.
MutBatchWriteCoinsPruned(d, c) ==
    [t \in Txids |-> IF c[t] = NoEntry THEN d[t]
                     ELSE IF "DIRTY" \notin c[t].flags THEN d[t] ELSE c[t].coins]
MutBatchWriteCoinsKept(d, c) ==
    [t \in Txids |-> IF c[t] = NoEntry THEN d[t]
                     ELSE IF "DIRTY" \notin c[t].flags \/ c[t].coins = Pruned THEN d[t]
                     ELSE c[t].coins]

\* CCoinsViewDB::BatchWrite: dirty entries are written, or erased if pruned.
BatchWriteCoins(d, c) ==
    [t \in Txids |->
        IF c[t] = NoEntry THEN d[t]
        ELSE IF "DIRTY" \notin c[t].flags THEN d[t]
        ELSE IF c[t].coins = Pruned THEN Missing ELSE c[t].coins]

\* CCoinsViewDB::BatchWrite writes 'B' unless the hash is null.
BatchWriteHashBestChain(old, hash) == IF hash = NullHash THEN old ELSE hash

\* CCoinsViewCache::GetBestBlock of pcoinsTip.
GetBestBlock == IF tipBest = NullHash THEN dbBest ELSE tipBest

-----------------------------------------------------------------------------
(* The coin maps the three layers stand for. *)

Value(x) == IF x = Missing THEN Pruned ELSE x

DbCoins == [t \in Txids |-> Value(db[t])]
TipCoins == [t \in Txids |-> Value(GetCoins(tip, db, t))]
ViewCoins == [t \in Txids |-> Value(GetCoins(view, GetAll(tip, db), t))]

-----------------------------------------------------------------------------
\* The data directory as InitBlockIndex leaves it, freshly opened: the
\* genesis coinbase is never added to the coins.
Init ==
    /\ db = [t \in Txids |-> Missing]
    /\ dbBest = Genesis
    /\ tip = EmptyCache
    /\ tipBest = NullHash
    /\ view = EmptyCache
    /\ viewOpen = FALSE
    /\ intended = AllPruned

\* CCoinsViewCache view(pcoinsTip), followed by the view.GetBestBlock() with
\* which ConnectBlock and DisconnectBlock begin.
OpenView ==
    /\ ~viewOpen
    /\ viewOpen' = TRUE
    /\ view' = EmptyCache
    /\ tipBest' = GetBestBlock
    /\ intended' = TipCoins
    /\ UNCHANGED <<db, dbBest, tip>>

\* HaveInputs, AccessCoins, HaveCoins or GetCoins on the scratch view: a
\* miss also pulls the coins into pcoinsTip.
ViewFetch(t) ==
    /\ viewOpen
    /\ view' = FetchCoins(view, GetAll(tip, db), t)
    /\ tip' = IF view[t] # NoEntry THEN tip ELSE FetchCoins(tip, db, t)
    /\ UNCHANGED <<db, dbBest, tipBest, viewOpen, intended>>

\* UpdateCoins or DisconnectBlock change the coins of t to v.
ViewModify(t, v) ==
    /\ viewOpen
    /\ view' = ModifyCoins(view, GetAll(tip, db), t, v)
    /\ tip' = IF view[t] # NoEntry THEN tip ELSE FetchCoins(tip, db, t)
    /\ intended' = [intended EXCEPT ![t] = v]
    /\ UNCHANGED <<db, dbBest, tipBest, viewOpen>>

\* SetBestBlock(b) and view.Flush() once the block's changes are complete.
FlushView(b) ==
    /\ viewOpen
    /\ intended = CoinsAt[b]
    /\ tip' = BatchWrite(tip, view)
    /\ tipBest' = b
    /\ view' = EmptyCache
    /\ viewOpen' = FALSE
    /\ intended' = AllPruned
    /\ UNCHANGED <<db, dbBest>>

\* The block failed, or was only being tested: the view is destroyed.
DropView ==
    /\ viewOpen
    /\ view' = EmptyCache
    /\ viewOpen' = FALSE
    /\ intended' = AllPruned
    /\ UNCHANGED <<db, dbBest, tip, tipBest>>

\* Anything that reads through pcoinsTip (mempool, RPC, AlreadyHave).
TipFetch(t) ==
    /\ tip' = FetchCoins(tip, db, t)
    /\ UNCHANGED <<db, dbBest, tipBest, view, viewOpen, intended>>

\* FlushStateToDisk reaches pcoinsTip->Flush(): one LevelDB batch.
FlushTip ==
    /\ ~viewOpen
    /\ db' = BatchWriteCoins(db, tip)
    /\ dbBest' = BatchWriteHashBestChain(dbBest, tipBest)
    /\ tip' = EmptyCache
    /\ UNCHANGED <<tipBest, view, viewOpen, intended>>

\* The process ends, orderly (after FlushTip) or not, and starts again.
Restart ==
    /\ tip' = EmptyCache
    /\ tipBest' = NullHash
    /\ view' = EmptyCache
    /\ viewOpen' = FALSE
    /\ intended' = AllPruned
    /\ UNCHANGED <<db, dbBest>>

Next ==
    \/ OpenView
    \/ \E t \in Txids : ViewFetch(t)
    \/ \E t \in Txids, v \in Coins \cup {Pruned} : ViewModify(t, v)
    \/ \E b \in Blocks : FlushView(b)
    \/ DropView
    \/ \E t \in Txids : TipFetch(t)
    \/ FlushTip
    \/ Restart

Spec == Init /\ [][Next]_vars

(* The LevelDB write may fail.  CCoinsViewDB::BatchWrite has by then moved  *)
(* every entry out of the map, so the cache is empty whatever happens;      *)
(* FlushStateToDisk catches the exception and requests a shutdown, whose    *)
(* own FlushStateToDisk is another FlushTip.                                *)
FlushTipFails ==
    /\ ~viewOpen
    /\ tip' = EmptyCache
    /\ UNCHANGED <<db, dbBest, tipBest, view, viewOpen, intended>>

NextWithWriteFailure == Next \/ FlushTipFails

SpecWithWriteFailure == Init /\ [][NextWithWriteFailure]_vars

-----------------------------------------------------------------------------
\* Every variable holds a value of its kind.
TypeOK ==
    /\ db \in [Txids -> Coins \cup {Missing}]
    /\ dbBest \in Blocks
    /\ tip \in [Txids -> Entry \cup {NoEntry}]
    /\ tipBest \in Blocks \cup {NullHash}
    /\ view \in [Txids -> Entry \cup {NoEntry}]
    /\ viewOpen \in BOOLEAN
    /\ ~viewOpen => view = EmptyCache
    /\ intended \in [Txids -> Coins \cup {Pruned}]

\* The meaning of the flags of CCoinsCacheEntry, for a cache c whose parent
\* stands for the map parent: a FRESH entry's parent has nothing for the
\* txid, and an entry that is not DIRTY agrees with the parent.
FlagsSoundIn(c, parent) ==
    \A t \in Txids :
        c[t] # NoEntry =>
            /\ "FRESH" \in c[t].flags => Value(parent[t]) = Pruned
            /\ "DIRTY" \notin c[t].flags => c[t].coins = Value(parent[t])

\* The comments on DIRTY and FRESH (coins.h) hold in both caches at all
\* times: on them rests every shortcut BatchWrite and ~CCoinsModifier take.
FlagsSound ==
    /\ FlagsSoundIn(tip, db)
    /\ FlagsSoundIn(view, GetAll(tip, db))

\* An entry of the scratch view that is not FRESH was pulled through
\* pcoinsTip, and is still there when the view is flushed.
PulledThroughTip ==
    \A t \in Txids :
        (view[t] # NoEntry /\ tip[t] = NoEntry) => "FRESH" \in view[t].flags

\* ConnectBlock and DisconnectBlock read in the scratch view what they found
\* there and wrote, never what a shortcut of the caches brought back.
ViewAsIntended == viewOpen => ViewCoins = intended

\* assert(it->second.flags & FRESH) in CCoinsViewCache::BatchWrite cannot
\* fail, whenever the scratch view is flushed.
BatchWriteAssertHolds == \A t \in Txids : MergeAssert(tip[t], view[t])

\* pcoinsTip stands for the coins after the block it names as best.
TipMatchesBestBlock == TipCoins = CoinsAt[GetBestBlock]

\* The database stands for the coins after the block it names as best, so a
\* restart at any point resumes from a consistent chain state.
DbMatchesBestBlock == DbCoins = CoinsAt[dbBest]

\* The inductive invariants of the proofs: what the caches rely on, which
\* survives a failed write, and what they achieve without one.
CacheInv ==
    /\ TypeOK
    /\ FlagsSound
    /\ PulledThroughTip
    /\ ViewAsIntended

Inv ==
    /\ CacheInv
    /\ TipMatchesBestBlock
    /\ DbMatchesBestBlock

-----------------------------------------------------------------------------
Store == INSTANCE UtxoStore WITH
    coins <- TipCoins,
    best <- GetBestBlock,
    durable <- DbCoins,
    durableBest <- dbBest,
    scratch <- IF viewOpen THEN ViewCoins ELSE NoEntry,
    NoScratch <- NoEntry

\* Caches and flags are invisible: seen through GetCoins and GetBestBlock,
\* the three layers behave like the transactional map of UtxoStore.
ImplementsStore == Store!Spec
=============================================================================
