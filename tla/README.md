# Verification of the ESBC2 node

TLA+ models of the core of the ESBC2 node (a proof-of-stake coin in the
Bitcoin/Dash/PIVX line, C++), checked by TLC on small instances and, in part,
proved by TLAPS for all instances. Paths below are relative to the repository;
almost everything is in `src/`.

`PROJECT.json` has the machine-readable side: components, runs, mutants (one
plausible bug for each property, which the property must catch), the map from
definitions to source lines, findings, hazards and theorems.

## 1. Inventory

The node is one process. The message handler, the RPC threads, the staking
thread and a few timers all call into `main.cpp`, and take the lock `cs_main`
for one call at a time. Script checks run on their own threads.

| Part | State | Operations | What is hard |
|---|---|---|---|
| Coin views: `coins.cpp`, `coins.h`, `txdb.cpp` | a stack of maps txid -> `CCoins`: scratch view, `pcoinsTip`, LevelDB; flags DIRTY and FRESH; best block of each layer | fetch, modify, batch write, flush | shortcuts that rest on the flags; crash and failed write; an assert |
| Block index and chain activation: `main.cpp`, `chain.h`, `txdb.cpp` | `mapBlockIndex` with status bits, `setBlockIndexCandidates`, `mapBlocksUnlinked`, `chainActive`, dirty sets, the index on disk | accept header, accept block, activate, connect and disconnect tip, invalidate, reconsider, reprocess, flush, load | order of arrival, failed reorganisations, release of `cs_main` between rounds, crash between two writes |
| Connecting blocks: `main.cpp`, `undo.h` | coins, undo files, `mapStakeSpent` | `ConnectBlock`, `DisconnectBlock`, `UpdateCoins`, `VerifyDB`, the stake check of `ProcessNewBlock` | exact inverse over several blocks, state shared with verification, limits of the fork depth |
| Script check queue: `checkqueue.h` | a queue, counters, two condition variables | `Add`, `Wait`, `Loop` | lost wakeups, checks that outlive their block, interruption |
| Memory pool and orphans: `txmempool.cpp`, `main.cpp` | `mapTx`, `mapNextTx`, orphan maps | accept, remove, remove conflicts, resubmit; keep, resolve and evict orphans | consistency with the chain over a reorganisation in which any transaction may be refused |
| SwiftTX: `swifttx.cpp` | lock requests, votes, locks, locked inputs | request, vote, complete, cancel, expire | votes before requests, conflicting requests, no lock on the maps |
| Masternode sync: `masternode-sync.cpp` | stage, attempt and answer counters, requests made of each peer | timer, messages, reset | stages that never end |
| Masternode payments: `masternode-payments.cpp` | votes, votes counted by block, last vote of each masternode; all in memory | vote, receive, clean, sync, make and check a block | lost, repeated and late votes, masternodes that vote twice, restarts |
| Masternode list: `masternode.cpp`, `masternodeman.cpp` | list, seen maps, cached block hashes | broadcast, ping, check | time-outs, stale caches |
| Block download: `main.cpp`, `net.h` | `nSyncStarted`, `hashContinue`, `vBlockRequested`, `setInventoryKnown` | `getblocks`, `inv`, `getdata`, `block` | batches, silent peers, blocks before their parents |
| Address manager: `addrman.cpp`, `addrman.h` | new and tried tables, `mapInfo`, `mapAddr`, `vRandom`, peers.dat | add, good, evict, save, load | four structures that must agree, collisions, reload |
| Sporks: `spork.cpp` | spork values | receive, reprocess blocks | changes verdicts on old blocks |
| Mixing pool, net, miner, wallet, RPC, GUI, scripts, cryptography | see `PROJECT.json` | | |

How they interact: `ProcessNewBlock` checks a block (its stake against
`pcoinsTip` and `mapStakeSpent`), `AcceptBlock` puts it into the block index,
`ActivateBestChain` picks the best candidate and calls `DisconnectTip` and
`ConnectTip`, which run `DisconnectBlock` and `ConnectBlock` on a scratch view
over `pcoinsTip`; `ConnectBlock` hands script checks to the queue and waits for
them; `FlushStateToDisk` writes the block index and then the coins. Sporks and
completed SwiftTX locks call `ReprocessBlocks`, which reconsiders blocks and
disconnects tips. Connecting and disconnecting update the memory pool;
`AcceptToMemoryPool` and `CheckBlock` obey the locked inputs of SwiftTX;
`ConnectBlock` asks the masternode payments whether the right payee is paid. The
sync fills list and votes from peers when the node starts, the address manager
says which peers there are, and block download feeds `ProcessNewBlock`.

What makes the parts correct: the coins are exactly the unspent outputs of the
active chain, in memory and on disk, at every crash; the block index satisfies
what `CheckBlockIndex` asserts; the best valid chain becomes active and
activation ends; a block is accepted only if every script check passed; the
process can always be started again; the pool can go into the next block; an
input is locked by a quorum, and nothing else; no two payees of one block have a
quorum; the address tables agree; a node that is behind catches up, and the
synchronisation of masternodes ends.

## 2. Modules

`UtxoStore` is the abstract specification of the coin views: a transactional
map with one scratch copy, publication together with a block, persistence and
recovery.

`CoinsView` is the code: `db`/`dbBest` (LevelDB), `tip`/`tipBest`
(`pcoinsTip`), `view` (the scratch cache). `ViewFetch`, `ViewModify`,
`FlushView`, `TipFetch` and `FlushTip` are `FetchCoins`, `ModifyCoins` with
`~CCoinsModifier`, `CCoinsViewCache::BatchWrite` and `CCoinsViewDB::BatchWrite`.
`FlushTipFails` (only in `SpecWithWriteFailure`) is a LevelDB write that throws:
the map has been emptied by then. A `CCoins` is unspent (a member of `Coins`) or
`Pruned`; the caches look no deeper. `CoinsAt[b]`, what a complete block leaves,
is a constant here; that `ConnectBlock` and `DisconnectBlock` compute it is the
subject of `BlockUndo`.

`ChainState` is the block index and chain activation. A call that touches the
disk on its way is a *job* of several steps, between which only a crash can
happen; calls are otherwise atomic, as `cs_main` makes them. The two writes of
`FlushStateToDisk` are two steps. `pending` says that some thread is in, or
about to enter, `ActivateBestChain`. Validity is a constant verdict for each
block, except that `Contested` blocks may be accepted or refused at each try:
that is what masternode payments and sporks, known at that moment, do. The
order of pointers, which breaks ties after a reload, is chosen anew at every
start from `AddressOrders`.

`BlockUndo` is `ConnectBlock` and `DisconnectBlock`, one transaction a step,
with undo data, `mapStakeSpent`, `VerifyDB` and the stake check of
`ProcessNewBlock`. `undo` is keyed by outpoint, as `DisconnectBlock` pairs it
with `vin`. `top`, the greatest height connected since the start, is a history
variable used in one property.

`CheckQueue` is `CCheckQueue` and `CCheckQueueControl`. Threads are at a place
in `Loop`; "locked" is between acquiring the mutex and releasing it in the wait
or at the end of the block. `SpuriousWake` and `Interrupt` are what
`boost::condition_variable::wait` may do.

`Mempool` is `CTxMemPool` and the orphan maps. `AcceptToMemoryPool` gives a
verdict; fees and policy, which may refuse anything, are the set `Refusable`.
Connecting a block removes its transactions and their conflicts; disconnecting
one puts its transactions back, one after the other, each of which may be
refused and then takes its descendants along; the `tx` handler resolves orphans
step by step (`work` is its queue, and `work.accepted`, a history variable, all
that it has let in). `chain` is the list of blocks, so that
coins, maturity and resubmission are computed, not assumed.

`SwiftTX` is `swifttx.cpp` with the places that obey it. None of its maps has a
lock, and three threads use them: the message handler (`handling` is where it
is), the wallet's and RPC threads (`sending`), and the obfuscation thread, which
cleans up (`cleaning`). A step is one use of one map: `ConsensusVote`,
`AddSignature`, `ResolveConflict`, `LockInput` for each input and `VoteDone` are
the handler of one vote, `CleanTransactionLocksList`, `CleanInput` for each
input, `CleanRequest`, `CleanRejected`, `CleanVotes` and `CleanLock` the clean-up
of one lock, and they come in any order between each other. Two uses are one step
only where nothing can tell (the comments say why). `stray`, a history variable,
are the inputs that the handler of a vote has locked while the clean-up of that
same transaction was running: the property that every lock expires is false of
them (`MCSwiftTXCleanup`). Time is an expiry that is "now", "later" or over.
`operator[]` on a missing request gives the empty transaction, as in the code.
`PlainTx` may also come without a request, or in a block.

`MasternodeSync` is `CMasternodeSync`. One call of `Process` is up to three
steps; clocks are flags (`timedOut`, `retryDue`, `lastList`); a request is
remembered in the `CNode` of the peer (`fulfilled`) and, for list and winners,
by address (`askedList`, `askedWinners`). Answers are actions nobody is obliged
to take: a peer may send nothing, votes without a count, or a count.

`MasternodePayments` has the votes of several nodes. Votes once sent can reach
any node at any time, repeatedly or never, singly, in a pack that goes round or
in the answer to `mnget`; ranks are a constant, the order of the payment queue a
choice. `outdated` are the masternodes whose key a node does not know yet. A
restarted node has nothing, and one restarted masternode may vote twice.

`AddrMan` is `CAddrMan` with its two tables, reference counts, ids, and
peers.dat. The hashes that choose buckets are constants; whether an address is
terrible is a choice; there are finitely many addresses.

`BlockSync` is the download of blocks by `getblocks`, `inv`, `getdata` and
`block` (headers-first download is switched off, `chainparams.cpp:178`). One
chain, several peers, a queue of messages each way, batches of `Limit`; `Silent`
peers never answer and are disconnected in the end.

`MC*` modules give the instances; `CoinsViewProofs`, `CheckQueueProofs`,
`ChainStateProofs`, `BlockUndoProofs`, `MempoolProofs`, `SwiftTXProofs`,
`MasternodePaymentsProofs` and `AddrManProofs` hold the proofs. The modules are not composed into one: `CoinsView` and `BlockUndo`
meet at `CoinsAt`, `BlockUndo` and `ChainState` at "which child of the tip is
connected next" (any, in `BlockUndo`), `CheckQueue` and `BlockUndo` at the
verdict on a block. `Mempool` has the chain as a stack of blocks, which is what
`DisconnectTip` and `ConnectTip` make of it; the verdict of `MasternodePayments`
on a block is `Contested` in `ChainState`; the `mnget` of `MasternodePayments` is
the stage "mnw" of `MasternodeSync`.

## 3. Runs

| Run | Instance | Checks |
|---|---|---|
| `coins_view` | 3 txids, 2 unspent states, 5 blocks | type, flags, the assert in `BatchWrite`, what a view shows, the database matches its best block, refinement of `UtxoStore` |
| `chain_network` | two branches after genesis, one with an invalid block in the middle; headers first; one crash | blocks linked exactly when their ancestors are there, active chain checked, best chain active, restart possible, activation ends |
| `chain_invalidate` | a fork after the first block, two `invalidateblock`, an invalid block | candidates complete, failures have a cause |
| `chain_operations` | a bad, a contested and a checkpointed block; one of invalidate, reconsider and reprocess; one crash | no candidate worse than the tip, types, disk consistent |
| `check_queue` | 2 workers, up to 4 checks, 1 bad, batches of 2 | type, assert, nothing outlives the control, verdict right, `Wait` returns |
| `block_undo` | chain of 5, fork of 2, a double spend, a repeated transaction, an immature spend; verification and restart | coins exact (with types, disconnecting clean), chain valid, fork stakes admitted |
| `mempool` | 11 transactions, one of them invalid, two double spends, 9 possible blocks, 3 orphans, 2 peers | pool consistent, assert when disconnecting, orphan maps agree, no orphan left that waited for anything the handler let in |
| `swifttx` | 2 conflicting transactions, one of which the wallet sends too, 3 masternodes, one of them the node's own, 2 heights, 2 votes needed, 4 messages, 1 block | quorum behind every complete lock, inputs locked by a quorum or a refused request, cancelled locks released; with the clean-up between any two steps |
| `mnsync` | 3 peers, one too old, threshold 2 | type, the first synchronisation ends, or everybody was asked and nobody answers |
| `mnpayments` | 2 nodes, 2 masternodes, 2 payees (one of them at two levels), 2 votes needed, up to 3 votes, 1 restart | votes counted, one quorum, own block accepted |
| `addrman` | 3 addresses, 2 sources, 2 new buckets and 1 tried bucket of 2 places | tables consistent, reload exact, tried address not lost |
| `blocksync` | 3 peers, one silent, 5 blocks and a sixth, batches of 3, 1 lost connection | type, the node catches up |

Bounds and why they are enough. Three txids and two unspent states give every
combination of flags in two caches, including partly spent coins. Trees of five
blocks with two branches have ties, reorganisations, failed reorganisations,
the way back, and a failure with descendants on two branches; `MaxCalls`,
`MaxDisconnect` and `MaxRestarts` bound what operators and crashes do, never
what peers do. `chain_operations` has one order of pointers, the other chain runs
have two. Two workers and four checks let the master and both workers hold
checks at once while some are queued. In `block_undo` one transaction spends two
outputs of another in the wrong order, one spends an output of its own block,
two blocks spend from one transaction, `Maturity` is 2 and `MaxReorg` 3, so that
both limits are met exactly. In `mempool` a chain of three dependent
transactions, a spend of a young coinbase, and double spends of a confirmed coin
and of an output of the pool go through blocks that confirm them in several ways; four blocks are enough for a reorganisation
of two on a mature coin. In `swifttx` the transactions share one input of two,
so that a cancelled lock has an input of its own and a common one; a masternode
ranked at one height and not at the other gives votes that do not count. Four
messages are two requests and the two votes of a quorum, or a quorum for one
lock, the clean-up, and a late vote that is handled while it runs.
`MaxMessages`, `MaxSent`, `MaxEvents` and `MaxRestarts` bound what comes from
outside. In `mnpayments` a vote for the second block needs a first block and is
forgotten after two more (`Keep`), so every list is also emptied. In `addrman`
all addresses collide in one place or another. In `blocksync` the chain is
longer than one batch and shorter than two, so `hashContinue` is used once and
the last batch is a short one. A third batch is out of reach of the run's time:
batches of two would be shorter than the last blocks the node may miss
(`RecentAssumption`), and three batches of three have millions of states.

Deadlock is checked except in `chain_invalidate` and `chain_operations`, where
a node all of whose blocks have failed may rest once the calls are used up, and
in `swifttx`, `mempool`, `mnsync`, `blocksync` and `mnpayments`, where the node
rests when there are no more messages, or when it is synchronised.

Fairness. `ChainState` assumes `WF_vars(Proceed)`: the thread that holds
`cs_main`, or waits for it in `ActivateBestChain`, goes on; nothing is assumed
of peers, operators or timers. `CheckQueue` assumes weak fairness of each
thread's steps inside `Loop`, which is what a fair scheduler and a mutex held
only for moments give, and that an exception reaches the destructor; workers
need not start and may die. `WaitReturns` excepts behaviours in which condition
variables wake threads for no reason for ever. `SwiftTX` assumes that time
passes and that the obfuscation thread, which calls `CleanTransactionLocksList`
once a minute, goes on from each of its steps to the next. `MasternodeSync`
assumes that `Process`, a timer, is called and finds `cs_vNodes` free now and
then, that clocks run and that the chain catches up. It assumes nothing of the
peers: asked for the winners, one on the active protocol sends the votes it has
and no count, and nothing if `cs_main` is taken (`masternode-payments.cpp:793-846`),
so `SyncFinishes` says that the synchronisation ends or that a stage in which
every peer was asked never gets an answer. Only `SpecAnswered`, for
`MCMasternodeSyncAgain`, adds that broadcasts and votes come, as on a live
network: that counterexample does not rest on silence. `BlockSync`
assumes that the message threads of the node and of peers that are not `Silent`
go on, that silent peers are found out (`InactivityCheck`), and that
`ThreadOpenConnections` connects again; losing a connection is never assumed.

### Where the code does something else

Further configurations, not among the runs, each with one property that a
comment or a message of the code states and the code does not keep
(`tlc -config X.cfg M`); TLC finds the violation in seconds. `PROJECT.json`
quotes the lines.

| Configuration | Module | Violated | What happens |
|---|---|---|---|
| `MCCoinsViewLostCoins` | `MCCoinsView` | `DbMatchesBestBlock` | `CCoinsViewDB::BatchWrite` empties the cache before LevelDB has taken the batch; after a failed write the flush at shutdown writes the best block without its coins |
| `MCChainRestart` | `MCChainState` | `RestartPossible` | a crash inside `InvalidateBlock` leaves the tip of the coin database marked failed, with nothing as good beside it, and the assert at `main.cpp:2772` fires at every start |
| `MCChainReconsider` | `MCChainState` | `FailuresHaveCause` | `ReconsiderBlock` clears ancestors, but not their other descendants, which keep a failure flag without a cause |
| `MCChainStuck` | `MCChainState` | `BestChainActive` | a failed reorganisation whose way back is refused as well ends with success and without the best chain |
| `MCBlockUndoEmptyOutput` | `MCBlockUndo` | `CoinsExact` | `DisconnectBlock` does not restore `fCoinStake` when the empty first output of a coinstake was spent too, which wallets do not do and consensus allows |
| `MCBlockUndoVerify` | `MCBlockUndo` | `ForkStakeAdmitted` | `VerifyDB`, disconnecting in memory, changes the global `mapStakeSpent`; level 4 repairs it, the default level 3 of the RPC does not |
| `MCBlockUndoTwoInputs` | `MCBlockUndo` | `ForkStakeAdmitted` | of a coinstake with two inputs only the first is looked up in `mapStakeSpent` |
| `MCBlockUndoLongFork` | `MCBlockUndo` | `RecentStakeAdmitted` | the depth of a fork is measured at its last block: the last block of a fork that left the active chain longer ago than `MaxReorg` is let through, but a stake the active chain spent early in the fork is forgotten |
| `MCSwiftTXFilter` | `MCSwiftTX` | `OnlyCompleteLocksBlock` | the inputs of a refused request are locked, never expire, and make `CheckBlock` refuse blocks |
| `MCSwiftTXCleanup` | `MCSwiftTX` | `LockedInputsExpire` | a late vote locks inputs that the clean-up has just released, or has found nothing to release of, and the clean-up goes on to remove the request and the lock: nothing is left that expires |
| `MCMasternodeSyncSilent` | `MCMasternodeSync` | `SyncTimesOut` | the timeout of a stage is looked at only for a peer not asked yet: when all were asked in time and none answers, the stage never ends |
| `MCMasternodeSyncAgain` | `MCMasternodeSync` | `ResyncFinishes` | a synchronisation after a reset waits for ever if `cs_vNodes` was taken at the wrong moment and there are few peers; `getgm` is never cleared |
| `MCBlockSyncBehind` | `MCBlockSync` | `CatchesUpAlways` | with one peer, a block that came before its parent is dropped and never announced again; the node stays behind until the chain grows |
| `MCPaymentsSync` | `MCMasternodePayments` | `SyncTellsPayments` | `Sync` sends one vote for each payee of a past block, `GetLastPaid` wants six: a node that was restarted takes paid masternodes for unpaid |
| `MCPaymentsOrder` | `MCMasternodePayments` | `RefusedHasVoted` | `CanVote` remembers votes before it checks them and wants increasing heights: votes out of order, or before a new key, are lost |

## 4. Proofs

All theorems are for arbitrary constants that satisfy the named assumptions of
the modules; TLC evaluates these on every run. Bounds such as `MaxRestarts` are
constants too, so a theorem holds for every bound.

Most modules of proofs begin with the induction they need: complete induction and
induction up to a bound over sets of naturals, and that a function defined from
one index to the next exists (`FiniteRecursion`). With them the loops and recursive
functions of the models (ancestors of a block, the loop over a block's
transactions, over the votes of a pack, over the levels of a payment, over the
records of peers.dat) are proved about for every length.

`CoinsViewProofs`. Two inductive invariants. `CacheInv` is `TypeOK`,
`FlagsSound`, `PulledThroughTip` and `ViewAsIntended`: neither of the first
three is inductive alone, since merging a view is sound only if its FRESH
entries have nothing below them (`FlagsSound`) and its other entries are still
in `pcoinsTip` (`PulledThroughTip`). It survives failed writes, so it is proved
for `SpecWithWriteFailure`: `FlagsAlwaysSound`, `ViewsFaithful`,
`AssertNeverFires`. `Inv` adds the two best-block properties, which a failed
write breaks, and gives `TypeCorrect` and `ConsistentAtBestBlock` for `Spec`.
`CachesTransparent` proves that every step of `CoinsView` is a step of
`UtxoStore` or a stutter.

`CheckQueueProofs`. One inductive invariant `Inv`: the mutex excludes and
batches belong to working threads (`Exclusion`), no check is in two places,
`nTodo` is the number of outstanding checks, the difference of `nTotal` and
`nIdle` counts the running threads even after interruptions
(`IdleAccounting`), what `fAllOk` says of the checks completed so far
(`ProgressSound`), and what is left after a block. It gives `TypeCorrect`,
`WaitIsRight`, `ChecksContained` and `ConstructorSafe`, for any number of
workers and checks.

`ChainStateProofs`. Any finite tree of blocks. `Inv` holds whatever operators,
peers and crashes do: what the call that holds `cs_main` knows (`JobOK`,
`PhaseOK`: between the halves of a flush the coins are one block away from the
tip), the index closed under parents (`IndexOK`), `LinksOK`, the relation of
memory and disk (`DiskOK`: only blocks of the active chain lack their script flag
on disk), and no candidate worse than the tip even while `cs_main` is held. It
gives `SpecLinksExact`, `SpecCandidatesGoodEnough` and `SpecDiskConsistent`. The
others hold on a node that does less, and their hypotheses are the limits that
the counterexamples of section 3 show:

| Theorem | Holds if | Counterexample without |
|---|---|---|
| `SpecActiveChainChecked` | the node does not both invalidate blocks and crash | `MCChainRestart` |
| `SpecRestartPossible` | nobody invalidates blocks | `MCChainRestart` |
| `SpecFailuresHaveCause` | nothing is reconsidered, no checkpoints are met | `MCChainReconsider` |
| `SpecBestChainActive`, `SpecCandidatesComplete` | all of these but the second, and verdicts do not change | `MCChainStuck` |

`Clean` says which blocks of the active chain can be failed while `InvalidateBlock`
disconnects them, `Cause` that failures have a cause on disk as well. `Best` is
the argument for the best chain: while a reorganisation is under way the tip may
be worse than blocks that are no candidates any more, but there is always a
*witness*, a candidate that was connected before, to which the node can return
and above which the candidates are complete.

`BlockUndoProofs`. Any tree of blocks of any length and any transactions, given
that every block descends from the genesis block and that blocks with the same
coinbase have the same height (`HeightAssumption`; `ContextualCheckBlock` wants
the height in the coinbase). Without the latter a coinbase could overwrite an
earlier one that is not spent yet. `CoinsTo(b, k)` are the coins that the definition of
unspent gives after the first k transactions of b, `Connectable` and `Valid` what
the checks of `ConnectBlock` come to on such coins. Two lemmas carry the proof:
`ConnectStep`, `UpdateCoins` goes from `CoinsTo(b, k - 1)` to `CoinsTo(b, k)`, and
`DisconnectStep`, the loop of `DisconnectBlock` goes back and finds nothing wrong,
whichever inputs spend the last outputs of whichever transactions. `Inv` then says
that a block that was ever connected is valid and has the undo data that `CoinsTo`
determines, as have its ancestors (`BlocksOK`), and that the view of the job is
`CoinsTo` of its block and position (`CoinsOK`, `JobOK`). `StakeOK` says where the
entries of `mapStakeSpent` are: with the view while blocks are disconnected, a
block behind while they are connected, and after a restart nowhere until
`VerifyDB` has gone back far enough.

| Theorem | Holds if | Counterexample without |
|---|---|---|
| `SpecCoinsExact`, `SpecChainValid` | no coinstake is spent completely | `MCBlockUndoEmptyOutput` |
| `SpecForkStakeAdmitted` | moreover coinstakes have one input, and `VerifyDB` runs at level 4, after a restart as deep as `MaxReorg` (the defaults of `AppInit2`) | `MCBlockUndoTwoInputs`, `MCBlockUndoVerify` |

The attempt at the last one showed that `ForkStakeAdmitted` was too strong for
forks longer than those of the instance: it asked for the depth of the block,
where it is the depth of the fork that counts (`MCBlockUndoLongFork`).

`MempoolProofs`. Any transactions and blocks, given that loose transactions have
inputs and the genesis block spends nothing (`InputsAssumption`). `ChainInv`: no
transaction is in two blocks, and what is spent was created before; `PoolInv`:
`mapNextTx` is the inverse of the inputs of the pool, each input is made by the
pool or a mature unspent coin, and nothing of the pool is in the chain;
`OrphanInv`: the orphan maps agree; `WorkInv`: what the `tx` handler has in its
queue it has let in, and every orphan that waits for anything it has let in, the
transaction it was called with or an orphan taken on the way, is still to be
looked at or was looked at in vain. The main lemmas are that removing
a transaction with its family leaves a closed pool, and that the loop of
`DisconnectTip` keeps the pool backed after every transaction, refused or not. It
gives `SpecPoolConsistent`, `SpecDisconnectAssertHolds`, `SpecOrphanIndexExact`
and `SpecOrphansResolved`. The attempt at the last one showed that an orphan can
stay behind that is in conflict with the pool: tried in vain while a parent was
missing, and overtaken by a double spend of one of its inputs before the handler
came back to it. `OrphansResolved` names that case, and the run has it.

`SwiftTXProofs`. Votes of a lock come from different masternodes and are
remembered in `mapTxLockVote`, which is why none is counted twice, and the owner
of a locked input has its request, so that the clean-up which drops the lock
releases the input (`VotesOnce`, `OwnersRequested`). Since the clean-up may take a
step between any two of the handler, the invariant also says what each of them
knows in the middle: the vote about to be added is remembered and not in the lock
(`NewVote`), a handler about to lock inputs has found a quorum and a request that
are still there unless the clean-up of that transaction has begun (`QuorumFound`,
`NotRaced`), and the clean-up still has to release whatever is locked for its
transaction (`Releasing`), whose lock stays until then (`CleaningLock`). It gives
`SpecQuorumBehindLock`, but for a lock whose votes are forgotten and which is
about to be removed (`BeingRemoved`, `swifttx.cpp:451-454`), and
`SpecLockedByQuorumOrRefused`, but for the inputs in `stray`. Both exceptions are
states that the code reaches; the second is `MCSwiftTXCleanup`.

`MasternodePaymentsProofs`. The invariant says of every node that its tables are
consistent (`Tally`: each payee once in a block, counted as often as there are
votes) and hold only votes that were sent by ranked masternodes. It gives
`SpecVotesCounted`, `SpecOwnBlockAccepted` and `SpecOneQuorum`: two sets of
`Required` among `Total` ranked masternodes have `2 * Required - Total` in common,
and who is in both has voted twice.

`AddrManProofs`. `Sound(m, k)` says of tables `m` that `vRandom` and the positions
of the entries are inverse, that `mapAddr` has every entry under its address,
that an entry is where its hash puts it and counted as often as it has places,
that a tried entry has no place among the new, and that `nNew` and `nTried` count
all entries but `k`. Inside `MakeTried` an entry is not counted for a moment, inside
`Add_` and `Unserialize` entries may have no place yet. Each helper keeps it (`Create`, `SwapRandom`, `Delete`, `ClearNew`,
`PutNew`, `PutTried`, `Evict`), so each operation returns tables with `Sound(m, 0)`
and no entry without a place. The invariant `Inv` says this of `addrman`, and of
the file that it has no address twice. It gives `TablesAlwaysConsistent` and, with
what every operation keeps, `TriedNeverLost`. For `ReloadAlwaysExact` the file is
described by the order of ids (`Below`, `Nth`), and the four loops of `Unserialize`
each by an invariant: the new records, the tried records with those that lose
their place, the places of the buckets, and the entries that are left without
one. When the file was written from consistent tables no tried record collides
and no entry is left.

Only model-checked: the types of `MasternodeSync` and `BlockSync`, modules that are
about progress. For good, since the prover does not handle liveness under
fairness: `ActivationEnds`, `WaitReturns`, `CancelReleases`, `SyncFinishes` and
`CatchesUp`.

## 5. What is not modelled

* `ChainState`: `pindexBestInvalid`, `pindexBestHeader` and fork warnings; the
  `fMissingData` branch, dead without pruning; failures with
  `CorruptionPossible`; system errors, which end in a shutdown (`Restart`);
  `DisconnectBlockAndInputs`, which nobody calls; the limit of 32 blocks a
  round; wallet and memory pool signals. `mapRejectedBlocks` is read once.
  `invalidateblock` of the genesis block, which the code does not refuse: it has
  no undo data, so that `DisconnectTip` fails on it.
* `BlockUndo`: amounts, scripts, signature operations, payees; `fJustCheck`;
  versions; stake age; the memory limit that ends level 3 early; the rollback of
  the tip by a crash, which `CoinsView` and `ChainState` cover; a failed
  verification, which keeps the node from starting.
* `CheckQueue`: `fQuit`, which nothing sets; the order of the queue.
* `Mempool`: fees, priorities and the fee estimator (a refusal is a choice); the
  order in which `removeConflicts` reports; `prioritisetransaction`.
* `SwiftTX`: signatures, and the limit on votes for unknown transactions, which
  only bans peers. What is finer than one use of a map: two threads inside the
  same `std::map`, an entry that goes between `count` and `operator[]` of it, an
  iterator or reference to an entry that was erased (undefined behaviour; the
  model reads it as what it held). A loop over `vin` against the locked inputs
  in `AcceptToMemoryPool`, `CheckBlock`, `CheckForConflictingLocks` and
  `ReprocessBlocks` is one step.
* `MasternodeSync`: the regtest branch; the budget stage, which is never entered.
* `MasternodePayments`: the development fee and amounts beyond their order; the
  branch of `Sync` for old protocols; ranks (a constant: the list is assumed to
  agree between nodes); the payment queue (a choice).
* `AddrMan`: `Attempt_`, `Connected_` and `Select_`, which change no table; the
  times `nLastTry` and `nLastSuccess`, with what `Check_` says of them; the old
  formats of peers.dat.
* `BlockSync`: headers-first download, which is switched off; forks (one chain);
  `mapAskFor`, whose delays are time only.
* The masternode list: what is in it is thresholds of the clock over pings, each
  node judging by its own time; a model would restate guards. Met on reading:
  `AskForMN` adds to the time in the condition of a `?:` and so never waits before
  it asks again (`masternodeman.cpp:254`); `CheckAndRemove` reads the iterator
  after it has moved on from the erased broadcast (`masternodeman.cpp:366`);
  `MASTERNODE_SYNC_FAILED` is greater than `MASTERNODE_SYNC_LIST` and so counts as
  a synchronised list (`masternode-sync.h:64`).
* The mixing pool, which is off by default; wallet, miner, network sockets, RPC,
  GUI: input and output, or a project of their own; scripts and cryptography,
  which are pure computation, and most of them vendored. They are most of the
  repository's lines.

## 6. Plan

Done: `UtxoStore`, `CoinsView`, `ChainState`, `BlockUndo`, `CheckQueue`, `Mempool`,
`SwiftTX`, `MasternodePayments` and `AddrMan`, with proofs; `MasternodeSync` and
`BlockSync`, with runs.

Next:

1. Weaker hypotheses for the conditional theorems of `ChainStateProofs` where the
   counterexamples leave room.
2. The types of `BlockSync` and `MasternodeSync`.
