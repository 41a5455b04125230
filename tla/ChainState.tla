------------------------------ MODULE ChainState ------------------------------
(***************************************************************************)
(* The block index and the active chain of main.cpp: mapBlockIndex,        *)
(* setBlockIndexCandidates, mapBlocksUnlinked, chainActive, and what of it *)
(* is on disk.  Threads (message handler, RPC, staking, sporks) take       *)
(* cs_main for one call at a time; a call that touches the disk on its way *)
(* is a job of several steps, between which only a crash can happen.       *)
(*                                                                         *)
(* A block is its place in the tree: Parent, Work and the verdicts of the  *)
(* contextual and connection checks are constants.  A CBlockIndex is a set *)
(* of block properties, kept field by field.                               *)
(***************************************************************************)
EXTENDS Integers, FiniteSets

CONSTANTS
    Blocks,         \* the blocks that may be received
    Genesis,        \* the genesis block
    None,           \* a null CBlockIndex*
    Parent,         \* Parent[b]: hashPrevBlock
    Work,           \* Work[b]: nChainWork
    BadContext,     \* blocks that ContextualCheckBlock refuses
    Invalid,        \* blocks that ConnectBlock always refuses
    Contested,      \* blocks that ConnectBlock accepts or not, as masternode
                    \* payments and sporks known at that moment decide
    Checkpointed,   \* blocks that match a checkpoint
    AddressOrders,  \* the orders of CBlockIndex* a run of the program may see
    HeadersFirst,   \* Params().HeadersFirstSyncingActive()
    Operations,     \* which of "invalidate", "reconsider" and "reprocess" occur
    MaxCalls,       \* bound on how often they occur
    MaxDisconnect,  \* bound on the blocks one ReprocessBlocks disconnects
    MaxRestarts     \* bound on crashes

ASSUME TreeAssumption ==
    /\ IsFiniteSet(Blocks)
    /\ Genesis \in Blocks
    /\ None \notin Blocks
    /\ Parent \in [Blocks \ {Genesis} -> Blocks]
    /\ Work \in [Blocks -> Nat]
    /\ \A b \in Blocks \ {Genesis} : Work[Parent[b]] < Work[b]

ASSUME VerdictAssumption ==
    /\ BadContext \cup Invalid \cup Contested \cup Checkpointed \subseteq Blocks
    /\ AddressOrders \subseteq [Blocks -> Nat]
    /\ AddressOrders # {}
    /\ \A ad \in AddressOrders : \A a, b \in Blocks : ad[a] = ad[b] => a = b
    /\ HeadersFirst \in BOOLEAN
    /\ Operations \subseteq {"invalidate", "reconsider", "reprocess"}
    /\ MaxCalls \in Nat /\ MaxDisconnect \in Nat /\ MaxRestarts \in Nat

Fields == {"known",         \* has an entry in mapBlockIndex
           "data",          \* BLOCK_HAVE_DATA, and so BLOCK_VALID_TRANSACTIONS
           "scripts",       \* BLOCK_VALID_SCRIPTS, and so BLOCK_HAVE_UNDO
           "failedValid",   \* BLOCK_FAILED_VALID
           "failedChild"}   \* BLOCK_FAILED_CHILD

VARIABLES
    index,          \* mapBlockIndex, one set of blocks for each field
    linked,         \* blocks with nChainTx # 0
    seq,            \* nSequenceId
    nextSeq,        \* nBlockSequenceId
    addr,           \* the address of each CBlockIndex
    candidates,     \* setBlockIndexCandidates
    unlinked,       \* mapBlocksUnlinked: b stands for the pair Parent[b] -> b
    dirty,          \* setDirtyBlockIndex
    tip,            \* chainActive.Tip()
    coinsTip,       \* pcoinsTip->GetBestBlock()
    diskIndex,      \* the block index database
    diskBest,       \* the best block of the coin database
    job,            \* the call that holds cs_main between two steps
    pending,        \* some thread is in, or about to enter, ActivateBestChain
    reprocessing,   \* what a thread in ReprocessBlocks will reconsider, and
                    \* how many tips it will then disconnect
    calls, restarts \* what is used up of MaxCalls and MaxRestarts

treeVars == <<index, linked, seq, nextSeq, addr, candidates, unlinked, dirty>>
diskVars == <<diskIndex, diskBest>>
vars == <<treeVars, tip, coinsTip, diskVars, job, pending, reprocessing, calls, restarts>>

-----------------------------------------------------------------------------
(* The tree. *)

\* b and the blocks before it.
Ancestors[b \in Blocks] ==
    IF b = Genesis THEN {b} ELSE {b} \cup Ancestors[Parent[b]]

\* The blocks of b's chain that are not in chainActive.
Branch(b) == Ancestors[b] \ Ancestors[tip]

\* CBlockIndexWorkComparator: a sorts before, and is worse than, b when the
\* sequence numbers are sq and the addresses ad.
WorseIn(sq, ad, a, b) ==
    \/ Work[a] < Work[b]
    \/ Work[a] = Work[b] /\ sq[a] > sq[b]
    \/ Work[a] = Work[b] /\ sq[a] = sq[b] /\ ad[a] > ad[b]

Worse(a, b) == WorseIn(seq, addr, a, b)

Failed(idx) == idx["failedValid"] \cup idx["failedChild"]

\* CBlockIndex::IsValid(BLOCK_VALID_TRANSACTIONS)
IsValid(idx, b) == b \in idx["data"] \ Failed(idx)

\* Index idx with the blocks of S added to, or taken out of, some fields.
Add(idx, field, S) == [idx EXCEPT ![field] = @ \cup S]
Drop(idx, field, S) == [idx EXCEPT ![field] = @ \ S]

\* Mutant: a record that is on disk already is not overwritten.
MutWriteRecordsOnce(old, idx, S) ==
    [f \in Fields |-> old[f] \cup (idx[f] \cap (S \ old["known"]))]

\* The records of the blocks of S, as they are in idx, replace those of old.
WriteRecords(old, idx, S) ==
    [f \in Fields |-> (old[f] \ S) \cup (idx[f] \cap S)]

Idle == [op |-> "idle", target |-> None, from |-> None, left |-> 0, phase |-> "run"]

NotReprocessing == [rejected |-> {}, tips |-> 0]

-----------------------------------------------------------------------------
\* A data directory that InitBlockIndex has just set up.
Init ==
    /\ index = [f \in Fields |-> IF f \in {"known", "data"} THEN {Genesis} ELSE {}]
    /\ linked = {Genesis}
    /\ seq = [b \in Blocks |-> IF b = Genesis THEN 1 ELSE 0]
    /\ nextSeq = 2
    /\ addr \in AddressOrders
    /\ candidates = {Genesis}
    /\ unlinked = {}
    /\ dirty = {}
    /\ tip = Genesis
    /\ coinsTip = Genesis
    /\ diskIndex = index
    /\ diskBest = Genesis
    /\ job = Idle
    /\ pending = FALSE
    /\ reprocessing = NotReprocessing
    /\ calls = 0
    /\ restarts = 0

(* ------------------------- Receiving blocks ---------------------------- *)

\* AddToBlockIndex
AddToBlockIndex(b) == Add(index, "known", {b})

\* The checks of AcceptBlockHeader on a header whose parent is known.
HeaderAcceptable(b) ==
    IF b \in index["known"] THEN b \notin Failed(index)
                            ELSE Parent[b] \notin Failed(index)

\* The "headers" message: AcceptBlockHeader on one header.
AcceptBlockHeader(b) ==
    /\ job = Idle
    /\ HeadersFirst
    /\ b \notin index["known"]
    /\ Parent[b] \in index["known"]
    /\ HeaderAcceptable(b)
    /\ index' = AddToBlockIndex(b)
    /\ dirty' = dirty \cup {b}
    /\ UNCHANGED <<linked, seq, nextSeq, addr, candidates, unlinked, tip, coinsTip,
                   diskVars, job, pending, reprocessing, calls, restarts>>

\* Mutant: mapBlocksUnlinked is not walked.
MutLinkedByAlone(b) == {b}

\* The queue of ReceivedBlockTransactions: b, and every block that waits in
\* mapBlocksUnlinked for b or for another block of the queue.
LinkedBy(b) ==
    {b} \cup {d \in unlinked : /\ b \in Ancestors[d]
                               /\ Ancestors[d] \ Ancestors[b] \subseteq unlinked}

\* The ways to number the blocks of S from nextSeq on, parents first.
Numberings(S) ==
    {f \in [S -> nextSeq .. nextSeq + Cardinality(S) - 1] :
        \A a, b \in S : a # b => /\ f[a] # f[b]
                                 /\ a \in Ancestors[b] => f[a] < f[b]}

\* ReceivedBlockTransactions, for block b whose data has been stored and
\* whose parent is not failed (AcceptBlock has checked).
ReceivedBlockTransactions(b) ==
    IF Parent[b] \in linked
    THEN \E f \in Numberings(LinkedBy(b)) :
            LET sq == [d \in Blocks |-> IF d \in LinkedBy(b) THEN f[d] ELSE seq[d]]
            IN  /\ seq' = sq
                /\ nextSeq' = nextSeq + Cardinality(LinkedBy(b))
                /\ linked' = linked \cup LinkedBy(b)
                /\ unlinked' = unlinked \ LinkedBy(b)
                /\ candidates' = candidates \cup
                      {d \in LinkedBy(b) : ~WorseIn(sq, addr, d, tip)}
    ELSE /\ unlinked' = unlinked \cup {b}
         /\ UNCHANGED <<linked, seq, nextSeq, candidates>>

\* AcceptBlock stores a block.
AcceptBlock(b) ==
    /\ job = Idle
    /\ Parent[b] \in index["known"]
    /\ Parent[b] \notin Failed(index)
    /\ HeaderAcceptable(b)
    /\ b \notin index["data"]
    /\ b \notin BadContext
    /\ index' = Add(AddToBlockIndex(b), "data", {b})
    /\ dirty' = dirty \cup {b}
    /\ ReceivedBlockTransactions(b)
    /\ pending' = TRUE
    /\ UNCHANGED <<addr, tip, coinsTip, diskVars, job, reprocessing, calls, restarts>>

\* AcceptBlock has the block already: ActivateBestChain runs all the same.
AcceptKnownBlock(b) ==
    /\ job = Idle
    /\ b \in index["data"] \ Failed(index)
    /\ Parent[b] \notin Failed(index)
    /\ pending' = TRUE
    /\ UNCHANGED <<treeVars, tip, coinsTip, diskVars, job, reprocessing, calls, restarts>>

\* AcceptBlock, when ContextualCheckBlock refuses the block.
RejectBlock(b) ==
    /\ job = Idle
    /\ Parent[b] \in index["known"]
    /\ Parent[b] \notin Failed(index)
    /\ HeaderAcceptable(b)
    /\ b \notin index["data"]
    /\ b \in BadContext
    /\ index' = Add(AddToBlockIndex(b), "failedValid", {b})
    /\ dirty' = dirty \cup {b}
    /\ UNCHANGED <<linked, seq, nextSeq, addr, candidates, unlinked, tip, coinsTip,
                   diskVars, job, pending, reprocessing, calls, restarts>>

(* ------------------- Invalidating and reconsidering -------------------- *)

\* The descendants of b that the first loop of ReconsiderBlock touches.
Reconsidered(b) ==
    {d \in index["known"] : b \in Ancestors[d] /\ ~IsValid(index, d)}

\* ReconsiderBlock
ReconsiderBlock(b) ==
    LET cleared == Reconsidered(b) \cup (Ancestors[b] \cap Failed(index))
    IN  /\ index' = Drop(Drop(index, "failedValid", cleared), "failedChild", cleared)
        /\ dirty' = dirty \cup cleared
        /\ candidates' = candidates \cup
              {d \in Reconsidered(b) \cap index["data"] \cap linked : Worse(tip, d)}
        /\ UNCHANGED <<linked, seq, nextSeq, addr, unlinked>>

\* The RPC reconsiderblock.
RpcReconsiderBlock(b) ==
    /\ job = Idle
    /\ calls < MaxCalls /\ "reconsider" \in Operations
    /\ b \in index["known"]
    /\ ReconsiderBlock(b)
    /\ calls' = calls + 1
    /\ pending' = TRUE
    /\ UNCHANGED <<tip, coinsTip, diskVars, job, reprocessing, restarts>>

\* AcceptBlock on a child of a failed block that matches a checkpoint.  It
\* then runs ActivateBestChain, still holding cs_main, and returns without
\* accepting the child; here the activation is a later step (pending),
\* before which other threads may run.
ReconsiderCheckpoint(b) ==
    /\ job = Idle
    /\ Parent[b] \in Failed(index) \cap Checkpointed
    /\ ReconsiderBlock(Parent[b])
    /\ pending' = TRUE
    /\ UNCHANGED <<tip, coinsTip, diskVars, job, reprocessing, calls, restarts>>

\* The RPC invalidateblock, up to the loop of InvalidateBlock.
\* (The genesis block, which it does not refuse, is left out: its disconnection
\* fails for want of undo data.)
InvalidateBlock(b) ==
    /\ job = Idle
    /\ calls < MaxCalls /\ "invalidate" \in Operations
    /\ b \in index["known"] \ {Genesis}
    /\ index' = Add(index, "failedValid", {b})
    /\ dirty' = dirty \cup {b}
    /\ candidates' = candidates \ {b}
    /\ job' = [Idle EXCEPT !.op = "invalidate", !.target = b]
    /\ calls' = calls + 1
    /\ UNCHANGED <<linked, seq, nextSeq, addr, unlinked, tip, coinsTip, diskVars,
                   pending, reprocessing, restarts>>

\* Mutant: the blocks that were pruned for being worse are not added back.
MutInvalidateCandidatesKept == candidates

\* The loop at the end of InvalidateBlock over mapBlockIndex.
InvalidateCandidates ==
    candidates \cup {b \in linked : IsValid(index, b) /\ ~Worse(b, tip)}

\* The end of InvalidateBlock, once b is out of chainActive.
InvalidateReturn ==
    /\ job.op = "invalidate" /\ job.phase = "run"
    /\ job.target \notin Ancestors[tip]
    /\ candidates' = InvalidateCandidates
    /\ job' = Idle
    /\ pending' = TRUE
    /\ UNCHANGED <<index, linked, seq, nextSeq, addr, unlinked, dirty, tip, coinsTip,
                   diskVars, reprocessing, calls, restarts>>

\* A thread enters ReprocessBlocks: R are the recent ones of mapRejectedBlocks,
\* and n, one more than the argument nBlocks, is how many tips will go.
ReprocessBlocks(R, n) ==
    /\ job = Idle
    /\ calls < MaxCalls /\ "reprocess" \in Operations
    /\ reprocessing = NotReprocessing
    /\ R \subseteq index["known"]
    /\ reprocessing' = [rejected |-> R, tips |-> n]
    /\ calls' = calls + 1
    /\ UNCHANGED <<treeVars, tip, coinsTip, diskVars, job, pending, restarts>>

\* Its loop, which takes cs_main for each block.
ReconsiderRejected(b) ==
    /\ job = Idle
    /\ b \in reprocessing.rejected
    /\ ReconsiderBlock(b)
    /\ reprocessing' = [reprocessing EXCEPT !.rejected = @ \ {b}]
    /\ UNCHANGED <<tip, coinsTip, diskVars, job, pending, calls, restarts>>

\* DisconnectBlocksAndReprocess gets cs_main.
DisconnectBlocksAndReprocess ==
    /\ job = Idle
    /\ reprocessing # NotReprocessing
    /\ reprocessing.rejected = {}
    /\ job' = [Idle EXCEPT !.op = "reprocess", !.left = reprocessing.tips]
    /\ reprocessing' = NotReprocessing
    /\ UNCHANGED <<treeVars, tip, coinsTip, diskVars, pending, calls, restarts>>

\* DisconnectBlocksAndReprocess returns; the genesis block has no undo data,
\* so DisconnectTip leaves it alone and its failure is ignored.
ReprocessReturn ==
    /\ job.op = "reprocess" /\ job.phase = "run"
    /\ job.left = 0 \/ tip = Genesis
    /\ job' = Idle
    /\ pending' = TRUE
    /\ UNCHANGED <<treeVars, tip, coinsTip, diskVars, reprocessing, calls, restarts>>

(* -------------------------- Activating a chain ------------------------- *)

\* FindMostWorkChain.  The candidates it passes over are those better than
\* the one it settles on; each of them has a failed block in its branch.
Unusable == {c \in candidates : Branch(c) \cap Failed(index) # {}}

MostWork ==
    LET usable == candidates \ Unusable
    IN  IF usable = {} THEN None
        ELSE CHOOSE c \in usable : \A d \in usable : d # c => Worse(d, c)

PassedOver == {c \in Unusable : MostWork = None \/ Worse(MostWork, c)}

\* Mutant: the blocks before the failed one are marked as well.
MutUpToFailureAll(c) == Branch(c)

\* The part of c's branch from c down to the first failed block.
UpToFailure(c) ==
    {d \in Branch(c) : \A e \in Branch(c) \ {d} :
                          d \in Ancestors[e] => e \notin Failed(index)}

Doomed == UNION {UpToFailure(c) : c \in PassedOver}

\* A thread in ActivateBestChain gets cs_main and picks the chain to work on.
FindMostWorkChain ==
    /\ job = Idle
    /\ pending
    /\ index' = Add(index, "failedChild", Doomed \ Failed(index))
    /\ candidates' = candidates \ Doomed
    /\ IF MostWork \in {None, tip}
       THEN job' = Idle /\ pending' = FALSE
       ELSE /\ job' = [Idle EXCEPT !.op = "activate", !.target = MostWork, !.from = tip]
            /\ UNCHANGED pending
    /\ UNCHANGED <<linked, seq, nextSeq, addr, unlinked, dirty, tip, coinsTip, diskVars,
                   reprocessing, calls, restarts>>

\* ActivateBestChainStep is at its goal, or better off than where it began.
StepComplete == tip = job.target \/ Work[tip] > Work[job.from]

\* Whether the job goes on by disconnecting the tip.
MustDisconnect ==
    \/ job.op = "activate" /\ tip \notin Ancestors[job.target]
    \/ job.op = "invalidate" /\ job.target \in Ancestors[tip]
    \/ job.op = "reprocess" /\ job.left > 0 /\ tip # Genesis

\* DisconnectTip up to the first half of FlushStateToDisk: pcoinsTip is at
\* the parent, and the block index has been written.  InvalidateBlock marks
\* the tip before.
DisconnectTip ==
    /\ job.phase = "run"
    /\ MustDisconnect
    /\ LET idx == IF job.op = "invalidate" THEN Add(index, "failedChild", {tip}) ELSE index
           toWrite == IF job.op = "invalidate" THEN dirty \cup {tip} ELSE dirty
       IN  /\ index' = idx
           /\ candidates' = IF job.op = "invalidate" THEN candidates \ {tip} ELSE candidates
           /\ diskIndex' = WriteRecords(diskIndex, idx, toWrite)
    /\ dirty' = {}
    /\ coinsTip' = Parent[tip]
    /\ job' = [job EXCEPT !.phase = "disconnect",
                          !.left = IF job.op = "reprocess" THEN @ - 1 ELSE @]
    /\ UNCHANGED <<linked, seq, nextSeq, addr, unlinked, tip, diskBest, pending, reprocessing,
                   calls, restarts>>

\* Mutant: vpindexToConnect is not reversed, so the goal comes first.
MutNextToConnectGoal == job.target

\* The next block on the way from the tip to the goal.
NextToConnect == CHOOSE b \in Ancestors[job.target] \ {Genesis} : Parent[b] = tip

MayConnect ==
    /\ job.op = "activate" /\ job.phase = "run"
    /\ tip \in Ancestors[job.target]
    /\ ~StepComplete

\* Mutant: nothing is pruned.
MutPruneNothing(b) == candidates

\* PruneBlockIndexCandidates, with b as the tip.
PruneBlockIndexCandidates(b) == {c \in candidates : ~Worse(c, b)}

\* ConnectTip without a write to the coin database.  ConnectBlock has put
\* the record of the block, as it was before, into the block index database.
ConnectTip ==
    /\ MayConnect
    /\ LET b == NextToConnect
       IN  /\ b \notin Invalid
           /\ diskIndex' = WriteRecords(diskIndex, index, {b})
           /\ index' = Add(index, "scripts", {b})
           /\ dirty' = IF b \in index["scripts"] THEN dirty ELSE dirty \cup {b}
           /\ coinsTip' = b
           /\ tip' = b
           /\ candidates' = PruneBlockIndexCandidates(b)
    /\ UNCHANGED <<linked, seq, nextSeq, addr, unlinked, diskBest, job, pending, reprocessing,
                   calls, restarts>>

\* ConnectTip up to the first half of FlushStateToDisk, which runs when the
\* cache is full or the block starts a new file.
ConnectTipAndFlush ==
    /\ MayConnect
    /\ LET b == NextToConnect
           idx == Add(index, "scripts", {b})
       IN  /\ b \notin Invalid
           /\ diskIndex' = WriteRecords(diskIndex, idx, dirty \cup {b})
           /\ index' = idx
           /\ coinsTip' = b
    /\ dirty' = {}
    /\ job' = [job EXCEPT !.phase = "connect"]
    /\ UNCHANGED <<linked, seq, nextSeq, addr, candidates, unlinked, tip, diskBest,
                   pending, reprocessing, calls, restarts>>

\* Mutant: the status of the refused block is not changed.
MutInvalidBlockFoundForgets(b) == index

\* What InvalidBlockFound does to the index.
InvalidBlockFound(b) == Add(index, "failedValid", {b})

\* ConnectBlock refuses the block, before or after it wrote its record:
\* InvalidBlockFound, and ActivateBestChainStep returns to look again.
ConnectTipFails ==
    /\ MayConnect
    /\ LET b == NextToConnect
       IN  /\ b \in Invalid \cup Contested
           /\ diskIndex' \in {diskIndex, WriteRecords(diskIndex, index, {b})}
           /\ index' = InvalidBlockFound(b)
           /\ dirty' = dirty \cup {b}
           /\ candidates' = candidates \ {b}
    /\ job' = Idle
    /\ UNCHANGED <<linked, seq, nextSeq, addr, unlinked, tip, coinsTip, diskBest,
                   pending, reprocessing, calls, restarts>>

\* ActivateBestChainStep returns, and ActivateBestChain with it if it has
\* reached its goal.
ActivateReturn ==
    /\ job.op = "activate" /\ job.phase = "run"
    /\ tip \in Ancestors[job.target]
    /\ StepComplete
    /\ job' = Idle
    /\ pending' = (tip # job.target)
    /\ UNCHANGED <<treeVars, tip, coinsTip, diskVars, reprocessing, calls, restarts>>

(* ------------------------- Flushing and crashing ----------------------- *)

\* FlushStateToDisk, from ActivateBestChain or at shutdown, up to the write
\* of the block index.  A flush with nothing to write would be a stutter.
FlushStateToDisk ==
    /\ job = Idle
    /\ dirty # {} \/ diskBest # coinsTip
    /\ diskIndex' = WriteRecords(diskIndex, index, dirty)
    /\ dirty' = {}
    /\ job' = [Idle EXCEPT !.op = "flush", !.phase = "flush"]
    /\ UNCHANGED <<index, linked, seq, nextSeq, addr, candidates, unlinked, tip, coinsTip,
                   diskBest, pending, reprocessing, calls, restarts>>

\* The second half of FlushStateToDisk writes the coins; DisconnectTip and
\* ConnectTip then update chainActive.
FlushCoins ==
    /\ job.phase \in {"connect", "disconnect", "flush"}
    /\ diskBest' = coinsTip
    /\ tip' = coinsTip
    /\ candidates' = IF job.phase = "connect" THEN PruneBlockIndexCandidates(coinsTip)
                                              ELSE candidates
    /\ job' = IF job.op = "flush" THEN Idle ELSE [job EXCEPT !.phase = "run"]
    /\ UNCHANGED <<index, linked, seq, nextSeq, addr, unlinked, dirty, coinsTip,
                   diskIndex, pending, reprocessing, calls, restarts>>

\* LoadBlockIndexDB, before PruneBlockIndexCandidates: which blocks get an
\* nChainTx, which wait in mapBlocksUnlinked, which become candidates.
LoadedLinked == {b \in diskIndex["data"] : Ancestors[b] \subseteq diskIndex["data"]}

LoadedUnlinked == diskIndex["data"] \ LoadedLinked

\* Mutants: only the loaded tip; only what is better than it.
MutLoadedCandidatesTip(ad) == {diskBest}
MutLoadedCandidatesBetter(ad) ==
    {b \in LoadedLinked : /\ IsValid(diskIndex, b)
                          /\ WorseIn([d \in Blocks |-> 0], ad, diskBest, b)}

LoadedCandidates(ad) ==
    {b \in LoadedLinked : /\ IsValid(diskIndex, b)
                          /\ ~WorseIn([d \in Blocks |-> 0], ad, b, diskBest)}

\* The process dies and starts again, and AppInit2 calls ActivateBestChain.
\* The assert in PruneBlockIndexCandidates ends it if no candidate is left.
Restart ==
    /\ restarts < MaxRestarts
    /\ restarts' = restarts + 1
    /\ \E ad \in AddressOrders :
          /\ addr' = ad
          /\ LoadedCandidates(ad) # {}
          /\ candidates' = LoadedCandidates(ad)
    /\ index' = diskIndex
    /\ linked' = LoadedLinked
    /\ unlinked' = LoadedUnlinked
    /\ seq' = [b \in Blocks |-> 0]
    /\ nextSeq' = 1
    /\ dirty' = {}
    /\ tip' = diskBest
    /\ coinsTip' = diskBest
    /\ job' = Idle
    /\ pending' = TRUE
    /\ reprocessing' = NotReprocessing
    /\ UNCHANGED <<diskVars, calls>>

-----------------------------------------------------------------------------
\* What the thread that holds cs_main, or waits for it in ActivateBestChain,
\* does next.
Proceed ==
    \/ FindMostWorkChain
    \/ DisconnectTip
    \/ ConnectTip
    \/ ConnectTipAndFlush
    \/ ConnectTipFails
    \/ ActivateReturn
    \/ InvalidateReturn
    \/ ReprocessReturn
    \/ FlushCoins

Receive ==
    \E b \in Blocks \ {Genesis} :
        \/ AcceptBlockHeader(b)
        \/ AcceptBlock(b)
        \/ AcceptKnownBlock(b)
        \/ RejectBlock(b)
        \/ ReconsiderCheckpoint(b)

Operate ==
    \/ \E b \in Blocks : RpcReconsiderBlock(b) \/ InvalidateBlock(b)
    \/ \E R \in SUBSET Contested, n \in 1 .. MaxDisconnect : ReprocessBlocks(R, n)
    \/ \E b \in Blocks : ReconsiderRejected(b)
    \/ DisconnectBlocksAndReprocess

Next == Proceed \/ Receive \/ Operate \/ FlushStateToDisk \/ Restart

\* A thread that has or waits for cs_main runs eventually; nothing obliges
\* peers, operators or the flush timer to do anything.
Spec == Init /\ [][Next]_vars /\ WF_vars(Proceed)

-----------------------------------------------------------------------------
\* Every variable holds a value of its kind.
TypeOK ==
    /\ index \in [Fields -> SUBSET Blocks]
    /\ diskIndex \in [Fields -> SUBSET Blocks]
    /\ linked \subseteq Blocks
    /\ candidates \subseteq Blocks
    /\ unlinked \subseteq Blocks
    /\ dirty \subseteq Blocks
    /\ seq \in [Blocks -> Nat]
    /\ nextSeq \in Nat
    /\ addr \in AddressOrders
    /\ {tip, coinsTip, diskBest} \subseteq Blocks
    /\ job \in [op : {"idle", "activate", "invalidate", "reprocess", "flush"},
                target : Blocks \cup {None}, from : Blocks \cup {None}, left : Nat,
                phase : {"run", "connect", "disconnect", "flush"}]
    /\ pending \in BOOLEAN
    /\ reprocessing \in [rejected : SUBSET Blocks, tips : Nat]
    /\ calls \in Nat /\ restarts \in Nat

\* No thread is inside a call that holds cs_main.
Quiet == job = Idle

HasInvalidAncestor(b) == Ancestors[b] \cap index["failedValid"] # {}

\* CheckBlockIndex: nChainTx is set exactly for the blocks all of whose
\* ancestors have their data, only those are ever candidates, as
\* FindMostWorkChain asserts, and mapBlocksUnlinked holds the blocks with data
\* that wait for an ancestor's.
LinksExact ==
    /\ linked = {b \in index["known"] : Ancestors[b] \subseteq index["data"]}
    /\ candidates \subseteq linked
    /\ \A b \in index["known"] :
        IF b \in index["data"] \ linked
        THEN b \in unlinked \/ HasInvalidAncestor(b)
        ELSE b \notin unlinked

\* The valid blocks as good as the tip that are not candidates.
MissingCandidates ==
    {b \in linked \ candidates : ~Worse(b, tip) /\ ~HasInvalidAncestor(b)}

\* When ActivateBestChain has nothing left to do, every valid block that is
\* as good as the tip is a candidate.
CandidatesComplete == (Quiet /\ ~pending) => MissingCandidates = {}

\* CheckBlockIndex: a block that is worse than the tip is not a candidate,
\* whenever cs_main is free.
CandidatesGoodEnough == Quiet => \A c \in candidates : ~Worse(c, tip)

\* CheckBlockIndex: a block with a failure flag has an invalid ancestor.
FailuresHaveCause == Quiet => \A b \in Failed(index) : HasInvalidAncestor(b)

\* CheckBlockIndex: a block whose scripts were checked has only such
\* ancestors; the active chain consists of such blocks, and while cs_main is
\* free none of them is marked failed.
ActiveChainChecked ==
    /\ \A b \in index["scripts"] \cup {tip} :
          Ancestors[b] \ {Genesis} \subseteq index["scripts"]
    /\ Quiet => Ancestors[tip] \cap Failed(index) = {}

\* Once ActivateBestChain has nothing left to do, no block that could be
\* connected is better than the tip.
BestChainActive ==
    (Quiet /\ ~pending) =>
        \A b \in linked : Ancestors[b] \cap Failed(index) = {} => ~Worse(tip, b)

\* Everything has its type and, whenever the process dies, the block index on disk contains the parent of
\* every block in it, and undo data for every block in the coin database's
\* chain: what the order of writes in FlushStateToDisk is for.
DiskConsistent ==
    /\ TypeOK
    /\ \A b \in diskIndex["known"] : Ancestors[b] \subseteq diskIndex["known"]
    /\ Ancestors[diskBest] \ {Genesis} \subseteq diskIndex["scripts"]

\* Whenever the process dies, the assert in PruneBlockIndexCandidates lets it
\* start again: the tip it loads, or something better, is a candidate.
RestartPossible == \A ad \in AddressOrders : LoadedCandidates(ad) # {}

\* ActivateBestChain returns, whatever arrives meanwhile.
ActivationEnds == pending ~> (Quiet /\ ~pending)
=============================================================================
