------------------------------ MODULE SwiftTX ------------------------------
(***************************************************************************)
(* SwiftTX transaction locks (swifttx.cpp): lock requests ("ix"), the      *)
(* votes of the masternodes on them ("txlvote"), the inputs that a request *)
(* locks, and the expiry of all this after an hour; with the places that   *)
(* obey the locks, AcceptToMemoryPool and CheckBlock.                      *)
(*                                                                         *)
(* None of the maps has a lock of its own.  Three threads use them: the    *)
(* message handler (one message after the other), the threads of the       *)
(* wallet and of RPC calls, and the obfuscation thread, which cleans up.   *)
(* A step is one use of one map: the lookup of an entry with what is done  *)
(* to it.  Between two steps of a handler or of the clean-up the other     *)
(* threads may take theirs.  Uses of two maps are one step where it makes  *)
(* no difference: what the clean-up, which works on one entry of one map   *)
(* at a time, does between them could as well come before both, or after.  *)
(***************************************************************************)
EXTENDS Integers, Sequences, FiniteSets

CONSTANTS
    Tx,           \* the transactions that ask for a lock
    Outpoint,     \* the outputs they may spend
    Spends,       \* tx.vin: the outputs each of them spends
    Masternode,
    PeerVotes,    \* the masternodes whose votes peers send
    Height,       \* heights a vote may name
    LockHeight,   \* those of them that CreateNewLock computes here
    Ranked,       \* GetMasternodeRank: the first SIGNATURES_TOTAL at a height
    Required,     \* SWIFTTX_SIGNATURES_REQUIRED
    PlainTx,      \* those that also come without a request, or in blocks
    WalletTx,     \* the ones this node's wallet and RPC users send
    Self,         \* the masternode this node runs, or None
    None,
    EmptyTx,      \* CTransaction(): no inputs
    BlockFiltering, \* SPORK_2_SWIFTTX_BLOCK_FILTERING
    MaxBlocks,    \* bound on the blocks connected
    MaxMessages   \* bound on the requests and votes handled

ASSUME SpendsAssumption == Spends \in [Tx -> (SUBSET Outpoint) \ {{}}]
ASSUME HeightAssumption == LockHeight \subseteq Height /\ Height \subseteq Nat \ {0}
ASSUME PeerAssumption == PeerVotes \subseteq Masternode
ASSUME RankedAssumption == Ranked \in [Height \cup {0} -> SUBSET Masternode]
ASSUME RequiredAssumption == Required \in Nat \ {0}
ASSUME SelfAssumption == Self \in Masternode \cup {None} /\ None \notin Masternode \cup Tx
ASSUME WalletAssumption == WalletTx \cup PlainTx \subseteq Tx
ASSUME EmptyAssumption == EmptyTx \notin Tx
ASSUME FilterAssumption == BlockFiltering \in BOOLEAN /\ MaxBlocks \in Nat /\ MaxMessages \in Nat

VARIABLES
    mapTxLockReq,         \* hash -> the transaction, or the empty one
    mapTxLockReqRejected, \* hashes of the requests the memory pool refused
    mapTxLockVote,        \* (masternode, hash) of the votes seen: CConsensusVote::GetHash
    mapTxLocks,           \* hash -> CTransactionLock
    mapLockedInputs,      \* outpoint -> hash of the owner
    mempool,              \* the transactions of Tx in the memory pool
    chain,                \* those in the last blocks of the active chain, in order
    handling,             \* the message handler: where it is, and in which message
    cleaning,             \* the clean-up: where it is, and at which lock
    sending,              \* the transactions a wallet or RPC thread has put in
                          \* mapTxLockReq and not yet given to CreateNewLock
    refused,              \* history: the requests that were ever refused
    stray,                \* history: the inputs locked by the handler of a vote on a
                          \* transaction whose clean-up was running meanwhile
    messages              \* the requests and votes handled so far

requestVars == <<mapTxLockReq, mapTxLockReqRejected>>
lockVars == <<mapTxLockVote, mapTxLocks, mapLockedInputs>>
poolVars == <<mempool, chain>>
threadVars == <<handling, cleaning, sending>>
historyVars == <<refused, stray, messages>>

vars == <<requestVars, lockVars, poolVars, threadVars, historyVars>>

\* The steps of the handler of a vote, and of that of a request.
VoteSteps == {"sign", "conflict", "lock"}
RequestSteps == {"accept", "vote", "refuse", "lockRefused", "resolve", "reprocess", "insert"}

Idle == [step |-> "idle", tx |-> None, height |-> 0, mn |-> None, inputs |-> {}, raced |-> FALSE]

NotCleaning == [step |-> "idle", tx |-> None, inputs |-> {}]

\* nExpiration as seen from GetTime(): in an hour or less, this very second
\* (a cancelled lock), or before now.
Expiry == {"hour", "now", "past"}

\* A vote, as far as its lock remembers it.
Vote == [mn : Masternode, height : Height]

Lock == [height : Height \cup {0}, expiration : Expiry, votes : Seq(Vote)]

Ran(f) == {f[x] : x \in DOMAIN f}

\* std::map::insert: keeps what is there.
Insert(map, key, value) ==
    [k \in DOMAIN map \cup {key} |-> IF k \in DOMAIN map THEN map[k] ELSE value]

Erase(map, keys) == [k \in DOMAIN map \ keys |-> map[k]]

Inputs(tx) == IF tx = EmptyTx THEN {} ELSE Spends[tx]

Conflict(t, u) == t # u /\ Spends[t] \cap Spends[u] # {}

\* One message more, or one request of the wallet.
Message == messages < MaxMessages /\ messages' = messages + 1

Init ==
    /\ mapTxLockReq = <<>>
    /\ mapTxLockReqRejected = {}
    /\ mapTxLockVote = {}
    /\ mapTxLocks = <<>>
    /\ mapLockedInputs = <<>>
    /\ mempool = {}
    /\ chain = <<>>
    /\ handling = Idle
    /\ cleaning = NotCleaning
    /\ sending = {}
    /\ refused = {}
    /\ stray = {}
    /\ messages = 0

\* The message handler goes from one step of the message to another.
Goes(here, next) ==
    /\ handling.step = here
    /\ handling' = [handling EXCEPT !.step = next]

------------------------------------------------------------------------------
(* The lock table.                                                          *)

NewLock(height) == [height |-> height, expiration |-> "hour", votes |-> <<>>]

\* Height 0 marks an input that is too new, or not found: no lock is made.
CreateNewLock(locks, t, height) ==
    IF height = 0 THEN locks
    ELSE [Insert(locks, t, NewLock(height)) EXCEPT ![t].height = height]

\* Mutant: the votes of a lock are counted whatever their height.
MutantCountAnyHeight(lock) ==
    IF lock.height = 0 THEN -1 ELSE Len(lock.votes)

\* The votes that count are those for the height of the request.
CountSignatures(lock) ==
    IF lock.height = 0 THEN -1
    ELSE Cardinality({i \in DOMAIN lock.votes : lock.votes[i].height = lock.height})

Complete(lock) == CountSignatures(lock) >= Required

\* CheckForConflictingLocks: of the inputs, those locked for another
\* transaction.  The first of them decides which owner's lock expires with that
\* of t.
ConflictingInputs(t, inputs) ==
    {o \in inputs \cap DOMAIN mapLockedInputs : mapLockedInputs[o] # t}

Cancel(locks, S) ==
    [t \in DOMAIN locks |-> IF t \in S THEN [locks[t] EXCEPT !.expiration = "now"]
                                       ELSE locks[t]]

\* The loops over tx.vin, in whatever order, that lock for t what is not locked yet.
LockInput(here, o) ==
    /\ handling.step = here
    /\ o \in handling.inputs
    /\ mapLockedInputs' = Insert(mapLockedInputs, o, handling.tx)
    /\ handling' = [handling EXCEPT !.inputs = @ \ {o}]
    /\ stray' = IF handling.raced /\ o \notin DOMAIN mapLockedInputs THEN stray \cup {o} ELSE stray
    /\ UNCHANGED <<requestVars, mapTxLockVote, mapTxLocks, poolVars, cleaning, sending, refused, messages>>

------------------------------------------------------------------------------
(* The memory pool and the chain, as far as the locks see them.             *)

\* The input is locked for another transaction.
LockedForAnother(t, locked) ==
    \E o \in Spends[t] \cap DOMAIN locked : locked[o] # t

\* AcceptToMemoryPool.
Acceptable(t) ==
    /\ t \notin mempool \cup Ran(chain)
    /\ ~ LockedForAnother(t, mapLockedInputs)
    /\ \A u \in mempool \cup Ran(chain) : ~ Conflict(t, u)

\* CheckBlock, when it looks for transactions in conflict with a lock.
BlockPasses(t, locked) == BlockFiltering => ~ LockedForAnother(t, locked)

\* ReprocessBlocks(15): every recent block is disconnected, its transactions go
\* back to the memory pool if that accepts them; the blocks up to the first one
\* that CheckBlock now refuses are connected again.
KeptBlocks(locked) ==
    CHOOSE n \in 0 .. Len(chain) :
        /\ \A i \in 1 .. n : BlockPasses(chain[i], locked)
        /\ n < Len(chain) => ~ BlockPasses(chain[n + 1], locked)

ReprocessBlocks(locked) ==
    LET n == KeptBlocks(locked) IN
    /\ chain' = SubSeq(chain, 1, n)
    /\ mempool' = mempool \cup
           {chain[i] : i \in {j \in n + 1 .. Len(chain) : ~ LockedForAnother(chain[j], locked)}}

\* "tx": a transaction comes without a lock request.
AcceptToMemoryPool(t) ==
    /\ Acceptable(t)
    /\ mempool' = mempool \cup {t}
    /\ UNCHANGED <<requestVars, lockVars, chain, threadVars, historyVars>>

\* A block with t is connected.
ConnectBlock(t) ==
    /\ Len(chain) < MaxBlocks
    /\ t \notin Ran(chain)
    /\ \A u \in Ran(chain) : ~ Conflict(t, u)
    /\ BlockPasses(t, mapLockedInputs)
    /\ chain' = Append(chain, t)
    /\ mempool' = {u \in mempool : u # t /\ ~ Conflict(t, u)}
    /\ UNCHANGED <<requestVars, lockVars, threadVars, historyVars>>

------------------------------------------------------------------------------
(* "ix": a lock request.                                                    *)

\* Up to CreateNewLock.  A request that is known, or not valid (IsIXTXValid, the
\* scripts), changes nothing.
LockRequest(t, height) ==
    /\ Message
    /\ handling = Idle
    /\ t \notin DOMAIN mapTxLockReq \cup mapTxLockReqRejected
    /\ mapTxLocks' = CreateNewLock(mapTxLocks, t, height)
    /\ handling' = [Idle EXCEPT !.step = "accept", !.tx = t, !.height = height]
    /\ UNCHANGED <<requestVars, mapTxLockVote, mapLockedInputs, poolVars, cleaning, sending,
                   refused, stray>>

\* The memory pool takes the transaction,
LockRequestAccepted ==
    /\ Goes("accept", "vote")
    /\ Acceptable(handling.tx)
    /\ mempool' = mempool \cup {handling.tx}
    /\ UNCHANGED <<requestVars, lockVars, chain, cleaning, sending, historyVars>>

\* the own vote on it is remembered and relayed, never counted here, and the
\* request is remembered.
DoConsensusVote ==
    LET t == handling.tx IN
    /\ handling.step = "vote"
    /\ mapTxLockVote' = mapTxLockVote \cup (IF Self \in Ranked[handling.height] THEN {<<Self, t>>} ELSE {})
    /\ mapTxLockReq' = Insert(mapTxLockReq, t, t)
    /\ handling' = Idle
    /\ UNCHANGED <<mapTxLockReqRejected, mapTxLocks, mapLockedInputs, poolVars, cleaning, sending, historyVars>>

\* The memory pool refuses the transaction,
LockRequestRejected ==
    /\ Goes("accept", "refuse")
    /\ ~ Acceptable(handling.tx)
    /\ UNCHANGED <<requestVars, lockVars, poolVars, cleaning, sending, historyVars>>

\* which is remembered; its inputs will be locked all the same.
InsertRejected ==
    /\ handling.step = "refuse"
    /\ mapTxLockReqRejected' = mapTxLockReqRejected \cup {handling.tx}
    /\ refused' = refused \cup {handling.tx}
    /\ handling' = [handling EXCEPT !.step = "lockRefused", !.inputs = Spends[handling.tx]]
    /\ UNCHANGED <<mapTxLockReq, lockVars, poolVars, cleaning, sending, stray, messages>>

\* Once the inputs are locked: is there a complete lock of the request?
FindCompleteLock ==
    LET t == handling.tx IN
    /\ handling.step = "lockRefused" /\ handling.inputs = {}
    /\ handling' = IF t \in DOMAIN mapTxLocks /\ Complete(mapTxLocks[t])
                   THEN [handling EXCEPT !.step = "resolve"] ELSE Idle
    /\ UNCHANGED <<requestVars, lockVars, poolVars, cleaning, sending, historyVars>>

\* Unless it is in conflict with another,
ResolveRejected ==
    LET t == handling.tx
        conflicts == ConflictingInputs(t, Spends[t])
    IN
    /\ handling.step = "resolve"
    /\ \/ /\ conflicts = {}
          /\ handling' = [handling EXCEPT !.step = "reprocess"]
          /\ UNCHANGED mapTxLocks
       \/ \E o \in conflicts :
          /\ mapTxLocks' = Cancel(mapTxLocks, {t, mapLockedInputs[o]})
          /\ handling' = Idle
    /\ UNCHANGED <<requestVars, mapTxLockVote, mapLockedInputs, poolVars, cleaning, sending, historyVars>>

\* the chain is searched for the transaction that stood in its way,
ReprocessForRequest ==
    /\ Goes("reprocess", "insert")
    /\ ReprocessBlocks(mapLockedInputs)
    /\ UNCHANGED <<requestVars, lockVars, cleaning, sending, historyVars>>

\* and the request is remembered too.
InsertRequest ==
    /\ handling.step = "insert"
    /\ mapTxLockReq' = Insert(mapTxLockReq, handling.tx, handling.tx)
    /\ handling' = Idle
    /\ UNCHANGED <<mapTxLockReqRejected, lockVars, poolVars, cleaning, sending, historyVars>>

------------------------------------------------------------------------------
(* "txlvote": a vote.                                                       *)

\* A vote seen before is ignored; one of a masternode that is not in the first
\* SIGNATURES_TOTAL at its height, or not known, is remembered and dropped.
\* ProcessConsensusVote makes the lock when no request did.  (Nothing else looks
\* for this vote, and the lock found or made is looked up again.)
ConsensusVote(t, mn, height) ==
    /\ Message
    /\ handling = Idle
    /\ <<mn, t>> \notin mapTxLockVote
    /\ mapTxLockVote' = mapTxLockVote \cup {<<mn, t>>}
    /\ IF mn \in Ranked[height]
       THEN /\ mapTxLocks' = Insert(mapTxLocks, t, NewLock(0))
            /\ handling' = [step |-> "sign", tx |-> t, height |-> height, mn |-> mn,
                            inputs |-> {}, raced |-> cleaning.tx = t]
       ELSE UNCHANGED <<mapTxLocks, handling>>
    /\ UNCHANGED <<requestVars, mapLockedInputs, poolVars, cleaning, sending, refused, stray>>

\* operator[] on mapTxLockReq inserts an empty transaction under a hash that has
\* no request.  The reference it returns is read until the end.
Requested(t) == IF t \in DOMAIN mapTxLockReq THEN mapTxLockReq[t] ELSE EmptyTx

\* AddSignature on the lock, unless it is gone again; a complete one has its
\* request looked up.
AddSignature ==
    LET t == handling.tx
        locks == IF t \notin DOMAIN mapTxLocks THEN mapTxLocks
                 ELSE [mapTxLocks EXCEPT ![t].votes =
                          Append(@, [mn |-> handling.mn, height |-> handling.height])]
    IN
    /\ handling.step = "sign"
    /\ mapTxLocks' = locks
    /\ IF t \in DOMAIN locks /\ Complete(locks[t])
       THEN /\ mapTxLockReq' = Insert(mapTxLockReq, t, EmptyTx)
            /\ handling' = [handling EXCEPT !.step = "conflict", !.inputs = Inputs(Requested(t))]
       ELSE /\ UNCHANGED mapTxLockReq
            /\ handling' = Idle
    /\ UNCHANGED <<mapTxLockReqRejected, mapTxLockVote, mapLockedInputs, poolVars, cleaning, sending,
                   historyVars>>

\* A conflict cancels both locks.  Otherwise the inputs are locked, if the request
\* is still there.  (What the clean-up does between the two lookups, it may as
\* well have done before both: it only takes away conflicts and requests.)
ResolveConflict ==
    LET t == handling.tx
        conflicts == ConflictingInputs(t, handling.inputs)
    IN
    /\ handling.step = "conflict"
    /\ \/ /\ conflicts = {}
          /\ handling' = [handling EXCEPT !.step = "lock",
                                          !.inputs = IF t \in DOMAIN mapTxLockReq THEN @ ELSE {}]
          /\ UNCHANGED mapTxLocks
       \/ \E o \in conflicts :
          /\ mapTxLocks' = Cancel(mapTxLocks, {t, mapLockedInputs[o]})
          /\ handling' = Idle
    /\ UNCHANGED <<requestVars, mapTxLockVote, mapLockedInputs, poolVars, cleaning, sending, historyVars>>

\* Once the inputs are locked: blocks that contradict a request that was refused
\* have to go.
VoteDone ==
    /\ handling.step = "lock" /\ handling.inputs = {}
    /\ IF handling.tx \in mapTxLockReqRejected
       THEN ReprocessBlocks(mapLockedInputs)
       ELSE UNCHANGED poolVars
    /\ handling' = Idle
    /\ UNCHANGED <<requestVars, lockVars, cleaning, sending, historyVars>>

------------------------------------------------------------------------------
(* The wallet and RPC threads.                                              *)

\* RelayWalletTransaction("ix") and sendrawtransaction insert the request,
SendRequest(t) ==
    /\ Message
    /\ t \notin sending \cup Ran(chain)
    /\ mapTxLockReq' = Insert(mapTxLockReq, t, t)
    /\ sending' = sending \cup {t}
    /\ UNCHANGED <<mapTxLockReqRejected, lockVars, poolVars, handling, cleaning, refused, stray>>

\* and make its lock.
SendCreateLock(t, height) ==
    /\ t \in sending
    /\ sending' = sending \ {t}
    /\ mapTxLocks' = CreateNewLock(mapTxLocks, t, height)
    /\ UNCHANGED <<requestVars, mapTxLockVote, mapLockedInputs, poolVars, handling, cleaning, historyVars>>

------------------------------------------------------------------------------
(* Time and expiry.                                                         *)

\* An hour has passed since the lock was made.
HourPasses(t) ==
    /\ t \in DOMAIN mapTxLocks
    /\ mapTxLocks[t].expiration = "hour"
    /\ mapTxLocks' = [mapTxLocks EXCEPT ![t].expiration = "past"]
    /\ UNCHANGED <<requestVars, mapTxLockVote, mapLockedInputs, poolVars, threadVars, historyVars>>

\* The clock moves past the second in which locks were cancelled.
SecondPasses ==
    /\ \E t \in DOMAIN mapTxLocks : mapTxLocks[t].expiration = "now"
    /\ mapTxLocks' = [t \in DOMAIN mapTxLocks |->
           [mapTxLocks[t] EXCEPT !.expiration = IF @ = "now" THEN "past" ELSE @]]
    /\ UNCHANGED <<requestVars, mapTxLockVote, mapLockedInputs, poolVars, threadVars, historyVars>>

------------------------------------------------------------------------------
(* CleanTransactionLocksList, in the obfuscation thread.                    *)

\* Mutant: the inputs stay locked.
MutantReleaseNothing(t) == {}

\* The inputs a removed request gives up, whoever owns them.
ReleasedInputs(t) == Inputs(Requested(t))

\* Mutant: a lock that has its quorum is kept, even when it was cancelled.
MutantExpiresIncomplete(t) ==
    t \in DOMAIN mapTxLocks /\ mapTxLocks[t].expiration = "past" /\ ~ Complete(mapTxLocks[t])

Expired(t) == t \in DOMAIN mapTxLocks /\ mapTxLocks[t].expiration = "past"

\* A lock that has expired.  Only what has a request is forgotten entirely.
CleanTransactionLocksList(t) ==
    /\ cleaning = NotCleaning
    /\ Expired(t)
    /\ cleaning' = [step |-> IF t \in DOMAIN mapTxLockReq THEN "inputs" ELSE "lock",
                    tx |-> t, inputs |-> ReleasedInputs(t)]
    /\ handling' = [handling EXCEPT !.raced = @ \/ (handling.step \in VoteSteps /\ handling.tx = t)]
    /\ UNCHANGED <<requestVars, lockVars, poolVars, sending, historyVars>>

\* The clean-up goes on: first with the inputs,
CleanInput(o) ==
    /\ o \in cleaning.inputs
    /\ mapLockedInputs' = Erase(mapLockedInputs, {o})
    /\ cleaning' = [cleaning EXCEPT !.inputs = @ \ {o}]
    /\ stray' = stray \ {o}
    /\ UNCHANGED <<requestVars, mapTxLockVote, mapTxLocks, poolVars, handling, sending, refused, messages>>

\* then with the request,
CleanRequest ==
    /\ cleaning.step = "inputs" /\ cleaning.inputs = {}
    /\ mapTxLockReq' = Erase(mapTxLockReq, {cleaning.tx})
    /\ cleaning' = [cleaning EXCEPT !.step = "rejected"]
    /\ UNCHANGED <<mapTxLockReqRejected, lockVars, poolVars, handling, sending, historyVars>>

CleanRejected ==
    /\ cleaning.step = "rejected"
    /\ mapTxLockReqRejected' = mapTxLockReqRejected \ {cleaning.tx}
    /\ cleaning' = [cleaning EXCEPT !.step = "votes"]
    /\ UNCHANGED <<mapTxLockReq, lockVars, poolVars, handling, sending, historyVars>>

\* with the votes that the lock holds,
CleanVotes ==
    LET t == cleaning.tx IN
    /\ cleaning.step = "votes"
    /\ mapTxLockVote' = mapTxLockVote \ {<<v.mn, t>> : v \in Ran(mapTxLocks[t].votes)}
    /\ cleaning' = [cleaning EXCEPT !.step = "lock"]
    /\ UNCHANGED <<requestVars, mapTxLocks, mapLockedInputs, poolVars, handling, sending, historyVars>>

\* and last the lock itself.
CleanLock ==
    /\ cleaning.step = "lock"
    /\ mapTxLocks' = Erase(mapTxLocks, {cleaning.tx})
    /\ cleaning' = NotCleaning
    /\ UNCHANGED <<requestVars, mapTxLockVote, mapLockedInputs, poolVars, handling, sending, historyVars>>

CleanUp ==
    \/ \E t \in Tx : CleanTransactionLocksList(t)
    \/ \E o \in Outpoint : CleanInput(o)
    \/ CleanRequest \/ CleanRejected \/ CleanVotes \/ CleanLock

------------------------------------------------------------------------------
HandleRequest ==
    \/ \E t \in Tx, h \in LockHeight \cup {0} : LockRequest(t, h)
    \/ LockRequestAccepted \/ DoConsensusVote
    \/ LockRequestRejected \/ InsertRejected
    \/ \E o \in Outpoint : LockInput("lockRefused", o)
    \/ FindCompleteLock \/ ResolveRejected \/ ReprocessForRequest \/ InsertRequest

HandleVote ==
    \/ \E t \in Tx, mn \in PeerVotes, h \in Height : ConsensusVote(t, mn, h)
    \/ AddSignature \/ ResolveConflict
    \/ \E o \in Outpoint : LockInput("lock", o)
    \/ VoteDone

Next ==
    \/ \E t \in PlainTx : AcceptToMemoryPool(t) \/ ConnectBlock(t)
    \/ HandleRequest
    \/ HandleVote
    \/ \E t \in WalletTx : SendRequest(t)
    \/ \E t \in WalletTx, h \in LockHeight \cup {0} : SendCreateLock(t, h)
    \/ \E t \in Tx : HourPasses(t)
    \/ SecondPasses
    \/ CleanUp

\* Time passes, and the obfuscation thread cleans up once a minute.
Fairness ==
    /\ WF_vars(SecondPasses)
    /\ WF_vars(CleanUp)

Spec == Init /\ [][Next]_vars /\ Fairness

------------------------------------------------------------------------------
(* Properties.                                                              *)

\* Every variable has its type; a request is stored under its own hash, or is
\* the empty transaction that operator[] makes (swifttx.cpp:359).
TypeOK ==
    /\ DOMAIN mapTxLockReq \subseteq Tx
    /\ \A t \in DOMAIN mapTxLockReq : mapTxLockReq[t] \in {t, EmptyTx}
    /\ mapTxLockReqRejected \subseteq refused /\ refused \subseteq Tx
    /\ mapTxLockVote \subseteq Masternode \X Tx
    /\ DOMAIN mapTxLocks \subseteq Tx /\ Ran(mapTxLocks) \subseteq Lock
    /\ DOMAIN mapLockedInputs \subseteq Outpoint
    /\ \A o \in DOMAIN mapLockedInputs : o \in Spends[mapLockedInputs[o]]
    /\ stray \subseteq DOMAIN mapLockedInputs
    /\ mempool \subseteq Tx /\ chain \in Seq(Tx) /\ sending \subseteq Tx
    /\ messages \in 0 .. MaxMessages
    /\ handling \in [step : {"idle"} \cup VoteSteps \cup RequestSteps, tx : Tx \cup {None},
                     height : Height \cup {0}, mn : Masternode \cup {None},
                     inputs : SUBSET Outpoint, raced : BOOLEAN]
    /\ cleaning \in [step : {"idle", "inputs", "rejected", "votes", "lock"},
                     tx : Tx \cup {None}, inputs : SUBSET Outpoint]

\* The masternodes whose votes for a height the lock holds.
Voters(lock, h) ==
    {mn \in Ranked[h] : [mn |-> mn, height |-> h] \in Ran(lock.votes)}

\* The clean-up has forgotten the votes of the lock and is about to remove it.
BeingRemoved(t) == cleaning.step = "lock" /\ cleaning.tx = t

\* The signatures that make a lock complete come from as many different
\* masternodes of the first ten at its height: votes that are seen again, before
\* or after the hourly clean-up forgets them, never count twice.  (Except in a
\* lock that the clean-up has only to remove: swifttx.cpp:451-454.)
QuorumBehindLock ==
    /\ TypeOK
    /\ \A t \in DOMAIN mapTxLocks : LET lock == mapTxLocks[t] IN
        Complete(lock) /\ ~ BeingRemoved(t)
            => Cardinality(Voters(lock, lock.height)) >= Required

\* An input is locked for a transaction whose request was refused, or for one
\* that has a lock record, so that the clean-up will release it, and a quorum of
\* votes for one height.  (Except an input that was locked while the clean-up of
\* that very transaction was running: LockedInputsExpire.)
LockedByQuorumOrRefused ==
    \A o \in DOMAIN mapLockedInputs \ stray : LET t == mapLockedInputs[o] IN
        t \notin refused =>
            /\ t \in DOMAIN mapTxLocks
            /\ \E h \in Height : Cardinality(Voters(mapTxLocks[t], h)) >= Required

\* swifttx.cpp:397 "In that case, they will cancel each other out": when the lock
\* of a request is cancelled, before the clean-up comes to it, all inputs of the
\* request become free, those that are locked for the other transaction too.
CancelReleases ==
    \A t \in Tx : \A o \in Spends[t] :
        (/\ t \in DOMAIN mapTxLocks /\ mapTxLocks[t].expiration = "now"
         /\ t \in DOMAIN mapTxLockReq /\ mapTxLockReq[t] = t
         /\ cleaning.tx # t)
            ~> (o \notin DOMAIN mapLockedInputs)

\* main.cpp:3261 "only reject blocks when it's based on complete consensus": the
\* owner of a locked input, for which CheckBlock refuses blocks, has a complete
\* lock.
OnlyCompleteLocksBlock ==
    \A o \in DOMAIN mapLockedInputs :
        /\ mapLockedInputs[o] \in DOMAIN mapTxLocks
        /\ Complete(mapTxLocks[mapLockedInputs[o]])

\* swifttx.cpp:247 "locks expire after 60 minutes (24 confirmations)": what is
\* locked for a transaction that was never refused has a lock record, whose
\* expiry will release it.
LockedInputsExpire ==
    \A o \in DOMAIN mapLockedInputs :
        mapLockedInputs[o] \in DOMAIN mapTxLocks \cup refused

=============================================================================
