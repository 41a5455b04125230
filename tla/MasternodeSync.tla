--------------------------- MODULE MasternodeSync ---------------------------
(***************************************************************************)
(* CMasternodeSync (masternode-sync.cpp): a node that starts, or has lost  *)
(* its masternodes, asks its peers for the sporks, the masternode list,    *)
(* the payment winners and the ESBC data, one after the other.  Process    *)
(* runs every few seconds on the obfuscation thread; what the peers answer *)
(* comes in on the message thread.  A request is made at most once of each *)
(* connected peer (CNode::FulfilledRequest).                               *)
(***************************************************************************)
EXTENDS Integers, FiniteSets

CONSTANTS
    Peer,        \* the addresses of peers
    OldPeer,     \* those with a version too low for the list and the winners
    Threshold,   \* MASTERNODE_SYNC_THRESHOLD
    Enforced,    \* SPORK_4_MASTERNODE_PAYMENT_ENFORCEMENT is active
    MaxSeen,     \* bound on the broadcasts that are news: each of the list's counts
                 \* Threshold times (mapSeenSyncMNB)
    MaxEvents    \* bound on the resets, and on the changes of the environment

ASSUME PeerAssumption == OldPeer \subseteq Peer /\ IsFiniteSet(Peer)
ASSUME ThresholdAssumption == Threshold \in Nat \ {0}
ASSUME EnforcedAssumption == Enforced \in BOOLEAN
ASSUME BoundsAssumption == {MaxSeen, MaxEvents} \subseteq Nat

VARIABLES
    asset,         \* RequestedMasternodeAssets
    attempt,       \* RequestedMasternodeAttempt
    lastList,      \* lastMasternodeList: 0, in the last five seconds, or before
    seen,          \* how many broadcasts were news: the sum over mapSeenSyncMNB
    lastWinner,    \* lastMasternodeWinner > 0
    countWinner,   \* countMasternodeWinner, up to the threshold
    timedOut,      \* nAssetSyncStarted is 25 seconds ago
    retryDue,      \* lastFailure is 10 seconds ago
    vNodes,        \* the connected peers
    fulfilled,     \* CNode::vecRequestsFulfilled of each of them
    askedList,     \* mWeAskedForMasternodeList: asked by address, not long ago
    askedWinners,  \* mWeAskedForWinnerMasternodeList
    chainSynced,   \* IsBlockchainSynced
    enabled,       \* mnodeman.CountEnabled(): none, some, more than six
    resets,        \* the resets so far
    changes        \* the peers that went, and other changes around the node

syncVars == <<asset, attempt, lastList, seen, lastWinner, countWinner, timedOut, retryDue>>
peerVars == <<vNodes, fulfilled, askedList, askedWinners>>
vars == <<syncVars, peerVars, chainSynced, enabled, resets, changes>>

Asset == {"initial", "sporks", "list", "mnw", "gm", "failed", "finished"}
Request == {"getspork", "mnsync", "mnwsync", "getgm"}

Init ==
    /\ asset = "initial" /\ attempt = 0
    /\ lastList = "none" /\ seen = 0 /\ lastWinner = FALSE /\ countWinner = 0
    /\ timedOut = FALSE /\ retryDue = FALSE
    /\ vNodes = Peer
    /\ fulfilled = [p \in Peer |-> {}]
    /\ askedList = {} /\ askedWinners = {}
    /\ chainSynced = FALSE
    /\ enabled \in {"none", "some", "many"}  \* those of mncache.dat
    /\ resets = 0 /\ changes = 0

------------------------------------------------------------------------------
(* The steps Process is made of.                                            *)

\* CMasternodeSync::Reset.
ResetSync ==
    /\ asset' = "initial" /\ attempt' = 0
    /\ lastList' = "none" /\ seen' = 0 /\ lastWinner' = FALSE /\ countWinner' = 0
    /\ timedOut' = FALSE /\ retryDue' = FALSE

NextAsset(s) ==
    CASE s \in {"initial", "failed"} -> "sporks"
      [] s = "sporks" -> "list"
      [] s = "list" -> "mnw"
      [] s = "mnw" -> "gm"
      [] s = "gm" -> "finished"

\* GetNextAsset.
GetNextAsset ==
    /\ asset' = NextAsset(asset)
    /\ attempt' = 0
    /\ timedOut' = FALSE
    /\ UNCHANGED <<lastList, seen, lastWinner, countWinner, retryDue>>

\* The attempt to synchronise has failed, "will retry later".
Fail ==
    /\ asset' = "failed"
    /\ attempt' = 0
    /\ retryDue' = FALSE
    /\ UNCHANGED <<lastList, seen, lastWinner, countWinner, timedOut>>

Unasked(request) == {p \in vNodes : request \notin fulfilled[p]}

MarkFulfilled(S, request) ==
    fulfilled' = [p \in Peer |-> IF p \in S THEN fulfilled[p] \cup {request} ELSE fulfilled[p]]

\* Mutant: as many requests as there are peers are waited for.
MutantRequestOnce(request, enough) ==
    \E p \in Unasked(request) :
        IF attempt > enough
        THEN GetNextAsset /\ UNCHANGED peerVars
        ELSE /\ attempt' = attempt + 1
             /\ MarkFulfilled({p}, request)
             /\ UNCHANGED <<asset, lastList, seen, lastWinner, countWinner, timedOut, retryDue,
                            vNodes, askedList, askedWinners>>

\* Process in the states "sporks" and "gm": every peer is asked once, until
\* enough were; it takes one more peer to notice that.
RequestOnce(request, enough) ==
    \E p \in Unasked(request) :
        IF attempt >= enough
        THEN GetNextAsset /\ UNCHANGED peerVars
        ELSE /\ attempt' = attempt + 1
             /\ MarkFulfilled({p}, request)
             /\ UNCHANGED <<asset, lastList, seen, lastWinner, countWinner, timedOut, retryDue,
                            vNodes, askedList, askedWinners>>

\* The rest of the loop in the states "list" and "mnw".  A peer that was asked
\* by this address before is marked, and the next one is tried (DsegUpdate and
\* WinnersUpdate return false).
RequestItems(request, nothing, asked) ==
    \E p \in Unasked(request) \ OldPeer :
        IF nothing /\ (attempt >= Threshold * 3 \/ timedOut)
        THEN /\ IF Enforced /\ enabled = "many" THEN Fail ELSE GetNextAsset
             /\ MarkFulfilled({p}, request)
             /\ UNCHANGED <<askedList, askedWinners>>
        ELSE IF attempt >= Threshold * 3
        THEN MarkFulfilled({p}, request) /\ UNCHANGED <<syncVars, askedList, askedWinners>>
        ELSE \E S \in SUBSET ((Unasked(request) \cap asked) \ OldPeer) :
             /\ \/ /\ p \notin asked
                   /\ MarkFulfilled(S \cup {p}, request)
                   /\ attempt' = attempt + 1
                   /\ askedList' = IF request = "mnsync" THEN askedList \cup {p} ELSE askedList
                   /\ askedWinners' = IF request = "mnwsync" THEN askedWinners \cup {p}
                                                            ELSE askedWinners
                \/ /\ S = Unasked(request) \ OldPeer  \* all of them were asked before
                   /\ MarkFulfilled(S, request)
                   /\ UNCHANGED <<attempt, askedList, askedWinners>>
             /\ UNCHANGED <<asset, lastList, seen, lastWinner, countWinner, timedOut, retryDue>>

\* Moving on from the list: nothing new for five seconds.
ListDone == lastList = "before" /\ attempt >= Threshold

\* Moving on from the winners.
WinnersDone == (lastWinner \/ countWinner >= Threshold) /\ attempt >= Threshold

------------------------------------------------------------------------------
(* Process, every MASTERNODE_SYNC_TIMEOUT seconds.                          *)

\* ClearFulfilledRequest, unless cs_vNodes is taken: "getgm" is not cleared.
ClearFulfilledRequest(gotLock) ==
    fulfilled' = IF gotLock THEN [p \in Peer |-> fulfilled[p] \cap {"getgm"}] ELSE fulfilled

\* One call of Process does ProcessReset, ProcessStart and ProcessAsset in this
\* order, as far as they apply.  It holds no lock between them, so messages and
\* a reset by another thread may come in between.
ProcessStart(gotLock) ==
    /\ asset = "initial"
    /\ GetNextAsset
    /\ ClearFulfilledRequest(gotLock)
    /\ UNCHANGED <<vNodes, askedList, askedWinners, chainSynced, enabled, resets, changes>>

\* "Resync if we lose all masternodes", or after a failure.
ProcessReset ==
    /\ \/ asset = "finished" /\ Enforced /\ enabled = "none" /\ resets + changes < MaxEvents
       \/ asset = "failed" /\ retryDue /\ resets + changes < MaxEvents
    /\ ResetSync
    /\ resets' = resets + 1
    /\ UNCHANGED <<peerVars, chainSynced, enabled, changes>>

\* The loop over vNodes, when cs_vNodes was free.
ProcessAsset ==
    /\ \/ asset = "sporks" /\ RequestOnce("getspork", Threshold)
       \/ /\ asset = "list" /\ chainSynced
          /\ IF ListDone
             THEN vNodes \ OldPeer # {} /\ GetNextAsset /\ UNCHANGED peerVars
             ELSE RequestItems("mnsync", lastList = "none", askedList) /\ UNCHANGED vNodes
       \/ /\ asset = "mnw" /\ chainSynced
          /\ IF WinnersDone
             THEN vNodes \ OldPeer # {} /\ GetNextAsset /\ UNCHANGED peerVars
             ELSE RequestItems("mnwsync", ~ lastWinner, askedWinners) /\ UNCHANGED vNodes
       \/ asset = "gm" /\ chainSynced /\ RequestOnce("getgm", 2)
    /\ UNCHANGED <<chainSynced, enabled, resets, changes>>

------------------------------------------------------------------------------
(* What the peers send.                                                     *)

\* AddedMasternodeList: a broadcast not seen too often.
AddedMasternodeList ==
    /\ chainSynced
    /\ seen < MaxSeen
    /\ seen' = seen + 1
    /\ lastList' = "recent"
    /\ enabled' \in {enabled, "some", "many"}
    /\ UNCHANGED <<asset, attempt, lastWinner, countWinner, timedOut, retryDue, peerVars,
                   chainSynced, resets, changes>>

\* AddedMasternodeWinner.
AddedMasternodeWinner ==
    /\ chainSynced /\ ~ lastWinner
    /\ lastWinner' = TRUE
    /\ UNCHANGED <<asset, attempt, lastList, seen, countWinner, timedOut, retryDue, peerVars,
                   chainSynced, enabled, resets, changes>>

\* "ssc" for the winners.  A peer on the active protocol answers "mnget" with the
\* votes alone (CMasternodePayments::Sync), or not at all when cs_main is taken;
\* one that does not know the new protocol's spork yet sends a count.  A count for
\* the list is added up and never used.
SyncStatusCount ==
    /\ asset = "mnw" /\ countWinner < attempt /\ countWinner < Threshold
    /\ countWinner' = countWinner + 1
    /\ UNCHANGED <<asset, attempt, lastList, seen, lastWinner, timedOut, retryDue, peerVars,
                   chainSynced, enabled, resets, changes>>

------------------------------------------------------------------------------
(* Time, the chain, the masternodes and the connections.                    *)

\* Five seconds without a broadcast.
ListQuiet ==
    /\ lastList = "recent"
    /\ lastList' = "before"
    /\ UNCHANGED <<asset, attempt, seen, lastWinner, countWinner, timedOut, retryDue, peerVars,
                   chainSynced, enabled, resets, changes>>

\* 25 seconds in one state; while the chain is not synchronised, Process starts
\* the clock again.
TimeOut ==
    /\ asset \in {"list", "mnw"} /\ chainSynced /\ ~ timedOut
    /\ timedOut' = TRUE
    /\ UNCHANGED <<asset, attempt, lastList, seen, lastWinner, countWinner, retryDue, peerVars,
                   chainSynced, enabled, resets, changes>>

\* Ten seconds since the failure.
RetryDue ==
    /\ asset = "failed" /\ ~ retryDue
    /\ retryDue' = TRUE
    /\ UNCHANGED <<asset, attempt, lastList, seen, lastWinner, countWinner, timedOut, peerVars,
                   chainSynced, enabled, resets, changes>>

\* IsBlockchainSynced finds a recent tip.
ChainSynced ==
    /\ ~ chainSynced
    /\ chainSynced' = TRUE
    /\ UNCHANGED <<syncVars, peerVars, enabled, resets, changes>>

\* IsBlockchainSynced was not called for an hour: the computer slept; or the
\* user says "mnsync reset".
Reset(slept) ==
    /\ resets + changes < MaxEvents
    /\ ResetSync
    /\ resets' = resets + 1
    /\ chainSynced' = (chainSynced /\ ~ slept)
    /\ UNCHANGED <<peerVars, enabled, changes>>

\* The masternodes of the list expire.
MasternodesLost ==
    /\ enabled # "none"
    /\ resets + changes < MaxEvents
    /\ enabled' = "none"
    /\ changes' = changes + 1
    /\ UNCHANGED <<syncVars, peerVars, chainSynced, resets>>

\* Mutant: what a peer was asked is kept when its CNode goes.
MutantDisconnect(p) ==
    /\ p \in vNodes
    /\ resets + changes < MaxEvents
    /\ changes' = changes + 1
    /\ vNodes' = vNodes \ {p}
    /\ UNCHANGED <<fulfilled, syncVars, askedList, askedWinners, chainSynced, enabled, resets>>

\* A peer goes, or comes (again): its CNode is a new one.
Disconnect(p) ==
    /\ p \in vNodes
    /\ resets + changes < MaxEvents
    /\ changes' = changes + 1
    /\ vNodes' = vNodes \ {p}
    /\ fulfilled' = [fulfilled EXCEPT ![p] = {}]
    /\ UNCHANGED <<syncVars, askedList, askedWinners, chainSynced, enabled, resets>>

Connect(p) ==
    /\ p \notin vNodes
    /\ vNodes' = vNodes \cup {p}
    /\ UNCHANGED <<syncVars, fulfilled, askedList, askedWinners, chainSynced, enabled, resets, changes>>

\* CheckAndRemove, hours later: the peers may be asked by their address again.
AskAgain ==
    /\ askedList \cup askedWinners # {}
    /\ resets + changes < MaxEvents
    /\ changes' = changes + 1
    /\ askedList' = {} /\ askedWinners' = {}
    /\ UNCHANGED <<syncVars, vNodes, fulfilled, chainSynced, enabled, resets>>

------------------------------------------------------------------------------
Next ==
    \/ \E gotLock \in BOOLEAN : ProcessStart(gotLock)
    \/ ProcessReset
    \/ ProcessAsset
    \/ AddedMasternodeList
    \/ AddedMasternodeWinner
    \/ SyncStatusCount
    \/ ListQuiet
    \/ TimeOut
    \/ RetryDue
    \/ ChainSynced
    \/ \E slept \in BOOLEAN : Reset(slept)
    \/ MasternodesLost
    \/ \E p \in Peer : Disconnect(p)
    \/ \E p \in Peer : Connect(p)
    \/ AskAgain

\* The obfuscation thread calls Process again and again, and finds cs_vNodes free
\* now and then; time passes and the chain catches up.  Nobody has to answer.
Fairness ==
    /\ WF_vars(\E gotLock \in BOOLEAN : ProcessStart(gotLock))
    /\ WF_vars(ProcessReset)
    /\ WF_vars(ProcessAsset)
    /\ WF_vars(RetryDue)
    /\ WF_vars(ChainSynced)
    /\ WF_vars(ListQuiet)
    /\ WF_vars(TimeOut)

Spec == Init /\ [][Next]_vars /\ Fairness

\* The network of an active chain: broadcasts and votes come, asked for or not.
SpecAnswered ==
    /\ Spec
    /\ WF_vars(AddedMasternodeList)
    /\ WF_vars(AddedMasternodeWinner)

------------------------------------------------------------------------------
(* Properties.                                                              *)

\* Every variable has its type, and no request is marked for a peer that is gone.
TypeOK ==
    /\ asset \in Asset /\ attempt \in 0 .. Threshold * 3
    /\ lastList \in {"none", "recent", "before"} /\ seen \in 0 .. MaxSeen
    /\ {lastWinner, timedOut, retryDue, chainSynced} \subseteq BOOLEAN
    /\ countWinner \in 0 .. Threshold
    /\ vNodes \subseteq Peer /\ fulfilled \in [Peer -> SUBSET Request]
    /\ \A p \in Peer \ vNodes : fulfilled[p] = {}
    /\ askedList \subseteq Peer /\ askedWinners \subseteq Peer
    /\ enabled \in {"none", "some", "many"}
    /\ resets \in 0 .. MaxEvents /\ changes \in 0 .. MaxEvents

\* Every peer that can be asked in this stage was, and nothing has come.
Unanswered ==
    \/ asset = "list" /\ lastList = "none" /\ Unasked("mnsync") \subseteq OldPeer
    \/ /\ asset = "mnw" /\ ~ lastWinner /\ countWinner < Threshold
       /\ Unasked("mnwsync") \subseteq OldPeer

Ended == asset = "finished" \/ resets > 0 \/ changes > 0

\* The first synchronisation comes to its end with the peers there are, unless
\* it is reset or connections change; but for one case: every peer was asked
\* before the time was over, and no broadcast, or no vote, ever comes.  Every
\* other wait of Process is ended by an answer, a peer not yet asked or a timeout.
\* (With Threshold peers that can be asked; with fewer it also waits for more.)
SyncFinishes == <>Ended \/ <>[]Unanswered

\* masternode-sync.cpp:371 "timeout": a stage nobody answers in is given up.
SyncTimesOut == <>Ended

\* masternode-sync.cpp:242 "try syncing again": a synchronisation that starts
\* again also comes to its end, or fails and is tried once more, with the peers
\* there are.
ResyncFinishes == (asset = "initial") ~> (asset \in {"finished", "failed"} \/ changes > 0)

=============================================================================
