----------------------------- MODULE BlockSync -----------------------------
(***************************************************************************)
(* How a node catches up with the chain of its peers: getblocks, inv,      *)
(* getdata and block (main.cpp).  Headers-first download is switched off   *)
(* (chainparams.cpp:178), so this is the only way blocks come.             *)
(*                                                                         *)
(* One node is modelled, and of each peer the part of the same program     *)
(* that serves it.  The peers have one chain, whose blocks are numbered by *)
(* their height; forks are a matter of ChainState.  The node keeps no      *)
(* block whose parent it does not know.  A connection delivers in order.   *)
(***************************************************************************)
EXTENDS Integers, Sequences, FiniteSets

CONSTANTS
    Peer,
    Silent,      \* the peers that never answer
    Preferred,   \* fPreferredDownload: those this node connected to
    FirstTip,    \* the height of the peers' chain at the start
    Recent,      \* the height from which blocks are less than six hours old
    Limit,       \* the limit of 500 blocks in an answer to getblocks
    MaxEvents    \* bound on the new blocks and the connections that end

ASSUME PeerAssumption ==
    IsFiniteSet(Peer) /\ Silent \subseteq Peer /\ Preferred \subseteq Peer
ASSUME HeightAssumption == {FirstTip, Recent, MaxEvents} \subseteq Nat
ASSUME LimitAssumption == Limit \in Nat \ {0}
\* Six hours are at most 360 blocks.
ASSUME RecentAssumption == FirstTip + MaxEvents - Recent < Limit

VARIABLES
    height,    \* the node has the blocks up to this one (mapBlockIndex)
    vNodes,    \* the peers it is connected to
    fSyncStarted,    \* those it has asked for their blocks at first
    nSyncStarted,
    vBlockRequested, \* of each peer, the blocks the node asked to be led to
    toPeer,    \* messages on the way to a peer
    toNode,    \* messages on the way from a peer
    tip,       \* the height of the peers' chain
    known,     \* what a peer thinks the node knows: its setInventoryKnown (the
               \* last 1000 entries, two batches, of which none is forgotten here)
    inventory, \* what it will announce: its vInventoryToSend
    hashContinue,  \* the block after which it offers its tip, or 0
    drops      \* the connections that ended, but for those of silent peers

nodeVars == <<height, fSyncStarted, nSyncStarted, vBlockRequested>>
peerVars == <<known, inventory, hashContinue>>
vars == <<nodeVars, vNodes, toPeer, toNode, tip, peerVars, drops>>

MaxTip == FirstTip + MaxEvents
Block == 1 .. MaxTip
NoStop == 0  \* uint256(0)

GetBlocks(locator, stop) == [type |-> "getblocks", locator |-> locator, stop |-> stop]
GetData(blocks) == [type |-> "getdata", blocks |-> blocks]
Inv(blocks) == [type |-> "inv", blocks |-> blocks]
BlockMsg(n) == [type |-> "block", block |-> n]

Ran(s) == {s[i] : i \in DOMAIN s}

\* The numbers from a to b, in order.
Heights(a, b) == [i \in 1 .. b - a + 1 |-> a + i - 1]

Init ==
    /\ height = 0
    /\ vNodes = Peer
    /\ fSyncStarted = {} /\ nSyncStarted = 0
    /\ vBlockRequested = [p \in Peer |-> {}]
    /\ toPeer = [p \in Peer |-> <<>>] /\ toNode = [p \in Peer |-> <<>>]
    /\ tip = FirstTip
    /\ known = [p \in Peer |-> {}] /\ inventory = [p \in Peer |-> <<>>]
    /\ hashContinue = [p \in Peer |-> 0]
    /\ drops = 0

------------------------------------------------------------------------------
(* The node.                                                                *)

\* fFetch: a nice peer, or there are no nice peers.
Fetch(p) == p \in Preferred \/ vNodes \cap Preferred = {}

\* "Only actively request headers from a single peer, unless we're close to end
\* of initial download".
MayStart(p) == Fetch(p) /\ (nSyncStarted = 0 \/ height >= Recent)

\* SendMessages, "Start block sync".
StartSync(p) ==
    /\ p \in vNodes \ fSyncStarted
    /\ MayStart(p)
    /\ fSyncStarted' = fSyncStarted \cup {p}
    /\ nSyncStarted' = nSyncStarted + 1
    /\ toPeer' = [toPeer EXCEPT ![p] = Append(@, GetBlocks(height, NoStop))]
    /\ UNCHANGED <<height, vBlockRequested, vNodes, toNode, tip, peerVars, drops>>

\* The next message from p is of this type.
Receives(p, type) == toNode[p] # <<>> /\ Head(toNode[p]).type = type

\* "inv": what is not known is asked for, whoever else was asked for it.
ReceiveInv(p) ==
    /\ Receives(p, "inv")
    /\ LET fetch == SelectSeq(Head(toNode[p]).blocks, LAMBDA n : n > height)
       IN  toPeer' = IF fetch = <<>> THEN toPeer
                     ELSE [toPeer EXCEPT ![p] = Append(@, GetData(fetch))]
    /\ toNode' = [toNode EXCEPT ![p] = Tail(@)]
    /\ UNCHANGED <<nodeVars, vNodes, tip, peerVars, drops>>

\* "block" with a parent that is not known: the block is dropped.  The node asks
\* to be led to it; the second time, to its parent.
ReceiveDetached(p) ==
    LET n == Head(toNode[p]).block
        stop == IF n \in vBlockRequested[p] THEN n - 1 ELSE n
    IN
    /\ Receives(p, "block")
    /\ n - 1 > height
    /\ toPeer' = [toPeer EXCEPT ![p] = Append(@, GetBlocks(height, stop))]
    /\ vBlockRequested' = [vBlockRequested EXCEPT ![p] = @ \cup {stop}]
    /\ toNode' = [toNode EXCEPT ![p] = Tail(@)]
    /\ UNCHANGED <<height, fSyncStarted, nSyncStarted, vNodes, tip, peerVars, drops>>

\* "block" with a known parent: new, or already processed.
ReceiveBlock(p) ==
    LET n == Head(toNode[p]).block IN
    /\ Receives(p, "block")
    /\ n - 1 <= height
    /\ height' = IF n > height THEN n ELSE height
    /\ toNode' = [toNode EXCEPT ![p] = Tail(@)]
    /\ UNCHANGED <<fSyncStarted, nSyncStarted, vBlockRequested, vNodes, toPeer, tip, peerVars, drops>>

------------------------------------------------------------------------------
(* The peers.                                                               *)

\* The next message to p is of this type, and p reads it.
Serves(p, type) == p \notin Silent /\ toPeer[p] # <<>> /\ Head(toPeer[p]).type = type

\* vInventoryToSend of p after PushInventory for each of the blocks.  A second
\* entry of a block would be skipped when the first is sent, and is left out.
PushInventory(p, blocks) ==
    inventory[p] \o SelectSeq(blocks, LAMBDA n : n \notin known[p] \cup Ran(inventory[p]))

\* "getblocks": the blocks after the last common one, before hashStop, at most
\* Limit of them.
ServeGetBlocks(p) ==
    LET m == Head(toPeer[p])
        end == IF m.stop > m.locator /\ m.stop <= tip THEN m.stop - 1 ELSE tip
        full == m.locator + Limit <= end
        last == IF full THEN m.locator + Limit ELSE end
    IN
    /\ Serves(p, "getblocks")
    /\ inventory' = [inventory EXCEPT ![p] = PushInventory(p, Heights(m.locator + 1, last))]
    /\ hashContinue' = IF full THEN [hashContinue EXCEPT ![p] = last] ELSE hashContinue
    /\ toPeer' = [toPeer EXCEPT ![p] = Tail(@)]
    /\ UNCHANGED <<nodeVars, vNodes, toNode, tip, known, drops>>

\* Mutant: no tip is offered after the last block of a batch.
MutantOffer(p, n) == <<>>

\* "Trigger them to send a getblocks request for the next batch", bypassing
\* PushInventory.
Offer(p, n) == IF n = hashContinue[p] THEN <<Inv(<<tip>>)>> ELSE <<>>

\* "getdata", ProcessGetData.
ServeGetData(p) ==
    LET blocks == Head(toPeer[p]).blocks
        answer[i \in 0 .. Len(blocks)] ==
            IF i = 0 THEN <<>>
            ELSE (answer[i - 1] \o <<BlockMsg(blocks[i])>>) \o Offer(p, blocks[i])
    IN
    /\ Serves(p, "getdata")
    /\ toNode' = [toNode EXCEPT ![p] = @ \o answer[Len(blocks)]]
    /\ hashContinue' = [hashContinue EXCEPT ![p] = IF @ \in Ran(blocks) THEN 0 ELSE @]
    /\ toPeer' = [toPeer EXCEPT ![p] = Tail(@)]
    /\ UNCHANGED <<nodeVars, vNodes, tip, known, inventory, drops>>

\* SendMessages of a peer, "Message: inventory".
SendInventory(p) ==
    LET news == SelectSeq(inventory[p], LAMBDA n : n \notin known[p]) IN
    /\ p \in vNodes \ Silent
    /\ inventory[p] # <<>>
    /\ toNode' = IF news = <<>> THEN toNode ELSE [toNode EXCEPT ![p] = Append(@, Inv(news))]
    /\ known' = [known EXCEPT ![p] = @ \cup Ran(news)]
    /\ inventory' = [inventory EXCEPT ![p] = <<>>]
    /\ UNCHANGED <<nodeVars, vNodes, toPeer, tip, hashContinue, drops>>

\* A new block: ActivateBestChain of the peers announces it.
NewTip ==
    /\ drops + (tip - FirstTip) < MaxEvents
    /\ tip' = tip + 1
    /\ inventory' = [p \in Peer |-> IF p \in vNodes \ Silent
                                    THEN PushInventory(p, <<tip + 1>>) ELSE inventory[p]]
    /\ UNCHANGED <<nodeVars, vNodes, toPeer, toNode, known, hashContinue, drops>>

------------------------------------------------------------------------------
(* Connections.                                                             *)

\* Mutant: a peer that goes stays counted.
MutantFinalizeNode(p) == UNCHANGED nSyncStarted /\ fSyncStarted' = fSyncStarted \ {p}

\* FinalizeNode.
FinalizeNode(p) ==
    /\ nSyncStarted' = IF p \in fSyncStarted THEN nSyncStarted - 1 ELSE nSyncStarted
    /\ fSyncStarted' = fSyncStarted \ {p}

\* The connection to p ends: a timeout of a peer that does not answer pings, or
\* p goes.
Disconnect(p) ==
    /\ p \in vNodes
    /\ p \notin Silent => drops + (tip - FirstTip) < MaxEvents
    /\ drops' = IF p \in Silent THEN drops ELSE drops + 1
    /\ FinalizeNode(p)
    /\ vNodes' = vNodes \ {p}
    /\ vBlockRequested' = [vBlockRequested EXCEPT ![p] = {}]
    /\ toPeer' = [toPeer EXCEPT ![p] = <<>>]
    /\ toNode' = [toNode EXCEPT ![p] = <<>>]
    /\ known' = [known EXCEPT ![p] = {}]
    /\ inventory' = [inventory EXCEPT ![p] = <<>>]
    /\ hashContinue' = [hashContinue EXCEPT ![p] = 0]
    /\ UNCHANGED <<height, tip>>

\* ThreadOpenConnections, to a peer that answered before.
Connect(p) ==
    /\ p \notin vNodes \cup Silent
    /\ vNodes' = vNodes \cup {p}
    /\ UNCHANGED <<nodeVars, toPeer, toNode, tip, peerVars, drops>>

------------------------------------------------------------------------------
Next ==
    \/ \E p \in Peer : StartSync(p)
    \/ \E p \in Peer : ReceiveInv(p)
    \/ \E p \in Peer : ReceiveDetached(p)
    \/ \E p \in Peer : ReceiveBlock(p)
    \/ \E p \in Peer : ServeGetBlocks(p)
    \/ \E p \in Peer : ServeGetData(p)
    \/ \E p \in Peer : SendInventory(p)
    \/ NewTip
    \/ \E p \in Peer : Disconnect(p)
    \/ \E p \in Peer : Connect(p)

\* The message threads of the node and of the peers that answer go on, peers that
\* do not are found out, and connections are made again.
Fairness ==
    \A p \in Peer :
        /\ WF_vars(StartSync(p))
        /\ WF_vars(ReceiveInv(p)) /\ WF_vars(ReceiveDetached(p)) /\ WF_vars(ReceiveBlock(p))
        /\ WF_vars(ServeGetBlocks(p)) /\ WF_vars(ServeGetData(p)) /\ WF_vars(SendInventory(p))
        /\ WF_vars(p \in Silent /\ Disconnect(p))
        /\ WF_vars(Connect(p))

Spec == Init /\ [][Next]_vars /\ Fairness

------------------------------------------------------------------------------
(* Properties.                                                              *)

\* A message to a peer, or from it.
ToPeerMsg ==
    [type : {"getblocks"}, locator : 0 .. MaxTip, stop : 0 .. MaxTip] \cup
    [type : {"getdata"}, blocks : Seq(Block)]
ToNodeMsg ==
    [type : {"inv"}, blocks : Seq(Block)] \cup [type : {"block"}, block : Block]

\* Every variable has its type, and nSyncStarted counts the peers that were asked.
TypeOK ==
    /\ height \in 0 .. MaxTip /\ tip \in 0 .. MaxTip /\ height <= tip
    /\ vNodes \subseteq Peer /\ fSyncStarted \subseteq vNodes
    /\ nSyncStarted = Cardinality(fSyncStarted)
    /\ \A p \in Peer :
        /\ vBlockRequested[p] \subseteq Block
        /\ Ran(toPeer[p]) \subseteq ToPeerMsg /\ Ran(toNode[p]) \subseteq ToNodeMsg
        /\ known[p] \cup Ran(inventory[p]) \subseteq Block
        /\ hashContinue[p] \in 0 .. MaxTip
    /\ drops \in 0 .. MaxEvents

\* "we'll send an inv that'll make them getblocks the next batch of inventory"
\* (main.cpp:5001): the node reaches the tip that its peers had when it started, if
\* two of them answer, also when the one it asks first does not, connections end
\* or the chain grows.  The second makes up for what the first leaves out: blocks
\* that the node got too early and dropped, and that its getblocks exclude.
CatchesUp == <>(height >= FirstTip)

\* "ask to sync to this block" (main.cpp:5278): a node that is behind comes to the
\* tip of its peers in the end.
CatchesUpAlways == <>[](height = tip)

=============================================================================
