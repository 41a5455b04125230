------------------------- MODULE MasternodePayments -------------------------
(***************************************************************************)
(* Who is paid in which block (masternode-payments.cpp).  The masternodes  *)
(* with the best ranks vote some blocks ahead for one payee of each level; *)
(* a node counts the votes it receives, refuses a block that does not pay  *)
(* a payee with enough of them, and pays the one with most in its own.     *)
(*                                                                         *)
(* All of it lives in memory: a node that starts asks a peer for the votes *)
(* ("mnget", answered by Sync with a pack that is not relayed).  The nodes *)
(* are at the same height; their masternode lists agree, except that a     *)
(* node may still have an old key of a masternode.  Heights are counted    *)
(* from a block so far up that nHeight less a cycle is not negative and    *)
(* height times level (the key of Sync) tells height and level.            *)
(***************************************************************************)
EXTENDS Integers, Sequences, FiniteSets

CONSTANTS
    Node,
    Masternode,
    Self,        \* the masternode a node runs, or None
    None,
    Payee,       \* the addresses of the masternodes' collaterals
    MaxLevel,    \* CMasternode::LevelValue::MAX
    LevelOf,     \* the level of the masternode that Find(payee) returns
    PayeesAt,    \* the addresses of the masternodes at a level
    Payment,     \* GetMasternodePayment of a level
    Ranked,      \* GetMasternodeRank: the first MNPAYMENTS_SIGNATURES_TOTAL
                 \* for a height
    Total,       \* MNPAYMENTS_SIGNATURES_TOTAL
    Required,    \* MNPAYMENTS_SIGNATURES_REQUIRED
    Ahead,       \* votes are for the block 10 after the tip
    Keep,        \* nLimit of CleanPaymentList
    HashOrder,   \* all votes, in the order of their hashes
    Outdated,    \* the masternodes whose key a node does not know yet
    MaxTip,      \* bound on the chain
    MaxVoted,    \* bound on the heights voted on
    MaxSent,     \* bound on the votes
    MaxRestarts  \* bound on the restarts of nodes and masternodes

Level == 1 .. MaxLevel
Height == 1 .. MaxTip + Ahead
Vote == [mn : Masternode, height : Height, payee : Payee]

ASSUME SelfAssumption ==
    Self \in [Node -> Masternode \cup {None}] /\ None \notin Masternode \cup Payee
ASSUME LevelAssumption ==
    /\ MaxLevel \in Nat
    /\ LevelOf \in [Payee -> Level]
    /\ PayeesAt \in [Level -> SUBSET Payee]
    /\ \A p \in Payee : p \in PayeesAt[LevelOf[p]]
    /\ Payment \in [Level -> Nat]
ASSUME FiniteAssumption == IsFiniteSet(Masternode) /\ IsFiniteSet(Payee)
ASSUME RankAssumption ==
    /\ Total \in Nat /\ Required \in Nat \ {0}
    /\ Ranked \in [Height -> SUBSET Masternode]
    /\ \A h \in Height : Cardinality(Ranked[h]) <= Total
ASSUME BoundsAssumption ==
    /\ Ahead \in Nat \ {0} /\ Keep \in Nat
    /\ {MaxTip, MaxVoted, MaxSent, MaxRestarts} \subseteq Nat
ASSUME OrderAssumption ==
    /\ HashOrder \in Seq(Vote) /\ Vote = {HashOrder[i] : i \in DOMAIN HashOrder}
    /\ \A i, j \in DOMAIN HashOrder : HashOrder[i] = HashOrder[j] => i = j
ASSUME OutdatedAssumption == Outdated \in [Node -> SUBSET Masternode]

VARIABLES
    tip,       \* the height of the active chain
    sent,      \* the votes that masternodes have made; any node may get any of
               \* them, in any order, again and again, or never
    payments,  \* CMasternodePayments of each node: mapMasternodePayeeVotes with the
               \* level of each vote, mapMasternodeBlocks, and mapMasternodesLastVote,
               \* 0 where there is none
    nLastBlockHeight,
    outdated,  \* the masternodes whose key a node does not know
    pack,      \* the answer to its "mnget" on its way
    asked,     \* the nodes that have asked since they started
    restarts

vars == <<tip, sent, payments, nLastBlockHeight, outdated, pack, asked, restarts>>

NoPayments ==
    [votes |-> <<>>, blocks |-> [h \in Height |-> <<>>],
     lastVote |-> [k \in Masternode \X Level |-> 0]]

Init ==
    /\ tip = 0
    /\ sent = {}
    /\ payments = [n \in Node |-> NoPayments]
    /\ nLastBlockHeight = [n \in Node |-> 0]
    /\ outdated = Outdated
    /\ pack = [n \in Node |-> {}]
    /\ asked = Node
    /\ restarts = 0

\* CountEnabled, and the cycle it gives.
CountEnabled(level) == Cardinality(PayeesAt[level])
Cycle(level) == (CountEnabled(level) * 5) \div 4

------------------------------------------------------------------------------
(* CMasternodeBlockPayees: the payees of a block, in the order in which the *)
(* first vote for each came.                                                *)

\* Mutant: the votes for a level are added up.
MutantAddPayee(block, level, payee) ==
    LET old == {i \in DOMAIN block : block[i].mnlevel = level} IN
    IF old = {} THEN Append(block, [payee |-> payee, mnlevel |-> level, nVotes |-> 1])
    ELSE [i \in DOMAIN block |-> IF i \in old THEN [block[i] EXCEPT !.nVotes = @ + 1] ELSE block[i]]

\* AddPayee looks for the address only; the level stays that of the first vote.
AddPayee(block, level, payee) ==
    LET old == {i \in DOMAIN block : block[i].payee = payee} IN
    IF old = {} THEN Append(block, [payee |-> payee, mnlevel |-> level, nVotes |-> 1])
    ELSE [i \in DOMAIN block |-> IF i \in old THEN [block[i] EXCEPT !.nVotes = @ + 1] ELSE block[i]]

At(block, level) == {i \in DOMAIN block : block[i].mnlevel = level}

\* Mutant: the payee whose votes came first.
MutantGetPayee(block, level) ==
    IF At(block, level) = {} THEN None
    ELSE block[CHOOSE i \in At(block, level) : \A j \in At(block, level) : i <= j].payee

\* GetPayee: most votes, the first of equals.
GetPayee(block, level) ==
    IF At(block, level) = {} THEN None
    ELSE block[CHOOSE i \in At(block, level) : \A j \in At(block, level) :
                  \/ block[i].nVotes > block[j].nVotes
                  \/ block[i].nVotes = block[j].nVotes /\ i <= j].payee

\* An output of the block's reward pays the address at least what its level gets.
Pays(paid, payee, level) ==
    \E l \in Level : paid[l] = payee /\ Payment[l] >= Payment[level]

\* IsTransactionValid: for each level with a payee that has enough votes, one of
\* those is paid.
IsTransactionValid(block, paid) ==
    LET enough == {i \in DOMAIN block : block[i].nVotes >= Required} IN
    \A i \in enough : \E j \in enough :
        block[j].mnlevel = block[i].mnlevel /\ Pays(paid, block[j].payee, block[j].mnlevel)

------------------------------------------------------------------------------
(* CMasternodePayments.                                                     *)

\* AddWinningMasternode.
AddWinningMasternode(P, v, level) ==
    IF v \in DOMAIN P.votes THEN P
    ELSE [P EXCEPT !.votes = [u \in DOMAIN @ \cup {v} |-> IF u = v THEN level ELSE @[u]],
                   !.blocks[v.height] = AddPayee(@, level, v.payee)]

\* CMasternodePaymentWinner::IsValid.
IsValid(v) == v.mn \in Ranked[v.height]

\* The heights a message may be about.
InRange(v, inPack) ==
    /\ v.height >= tip - Cycle(LevelOf[v.payee]) - (IF inPack THEN 1 ELSE 0)
    /\ v.height <= tip + 2 * Ahead

\* CanVote, which remembers the vote even if it is refused later on.
CanVote(P, v) == P.lastVote[<<v.mn, LevelOf[v.payee]>>] < v.height

NoteVote(P, v) ==
    IF CanVote(P, v) THEN [P EXCEPT !.lastVote[<<v.mn, LevelOf[v.payee]>>] = v.height] ELSE P

\* The handlers of "mnw" and of each vote in an "mnwp".  A vote that is not the
\* first of its masternode is refused, unless it comes in a pack that is not to
\* be relayed; one whose signature fails with the key at hand (old), always.
ProcessVote(P, v, inPack, bRelay, old) ==
    IF v \in DOMAIN P.votes \/ ~ IsValid(v) \/ ~ InRange(v, inPack) THEN P
    ELSE IF (bRelay /\ ~ CanVote(P, v)) \/ v.mn \in old THEN NoteVote(P, v)
    ELSE AddWinningMasternode(NoteVote(P, v), v, LevelOf[v.payee])

\* A vote comes as an "mnw", or in an "mnwp" that goes round.
ReceiveVote(n, v, inPack) ==
    /\ v \in sent
    /\ payments' = [payments EXCEPT ![n] = ProcessVote(@, v, inPack, TRUE, outdated[n])]
    /\ UNCHANGED <<tip, sent, nLastBlockHeight, outdated, pack, asked, restarts>>

\* The votes of an "mnwp" that is not to be relayed, in the order of their hashes.
ProcessPack(P, votes, old) ==
    LET after[i \in 0 .. Len(HashOrder)] ==
            IF i = 0 THEN P
            ELSE IF HashOrder[i] \notin votes THEN after[i - 1]
            ELSE ProcessVote(after[i - 1], HashOrder[i], TRUE, FALSE, old)
    IN  after[Len(HashOrder)]

\* The answer of Sync comes.
ReceivePack(n) ==
    /\ pack[n] # {}
    /\ payments' = [payments EXCEPT ![n] = ProcessPack(@, pack[n], outdated[n])]
    /\ pack' = [pack EXCEPT ![n] = {}]
    /\ UNCHANGED <<tip, sent, nLastBlockHeight, outdated, asked, restarts>>

\* The votes of V before v for the same height and level, in the order of hashes.
Position(v) == CHOOSE i \in DOMAIN HashOrder : HashOrder[i] = v
Before(V, v, level) ==
    {u \in DOMAIN V : u.height = v.height /\ V[u] = level /\ Position(u) < Position(v)}

\* Of the votes for blocks that are there, only the first one in a row for the
\* same payee goes into the answer.
NewPayee(V, v) ==
    LET before == Before(V, v, V[v])
        last == CHOOSE u \in before : \A w \in before : Position(w) <= Position(u)
    IN  before = {} \/ last.payee # v.payee

Packed(V) ==
    {v \in DOMAIN V :
        v.height <= tip => v.height >= tip - (Cycle(V[v]) + 1) /\ NewPayee(V, v)}

\* n asks m, and m answers, unless cs_main is not free at that moment (locked is
\* what TRY_LOCK returns): then n gets nothing, and may not ask again.
Sync(n, m, locked) ==
    /\ n # m /\ n \notin asked
    /\ asked' = asked \cup {n}
    /\ pack' = [pack EXCEPT ![n] = IF locked THEN Packed(payments[m].votes) ELSE {}]
    /\ UNCHANGED <<tip, sent, payments, nLastBlockHeight, outdated, restarts>>

\* Mutant: the votes of the oldest block that is kept go, their count stays.
MutantCleaned(P) ==
    LET old == {v \in DOMAIN P.votes : tip - v.height >= Keep} IN
    [P EXCEPT
        !.votes = [v \in DOMAIN @ \ old |-> @[v]],
        !.blocks = [h \in Height |-> IF tip - h > Keep THEN <<>> ELSE @[h]]]

\* CleanPaymentList: a block goes with the first of its votes.
Cleaned(P) ==
    LET old == {v \in DOMAIN P.votes : tip - v.height > Keep} IN
    [P EXCEPT
        !.votes = [v \in DOMAIN @ \ old |-> @[v]],
        !.blocks = [h \in Height |-> IF \E v \in old : v.height = h THEN <<>> ELSE @[h]]]

CleanPaymentList(n) ==
    /\ payments' = [payments EXCEPT ![n] = Cleaned(@)]
    /\ UNCHANGED <<tip, sent, nLastBlockHeight, outdated, pack, asked, restarts>>

------------------------------------------------------------------------------
(* The votes.                                                               *)

\* IsScheduled, for the blocks just before the one voted on.
IsScheduled(n, payee, level) ==
    LET span == IF CountEnabled(level) - 1 < Ahead THEN CountEnabled(level) - 1 ELSE Ahead
    IN  \E h \in Height \cap (tip + Ahead - span .. tip + Ahead - 1) :
            GetPayee(payments[n].blocks[h], level) = payee

\* GetNextMasternodeInQueueForPayment: the times of the last payments and the
\* scores, which choose among those not scheduled or find none, are left open.
\* When cs_main is not free (TRY_LOCK leaves locked false), IsScheduled says no.
InQueue(n, level, locked) ==
    {p \in PayeesAt[level] : locked => ~ IsScheduled(n, p, level)}

\* A vote for each level, counted one after the other.
VoteFor(mn, payee) == [mn |-> mn, height |-> tip + Ahead, payee |-> payee]

AddWinners(P, mn, winner) ==
    LET after[l \in 0 .. MaxLevel] ==
            IF l = 0 THEN P
            ELSE IF winner[l] = None THEN after[l - 1]
            ELSE AddWinningMasternode(after[l - 1], VoteFor(mn, winner[l]), l)
    IN  after[MaxLevel]

\* ProcessBlock, of a node that runs a masternode.
ProcessBlock(n, winner, locked) ==
    LET mn == Self[n]
        after == AddWinners(payments[n], mn, winner)
        new == DOMAIN after.votes \ DOMAIN payments[n].votes
    IN
    /\ mn # None
    /\ tip + Ahead > nLastBlockHeight[n]
    /\ tip + Ahead <= MaxVoted
    /\ mn \in Ranked[tip + Ahead]
    /\ \A l \in Level : winner[l] \in InQueue(n, l, locked) \cup {None}
    /\ new # {} /\ Cardinality(sent \cup new) <= MaxSent
    /\ payments' = [payments EXCEPT ![n] = after]
    /\ sent' = sent \cup new
    /\ nLastBlockHeight' = [nLastBlockHeight EXCEPT ![n] = tip + Ahead]
    /\ UNCHANGED <<tip, outdated, pack, asked, restarts>>

\* A masternode elsewhere votes; one that was restarted may do so twice.  It may
\* think itself in the first ranks when it is not.
OtherVotes(mn, payee) ==
    LET v == VoteFor(mn, payee)
        again == \E u \in sent : u.mn = mn /\ u.height = v.height /\ LevelOf[u.payee] = LevelOf[payee]
    IN
    /\ \A n \in Node : Self[n] # mn
    /\ v \notin sent /\ v.height <= MaxVoted /\ Cardinality(sent) < MaxSent
    /\ again => restarts < MaxRestarts
    /\ restarts' = IF again THEN restarts + 1 ELSE restarts
    /\ sent' = sent \cup {v}
    /\ UNCHANGED <<tip, payments, nLastBlockHeight, outdated, pack, asked>>

------------------------------------------------------------------------------
\* A block arrives.
NewBlock ==
    /\ tip < MaxTip
    /\ tip' = tip + 1
    /\ UNCHANGED <<sent, payments, nLastBlockHeight, outdated, pack, asked, restarts>>

\* A new broadcast of mn brings its key.
LearnKey(n, mn) ==
    /\ mn \in outdated[n]
    /\ outdated' = [outdated EXCEPT ![n] = @ \ {mn}]
    /\ UNCHANGED <<tip, sent, payments, nLastBlockHeight, pack, asked, restarts>>

\* A node is restarted: nothing of this was saved.
Restart(n) ==
    /\ restarts < MaxRestarts
    /\ restarts' = restarts + 1
    /\ payments' = [payments EXCEPT ![n] = NoPayments]
    /\ nLastBlockHeight' = [nLastBlockHeight EXCEPT ![n] = 0]
    /\ pack' = [pack EXCEPT ![n] = {}]
    /\ asked' = asked \ {n}
    /\ UNCHANGED <<tip, sent, outdated>>

Next ==
    \/ \E n \in Node : \E v \in sent, inPack \in BOOLEAN : ReceiveVote(n, v, inPack)
    \/ \E n \in Node : ReceivePack(n)
    \/ \E n, m \in Node, locked \in BOOLEAN : Sync(n, m, locked)
    \/ \E n \in Node : CleanPaymentList(n)
    \/ \E n \in Node, locked \in BOOLEAN : \E winner \in [Level -> Payee \cup {None}] :
           ProcessBlock(n, winner, locked)
    \/ \E mn \in Masternode, p \in Payee : OtherVotes(mn, p)
    \/ NewBlock
    \/ \E n \in Node, mn \in Masternode : LearnKey(n, mn)
    \/ \E n \in Node : Restart(n)

Spec == Init /\ [][Next]_vars

------------------------------------------------------------------------------
(* Properties.                                                              *)

\* Every variable has its type.
TypeOK ==
    /\ tip \in 0 .. MaxTip /\ sent \subseteq Vote
    /\ \A n \in Node :
        /\ DOMAIN payments[n].votes \subseteq sent
        /\ \A v \in DOMAIN payments[n].votes : payments[n].votes[v] \in Level
        /\ \A h \in Height : payments[n].blocks[h] \in
               Seq([payee : Payee, mnlevel : Level, nVotes : 1 .. Cardinality(Masternode)])
        /\ payments[n].lastVote \in [Masternode \X Level -> {0} \cup Height]
        /\ pack[n] \subseteq sent
        /\ outdated[n] \subseteq Masternode
    /\ nLastBlockHeight \in [Node -> {0} \cup Height]
    /\ asked \subseteq Node /\ restarts \in 0 .. MaxRestarts

\* The votes for a payee that a node has.
VotesFor(n, h, p) == {v \in DOMAIN payments[n].votes : v.height = h /\ v.payee = p}

\* mapMasternodeBlocks, by which blocks are judged, and mapMasternodePayeeVotes,
\* by which votes are recognised and handed on, tell the same: each payee once,
\* with as many votes as were counted for it, whatever is repeated, forgotten
\* with old blocks, or comes again.
VotesCounted ==
    /\ TypeOK
    /\ \A n \in Node, h \in Height : LET block == payments[n].blocks[h] IN
        /\ \A i, j \in DOMAIN block : block[i].payee = block[j].payee => i = j
        /\ \A i \in DOMAIN block : block[i].nVotes = Cardinality(VotesFor(n, h, block[i].payee))
        /\ \A p \in Payee : VotesFor(n, h, p) # {} => \E i \in DOMAIN block : block[i].payee = p

\* The masternodes that voted for two payees of a level for one block, as one may
\* that forgot its vote in a restart.
Equivocators ==
    {u.mn : u \in {v \in sent : \E w \in sent :
        /\ w.mn = v.mn /\ w.height = v.height /\ w.payee # v.payee
        /\ LevelOf[w.payee] = LevelOf[v.payee]}}

\* "require at least 6 signatures" (masternode-payments.cpp:441) of 10: as long as
\* fewer than 2 * 6 - 10 masternodes vote twice, no two payees of a level have
\* enough votes for the same block, not even at different nodes.  So no node
\* insists on a payment that another one, with its own votes, takes for wrong.
OneQuorum ==
    Cardinality(Equivocators) < 2 * Required - Total =>
    \A n, m \in Node, h \in Height :
        \A i \in DOMAIN payments[n].blocks[h], j \in DOMAIN payments[m].blocks[h] :
            LET a == payments[n].blocks[h][i]
                b == payments[m].blocks[h][j]
            IN  /\ a.nVotes >= Required /\ b.nVotes >= Required
                /\ LevelOf[a.payee] = LevelOf[b.payee]
                => a.payee = b.payee

\* What FillBlockPayee pays in a block after the tip; other is GetCurrentMasterNode
\* of each level.
FillBlockPayee(n, other) ==
    [l \in Level |->
        LET payee == GetPayee(payments[n].blocks[tip + 1], l)
        IN  IF payee = None THEN other[l] ELSE payee]

\* A block that a node makes passes its own check, whatever votes it has: most
\* votes (GetPayee) and enough votes (IsTransactionValid) go together, level by
\* level.
OwnBlockAccepted ==
    \A n \in Node : tip + 1 \in Height =>
        \A other \in [Level -> Payee \cup {None}] :
            IsTransactionValid(payments[n].blocks[tip + 1], FillBlockPayee(n, other))

\* "Deterministically select the oldest/best masternode to pay on the network"
\* (masternodeman.cpp:616): what a node is told by Sync suffices to find the
\* payments of the last blocks (GetLastPaid looks for 6 votes) that the other has.
SyncTellsPayments ==
    [][\A n, m \in Node : Sync(n, m, TRUE) =>
        \A h \in Height, p \in Payee :
            /\ h <= tip /\ h >= tip - Cycle(LevelOf[p])
            /\ Cardinality(VotesFor(m, h, p)) >= Required
            => Cardinality({v \in pack'[n] : v.height = h /\ v.payee = p}
                           \cup VotesFor(n, h, p)) >= Required]_vars

\* "masternode already voted - %s block %d" (masternode-payments.cpp:202): a vote
\* is refused only if the node has one of that masternode for that block and level.
RefusedHasVoted ==
    \A n \in Node : \A v \in sent :
        /\ IsValid(v) /\ InRange(v, TRUE) /\ ~ CanVote(payments[n], v)
        => \E u \in DOMAIN payments[n].votes :
               u.mn = v.mn /\ u.height = v.height /\ LevelOf[u.payee] = LevelOf[v.payee]

=============================================================================
