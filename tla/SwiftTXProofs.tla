---------------------------- MODULE SwiftTXProofs ----------------------------
(***************************************************************************)
(* QuorumBehindLock and LockedByQuorumOrRefused, for any transactions,     *)
(* masternodes, heights and numbers of signatures, with the clean-up at    *)
(* work between any two steps of the message handler.  The invariant that  *)
(* is inductive says more of the votes of a lock, which are all in         *)
(* mapTxLockVote (so that none comes twice), of the owner of a locked      *)
(* input, which has a request (so that the clean-up that drops its lock    *)
(* releases the input), of the vote being handled, and of what the         *)
(* clean-up has still to release.                                          *)
(***************************************************************************)
EXTENDS SwiftTX, WellFoundedInduction, FiniteSetTheorems, TLAPS

------------------------------------------------------------------------------
(* Induction over the natural numbers, for sets of numbers.                 *)

\* A set of numbers that is not empty has a least element.
LEMMA LeastNatural ==
    ASSUME NEW S \in SUBSET Nat, S # {}
    PROVE  \E m \in S : \A k \in S : m <= k
<1> DEFINE R == {ss \in Nat \X Nat : ss[1] < ss[2]}
<1>1. IsWellFoundedOn(R, Nat)
  BY NatLessThanWellFounded DEF OpToRel
<1>2. \A j, k \in Nat : j < k => <<j, k>> \in R
  OBVIOUS
<1> HIDE DEF R
<1>3. PICK m \in S : \A k \in S : ~ (<<k, m>> \in R)
  BY <1>1, WFMin
<1>4. \A k \in S : ~ (k < m)
  BY <1>2, <1>3
<1> QED
  BY <1>3, <1>4

------------------------------------------------------------------------------
(* The invariant.                                                           *)

Quorum(lock) == \E h \in Height : Cardinality(Voters(lock, h)) >= Required

OwnersOK == \A o \in DOMAIN mapLockedInputs : mapLockedInputs[o] \in Tx

\* The votes of a lock of t come from different masternodes, ranked at the height
\* of their vote, and are remembered as seen.
VotedOnce(lock, t, seen) ==
    /\ \A i \in DOMAIN lock.votes :
        /\ lock.votes[i].mn \in Ranked[lock.votes[i].height]
        /\ <<lock.votes[i].mn, t>> \in seen
    /\ \A i, j \in DOMAIN lock.votes : lock.votes[i].mn = lock.votes[j].mn => i = j

VotesOnce ==
    \A t \in DOMAIN mapTxLocks :
        ~ BeingRemoved(t) => VotedOnce(mapTxLocks[t], t, mapTxLockVote)

\* The owner of an input was refused, or its request is there with its inputs.
OwnersRequested ==
    \A o \in DOMAIN mapLockedInputs \ stray :
        \/ mapLockedInputs[o] \in refused
        \/ /\ mapLockedInputs[o] \in DOMAIN mapTxLockReq
           /\ mapTxLockReq[mapLockedInputs[o]] = mapLockedInputs[o]

\* A handler in the middle of a message is at a transaction, and some of its inputs.
HandlingTx ==
    handling.step # "idle" => handling.tx \in Tx /\ handling.inputs \subseteq Spends[handling.tx]

HandlingRefused == handling.step = "lockRefused" => handling.tx \in refused

\* The vote that is about to be counted is remembered, and not in the lock.
NewVote ==
    handling.step = "sign" =>
        /\ handling.mn \in Ranked[handling.height] /\ handling.height \in Height
        /\ <<handling.mn, handling.tx>> \in mapTxLockVote
        /\ handling.tx \in DOMAIN mapTxLocks /\ ~ BeingRemoved(handling.tx) =>
              \A i \in DOMAIN mapTxLocks[handling.tx].votes :
                  mapTxLocks[handling.tx].votes[i].mn # handling.mn

\* The clean-up is not at the transaction of a vote, unless the handler is marked.
NotRaced == handling.step \in VoteSteps /\ ~ handling.raced => cleaning.tx # handling.tx

\* The handler that is about to lock inputs has found a quorum and a request.
QuorumFound ==
    handling.step \in {"conflict", "lock"} /\ ~ handling.raced =>
        /\ handling.tx \in DOMAIN mapTxLocks /\ Quorum(mapTxLocks[handling.tx])
        /\ handling.inputs # {} =>
              /\ handling.tx \in DOMAIN mapTxLockReq
              /\ mapTxLockReq[handling.tx] = handling.tx

HandlingOK == HandlingTx /\ HandlingRefused /\ NewVote /\ NotRaced /\ QuorumFound

\* The lock that is being cleaned away is there until the last step.
CleaningLock ==
    /\ cleaning.step # "idle" => cleaning.tx \in DOMAIN mapTxLocks
    /\ cleaning.step # "inputs" => cleaning.inputs = {}

\* What is locked for the transaction being cleaned away is still to be released.
Releasing ==
    \A o \in DOMAIN mapLockedInputs \ stray :
        cleaning.tx = mapLockedInputs[o] /\ cleaning.tx \notin refused => o \in cleaning.inputs

Inv ==
    /\ TypeOK
    /\ HandlingOK
    /\ OwnersOK
    /\ VotesOnce
    /\ OwnersRequested
    /\ CleaningLock
    /\ Releasing
    /\ LockedByQuorumOrRefused

------------------------------------------------------------------------------
(* The lock table.                                                          *)

\* A table of locks, as TypeOK has it.
LocksOK(locks) == DOMAIN locks \subseteq Tx /\ \A t \in DOMAIN locks : locks[t] \in Lock

\* No lock is gone, none has lost or got a vote, and new ones have none.
SameVotes(locks, new) ==
    /\ DOMAIN locks \subseteq DOMAIN new
    /\ \A t \in DOMAIN locks : new[t].votes = locks[t].votes
    /\ \A t \in DOMAIN new \ DOMAIN locks : new[t].votes = <<>>

\* CreateNewLock touches no vote.
LEMMA CreateNewLockKeeps ==
    ASSUME NEW locks, LocksOK(locks), NEW t \in Tx, NEW h \in LockHeight \cup {0}
    PROVE  /\ LocksOK(CreateNewLock(locks, t, h))
           /\ SameVotes(locks, CreateNewLock(locks, t, h))
<1>1. CASE h = 0
  BY <1>1 DEF CreateNewLock, SameVotes
<1>2. CASE h # 0
  <2> DEFINE new == CreateNewLock(locks, t, h)
  <2>1. new = [Insert(locks, t, NewLock(h)) EXCEPT ![t].height = h]
    BY <1>2 DEF CreateNewLock
  <2>2. h \in Height /\ NewLock(h) \in Lock /\ NewLock(h).votes = <<>>
    BY <1>2, HeightAssumption DEF NewLock, Lock, Expiry
  <2>3. DOMAIN new = DOMAIN locks \cup {t}
    BY <2>1 DEF Insert
  <2>4. \A u \in DOMAIN new : new[u] = IF u = t THEN [(IF t \in DOMAIN locks THEN locks[t] ELSE NewLock(h)) EXCEPT !.height = h]
                                        ELSE locks[u]
    BY <2>1, <2>3 DEF Insert
  <2>5. \A l \in Lock : [l EXCEPT !.height = h] \in Lock /\ [l EXCEPT !.height = h].votes = l.votes
    BY <2>2 DEF Lock
  <2> QED
    BY <2>2, <2>3, <2>4, <2>5 DEF LocksOK, SameVotes
<1> QED
  BY <1>1, <1>2

\* Cancelling a lock touches no vote.
LEMMA CancelKeeps ==
    ASSUME NEW locks, LocksOK(locks), NEW S
    PROVE  LocksOK(Cancel(locks, S)) /\ SameVotes(locks, Cancel(locks, S))
<1>1. \A l \in Lock : /\ [l EXCEPT !.expiration = "now"] \in Lock
                      /\ [l EXCEPT !.expiration = "now"].votes = l.votes
  BY DEF Lock, Expiry
<1>2. DOMAIN Cancel(locks, S) = DOMAIN locks
  BY DEF Cancel
<1>3. \A t \in DOMAIN locks : Cancel(locks, S)[t] =
          IF t \in S THEN [locks[t] EXCEPT !.expiration = "now"] ELSE locks[t]
  BY DEF Cancel
<1> QED
  BY <1>1, <1>2, <1>3 DEF LocksOK, SameVotes

\* The lock t with one vote more.
Signed(t, mn, h) == [mapTxLocks EXCEPT ![t].votes = Append(@, [mn |-> mn, height |-> h])]

LEMMA SignedLock ==
    ASSUME LocksOK(mapTxLocks), NEW t \in DOMAIN mapTxLocks, NEW mn \in Masternode, NEW h \in Height
    PROVE  /\ LocksOK(Signed(t, mn, h))
           /\ DOMAIN Signed(t, mn, h) = DOMAIN mapTxLocks
           /\ mapTxLocks[t].votes \in Seq(Vote)
           /\ Signed(t, mn, h)[t].votes = Append(mapTxLocks[t].votes, [mn |-> mn, height |-> h])
           /\ \A u \in DOMAIN mapTxLocks \ {t} : Signed(t, mn, h)[u] = mapTxLocks[u]
<1> DEFINE new == Signed(t, mn, h)
           vote == [mn |-> mn, height |-> h]
           lock == mapTxLocks[t]
<1>1. lock \in Lock /\ lock.votes \in Seq(Vote)
  BY DEF LocksOK, Lock
<1>2. /\ DOMAIN new = DOMAIN mapTxLocks
      /\ new[t] = [lock EXCEPT !.votes = Append(lock.votes, vote)]
      /\ \A u \in DOMAIN mapTxLocks \ {t} : new[u] = mapTxLocks[u]
  BY DEF Signed
<1>3. vote \in Vote /\ Append(lock.votes, vote) \in Seq(Vote)
  <2>1. vote \in Vote
    BY DEF Vote
  <2> QED
    BY <2>1, <1>1
<1>4. new[t] \in Lock /\ new[t].votes = Append(lock.votes, vote)
  BY <1>1, <1>2, <1>3 DEF Lock
<1> HIDE DEF new, lock, vote
<1>5. LocksOK(new)
  BY <1>2, <1>4 DEF LocksOK
<1> QED
  BY <1>1, <1>2, <1>4, <1>5 DEF new, vote, lock

\* A vote of a masternode that has none in the lock keeps its votes different.
LEMMA SignedOnce ==
    ASSUME LocksOK(mapTxLocks), NEW t \in DOMAIN mapTxLocks, NEW h \in Height, NEW mn \in Ranked[h],
           NEW seen, <<mn, t>> \in seen, VotedOnce(mapTxLocks[t], t, seen),
           \A i \in DOMAIN mapTxLocks[t].votes : mapTxLocks[t].votes[i].mn # mn
    PROVE  VotedOnce(Signed(t, mn, h)[t], t, seen)
<1> DEFINE old == mapTxLocks[t].votes
           new == Signed(t, mn, h)[t].votes
           vote == [mn |-> mn, height |-> h]
<1>1. mn \in Masternode
  BY RankedAssumption
<1>2. old \in Seq(Vote) /\ new = Append(old, vote)
  BY <1>1, SignedLock
<1>3. vote.mn = mn /\ vote.height = h
  OBVIOUS
<1> HIDE DEF new, vote
<1>4. /\ DOMAIN new = 1 .. Len(old) + 1 /\ Len(old) \in Nat
      /\ DOMAIN old = 1 .. Len(old)
      /\ \A i \in DOMAIN old : new[i] = old[i]
      /\ new[Len(old) + 1] = vote
  BY <1>2
<1>5. \A i \in DOMAIN new : i \in DOMAIN old \/ i = Len(old) + 1
  BY <1>4
<1>6. /\ \A i \in DOMAIN old : /\ old[i].mn \in Ranked[old[i].height]
                               /\ <<old[i].mn, t>> \in seen
                               /\ old[i].mn # mn
      /\ \A i, j \in DOMAIN old : old[i].mn = old[j].mn => i = j
  BY DEF VotedOnce
<1> HIDE DEF old
<1>7. ASSUME NEW i \in DOMAIN new
      PROVE  new[i].mn \in Ranked[new[i].height] /\ <<new[i].mn, t>> \in seen
  <2>1. CASE i \in DOMAIN old
    BY <2>1, <1>4, <1>6
  <2>2. CASE i = Len(old) + 1
    BY <2>2, <1>3, <1>4
  <2> QED
    BY <1>5, <2>1, <2>2
<1>8. ASSUME NEW i \in DOMAIN new, NEW j \in DOMAIN new, new[i].mn = new[j].mn
      PROVE  i = j
  <2>1. CASE i \in DOMAIN old /\ j \in DOMAIN old
    BY <2>1, <1>4, <1>6, <1>8
  <2>2. CASE i \in DOMAIN old /\ j = Len(old) + 1
    BY <2>2, <1>3, <1>4, <1>6, <1>8
  <2>3. CASE i = Len(old) + 1 /\ j \in DOMAIN old
    BY <2>3, <1>3, <1>4, <1>6, <1>8
  <2> QED
    BY <1>5, <2>1, <2>2, <2>3
<1> QED
  BY <1>7, <1>8 DEF VotedOnce, new

\* Steps that touch no vote keep VotesOnce.
LEMMA SameVotesOnce ==
    ASSUME SameVotes(mapTxLocks, mapTxLocks'), mapTxLockVote \subseteq mapTxLockVote',
           cleaning' = cleaning, VotesOnce
    PROVE  VotesOnce'
<1> SUFFICES ASSUME NEW t \in DOMAIN mapTxLocks', ~ BeingRemoved(t)
             PROVE  VotedOnce(mapTxLocks'[t], t, mapTxLockVote')
  BY DEF VotesOnce, BeingRemoved
<1>1. CASE t \in DOMAIN mapTxLocks
  <2>1. mapTxLocks'[t].votes = mapTxLocks[t].votes
    BY <1>1 DEF SameVotes
  <2> QED
    BY <1>1, <2>1 DEF VotesOnce, VotedOnce
<1>2. CASE t \notin DOMAIN mapTxLocks
  <2>1. DOMAIN mapTxLocks'[t].votes = {}
    BY <1>2 DEF SameVotes
  <2> QED
    BY <2>1 DEF VotedOnce
<1> QED
  BY <1>1, <1>2

------------------------------------------------------------------------------
(* Counting votes.                                                          *)

\* The voters of a lock are finitely many, and no fewer than its votes for a
\* height, when no masternode votes twice.
LEMMA VotersCounted ==
    ASSUME NEW lock \in Lock, NEW h \in Height,
           \A i \in DOMAIN lock.votes : lock.votes[i].mn \in Ranked[lock.votes[i].height],
           \A i, j \in DOMAIN lock.votes : lock.votes[i].mn = lock.votes[j].mn => i = j
    PROVE  /\ IsFiniteSet(Voters(lock, h))
           /\ Cardinality(Voters(lock, h))
                = Cardinality({i \in DOMAIN lock.votes : lock.votes[i].height = h})
<1> DEFINE votes == lock.votes
           S == {i \in DOMAIN votes : votes[i].height = h}
           T == Voters(lock, h)
           f == [i \in S |-> votes[i].mn]
<1>1. votes \in Seq(Vote)
  BY DEF Lock
<1>2. /\ DOMAIN votes = 1 .. Len(votes) /\ Len(votes) \in Nat
      /\ \A i \in DOMAIN votes : votes[i] \in Vote
  BY <1>1
<1>3. IsFiniteSet(S)
  <2>1. IsFiniteSet(1 .. Len(votes))
    BY <1>2, FS_Interval
  <2> QED
    BY <2>1, <1>2, FS_Subset
<1>4. \A i \in S : votes[i] = [mn |-> votes[i].mn, height |-> h]
  BY <1>2 DEF Vote
<1>5. f \in [S -> T]
  <2> SUFFICES ASSUME NEW i \in S PROVE votes[i].mn \in T
    OBVIOUS
  <2>1. votes[i].mn \in Ranked[h]
    OBVIOUS
  <2>2. [mn |-> votes[i].mn, height |-> h] \in Ran(votes)
    BY <1>4 DEF Ran
  <2> QED
    BY <2>1, <2>2 DEF Voters
<1>6. \A i, j \in S : f[i] = f[j] => i = j
  OBVIOUS
<1>7. \A mn \in T : \E i \in S : f[i] = mn
  <2> SUFFICES ASSUME NEW mn \in T PROVE \E i \in S : votes[i].mn = mn
    OBVIOUS
  <2>1. [mn |-> mn, height |-> h] \in Ran(votes)
    BY DEF Voters
  <2>2. PICK i \in DOMAIN votes : votes[i] = [mn |-> mn, height |-> h]
    BY <2>1 DEF Ran
  <2> QED
    BY <2>2
<1> HIDE DEF f, S, T
<1>8. ExistsBijection(S, T)
  <2>1. f \in Injection(S, T)
    BY <1>5, <1>6 DEF Injection, IsInjective
  <2>2. f \in Surjection(S, T)
    BY <1>5, <1>7 DEF Surjection
  <2> QED
    BY <2>1, <2>2 DEF ExistsBijection, Bijection
<1> QED
  BY <1>3, <1>8, FS_Bijection DEF S, T

------------------------------------------------------------------------------
(* What a step may do to the tables without breaking the invariant.         *)

\* No lock is gone, and none has lost a vote.
VotesGrow(locks, new) ==
    /\ DOMAIN locks \subseteq DOMAIN new
    /\ \A t \in DOMAIN locks : Ran(locks[t].votes) \subseteq Ran(new[t].votes)

\* A request that is there stays.
RequestsStay(req, new) ==
    /\ DOMAIN req \subseteq DOMAIN new
    /\ \A t \in DOMAIN req : new[t] = req[t]

LEMMA SameVotesGrow ==
    ASSUME NEW locks, NEW new, SameVotes(locks, new)
    PROVE  VotesGrow(locks, new)
BY DEF SameVotes, VotesGrow

\* TypeOK in terms of LocksOK.
LEMMA TypeLocks == TypeOK => LocksOK(mapTxLocks)
BY DEF TypeOK, LocksOK, Ran

LEMMA LocksType ==
    ASSUME NEW locks, LocksOK(locks)
    PROVE  DOMAIN locks \subseteq Tx /\ Ran(locks) \subseteq Lock
BY DEF LocksOK, Ran

\* More votes, no smaller quorum.
LEMMA QuorumGrows ==
    ASSUME NEW lock, NEW more \in Lock, Ran(lock.votes) \subseteq Ran(more.votes),
           \A i \in DOMAIN more.votes : more.votes[i].mn \in Ranked[more.votes[i].height],
           \A i, j \in DOMAIN more.votes : more.votes[i].mn = more.votes[j].mn => i = j,
           Quorum(lock)
    PROVE  Quorum(more)
<1>1. PICK h \in Height : Cardinality(Voters(lock, h)) >= Required
  BY DEF Quorum
<1>2. IsFiniteSet(Voters(more, h))
  BY VotersCounted
<1>3. Voters(lock, h) \in SUBSET Voters(more, h)
  BY DEF Voters
<1>4. /\ Cardinality(Voters(lock, h)) <= Cardinality(Voters(more, h))
      /\ IsFiniteSet(Voters(lock, h))
  BY <1>2, <1>3, FS_Subset
<1>5. Cardinality(Voters(lock, h)) \in Nat /\ Cardinality(Voters(more, h)) \in Nat
  BY <1>2, <1>4, FS_CardinalityType
<1>6. Cardinality(Voters(more, h)) >= Required
  BY <1>1, <1>4, <1>5, RequiredAssumption
<1> QED
  BY <1>6 DEF Quorum

\* A complete lock has a quorum.
LEMMA CompleteHasQuorum ==
    ASSUME NEW lock \in Lock, Complete(lock),
           \A i \in DOMAIN lock.votes : lock.votes[i].mn \in Ranked[lock.votes[i].height],
           \A i, j \in DOMAIN lock.votes : lock.votes[i].mn = lock.votes[j].mn => i = j
    PROVE  /\ lock.height \in Height
           /\ Cardinality(Voters(lock, lock.height)) >= Required
<1>1. lock.height # 0
  BY RequiredAssumption DEF Complete, CountSignatures
<1>2. lock.height \in Height
  BY <1>1 DEF Lock
<1>3. Cardinality({i \in DOMAIN lock.votes : lock.votes[i].height = lock.height}) >= Required
  BY <1>1 DEF Complete, CountSignatures
<1> QED
  BY <1>2, <1>3, VotersCounted

\* Votes that stay are a quorum that stays.
LEMMA SameQuorum ==
    ASSUME NEW lock, NEW new, new.votes = lock.votes, Quorum(lock)
    PROVE  Quorum(new)
BY DEF Quorum, Voters

\* Nobody but the clean-up takes anything away.  Owners that stay keep what the
\* invariant says of them; new owners have it.
LEMMA OwnersKept ==
    ASSUME Inv, LocksOK(mapTxLocks'), VotesOnce',
           VotesGrow(mapTxLocks, mapTxLocks'), RequestsStay(mapTxLockReq, mapTxLockReq'),
           refused \subseteq refused', stray \subseteq stray', cleaning' = cleaning,
           \A o \in DOMAIN mapLockedInputs' :
              \/ o \in DOMAIN mapLockedInputs /\ mapLockedInputs'[o] = mapLockedInputs[o]
              \/ mapLockedInputs'[o] \in Tx /\ (o \in stray' \/ mapLockedInputs'[o] \in refused')
              \/ /\ mapLockedInputs'[o] \in Tx \cap DOMAIN mapTxLockReq' \cap DOMAIN mapTxLocks'
                 /\ mapTxLockReq'[mapLockedInputs'[o]] = mapLockedInputs'[o]
                 /\ Quorum(mapTxLocks'[mapLockedInputs'[o]])
                 /\ cleaning.tx # mapLockedInputs'[o]
    PROVE  OwnersOK' /\ OwnersRequested' /\ LockedByQuorumOrRefused' /\ CleaningLock' /\ Releasing'
<1>1. CleaningLock'
  BY DEF Inv, CleaningLock, VotesGrow
<1>2. SUFFICES ASSUME NEW o \in DOMAIN mapLockedInputs'
               PROVE  LET t == mapLockedInputs'[o] IN
                      /\ t \in Tx
                      /\ o \notin stray' /\ t \notin refused' =>
                          /\ t \in DOMAIN mapTxLockReq' /\ mapTxLockReq'[t] = t
                          /\ t \in DOMAIN mapTxLocks' /\ Quorum(mapTxLocks'[t])
                          /\ cleaning.tx = t => o \in cleaning.inputs
  BY <1>1 DEF OwnersOK, OwnersRequested, LockedByQuorumOrRefused, Quorum, Releasing
<1> DEFINE t == mapLockedInputs'[o]
<1>3. CASE o \in DOMAIN mapLockedInputs /\ t = mapLockedInputs[o]
  <2>1. t \in Tx
    BY <1>3 DEF Inv, OwnersOK
  <2>2. ASSUME o \notin stray', t \notin refused'
        PROVE  /\ t \in DOMAIN mapTxLockReq' /\ mapTxLockReq'[t] = t
               /\ t \in DOMAIN mapTxLocks' /\ Quorum(mapTxLocks'[t])
               /\ cleaning.tx = t => o \in cleaning.inputs
    <3>0. o \in DOMAIN mapLockedInputs \ stray /\ t \notin refused
      BY <1>3, <2>2
    <3>1. t \in DOMAIN mapTxLockReq /\ mapTxLockReq[t] = t
      BY <1>3, <3>0 DEF Inv, OwnersRequested
    <3>2. t \in DOMAIN mapTxLocks /\ Quorum(mapTxLocks[t])
      BY <1>3, <3>0 DEF Inv, LockedByQuorumOrRefused, Quorum
    <3>3. cleaning.tx = t => o \in cleaning.inputs
      BY <1>3, <3>0 DEF Inv, Releasing
    <3>4. ~ (cleaning'.step = "lock" /\ cleaning'.tx = t)
      BY <3>3 DEF Inv, CleaningLock
    <3>5. /\ t \in DOMAIN mapTxLocks' /\ mapTxLocks'[t] \in Lock
          /\ Ran(mapTxLocks[t].votes) \subseteq Ran(mapTxLocks'[t].votes)
      BY <3>2 DEF VotesGrow, LocksOK
    <3>6. VotedOnce(mapTxLocks'[t], t, mapTxLockVote')
      BY <3>4, <3>5 DEF VotesOnce, BeingRemoved
    <3>7. Quorum(mapTxLocks'[t])
      BY <3>2, <3>5, <3>6, QuorumGrows DEF VotedOnce
    <3> QED
      BY <3>1, <3>3, <3>5, <3>7 DEF RequestsStay
  <2> QED
    BY <2>1, <2>2
<1>4. CASE t \in Tx /\ (o \in stray' \/ t \in refused')
  BY <1>4
<1>5. CASE /\ t \in Tx \cap DOMAIN mapTxLockReq' \cap DOMAIN mapTxLocks'
           /\ mapTxLockReq'[t] = t /\ Quorum(mapTxLocks'[t])
           /\ cleaning.tx # t
  BY <1>5
<1> QED
  BY <1>3, <1>4, <1>5

\* A step that locks no input and touches no vote.
LEMMA QuietStep ==
    ASSUME Inv, LocksOK(mapTxLocks'), SameVotes(mapTxLocks, mapTxLocks'),
           mapTxLockVote \subseteq mapTxLockVote', refused \subseteq refused', stray' = stray,
           cleaning' = cleaning, RequestsStay(mapTxLockReq, mapTxLockReq'),
           mapLockedInputs' = mapLockedInputs
    PROVE  /\ VotesOnce' /\ OwnersOK' /\ OwnersRequested' /\ LockedByQuorumOrRefused'
           /\ CleaningLock' /\ Releasing'
<1>1. VotesOnce'
  BY SameVotesOnce DEF Inv
<1>2. VotesGrow(mapTxLocks, mapTxLocks')
  BY SameVotesGrow
<1>3. \A o \in DOMAIN mapLockedInputs' :
         o \in DOMAIN mapLockedInputs /\ mapLockedInputs'[o] = mapLockedInputs[o]
  OBVIOUS
<1> QED
  BY <1>1, <1>2, <1>3, OwnersKept

\* The other threads leave the message handler what it knows.
LEMMA HandlingKept ==
    ASSUME Inv, handling' = handling, cleaning' = cleaning,
           SameVotes(mapTxLocks, mapTxLocks'), mapTxLockVote \subseteq mapTxLockVote',
           RequestsStay(mapTxLockReq, mapTxLockReq'), refused \subseteq refused'
    PROVE  HandlingOK'
<1>1. HandlingTx' /\ HandlingRefused' /\ NotRaced'
  BY DEF Inv, HandlingOK, HandlingTx, HandlingRefused, NotRaced
<1>2. NewVote'
  <2> SUFFICES ASSUME handling.step = "sign"
               PROVE  /\ handling.mn \in Ranked[handling.height] /\ handling.height \in Height
                      /\ <<handling.mn, handling.tx>> \in mapTxLockVote'
                      /\ handling.tx \in DOMAIN mapTxLocks' /\ ~ BeingRemoved(handling.tx) =>
                            \A i \in DOMAIN mapTxLocks'[handling.tx].votes :
                                mapTxLocks'[handling.tx].votes[i].mn # handling.mn
    BY DEF NewVote, BeingRemoved
  <2>1. /\ handling.mn \in Ranked[handling.height] /\ handling.height \in Height
        /\ <<handling.mn, handling.tx>> \in mapTxLockVote
        /\ handling.tx \in DOMAIN mapTxLocks /\ ~ BeingRemoved(handling.tx) =>
              \A i \in DOMAIN mapTxLocks[handling.tx].votes :
                  mapTxLocks[handling.tx].votes[i].mn # handling.mn
    BY DEF Inv, HandlingOK, NewVote
  <2>2. CASE handling.tx \in DOMAIN mapTxLocks
    <3>1. mapTxLocks'[handling.tx].votes = mapTxLocks[handling.tx].votes
      BY <2>2 DEF SameVotes
    <3> QED
      BY <2>1, <2>2, <3>1
  <2>3. CASE handling.tx \notin DOMAIN mapTxLocks
    <3>1. handling.tx \in DOMAIN mapTxLocks' => DOMAIN mapTxLocks'[handling.tx].votes = {}
      BY <2>3 DEF SameVotes
    <3> QED
      BY <2>1, <3>1
  <2> QED
    BY <2>2, <2>3
<1>3. QuorumFound'
  <2> SUFFICES ASSUME handling.step \in {"conflict", "lock"}, ~ handling.raced
               PROVE  /\ handling.tx \in DOMAIN mapTxLocks' /\ Quorum(mapTxLocks'[handling.tx])
                      /\ handling.inputs # {} =>
                            /\ handling.tx \in DOMAIN mapTxLockReq'
                            /\ mapTxLockReq'[handling.tx] = handling.tx
    BY DEF QuorumFound, Quorum
  <2>1. /\ handling.tx \in DOMAIN mapTxLocks /\ Quorum(mapTxLocks[handling.tx])
        /\ handling.inputs # {} =>
              /\ handling.tx \in DOMAIN mapTxLockReq
              /\ mapTxLockReq[handling.tx] = handling.tx
    BY DEF Inv, HandlingOK, QuorumFound
  <2>2. mapTxLocks'[handling.tx].votes = mapTxLocks[handling.tx].votes
    BY <2>1 DEF SameVotes
  <2>3. Quorum(mapTxLocks'[handling.tx])
    BY <2>1, <2>2, SameQuorum
  <2> QED
    BY <2>1, <2>3 DEF SameVotes, RequestsStay
<1> QED
  BY <1>1, <1>2, <1>3 DEF HandlingOK

\* Outside the steps of a vote there is little to know.
LEMMA HandlingElsewhere ==
    ASSUME handling'.step \in {"idle"} \cup RequestSteps,
           handling'.step # "idle" =>
               handling'.tx \in Tx /\ handling'.inputs \subseteq Spends[handling'.tx],
           handling'.step = "lockRefused" => handling'.tx \in refused'
    PROVE  HandlingOK'
<1>1. handling'.step \notin VoteSteps
  BY DEF VoteSteps, RequestSteps
<1>2. NewVote' /\ NotRaced' /\ QuorumFound'
  BY <1>1 DEF NewVote, NotRaced, QuorumFound, VoteSteps
<1> QED
  BY <1>2 DEF HandlingOK, HandlingTx, HandlingRefused

\* Nothing changes, or a request is inserted.
LEMMA UnchangedStays ==
    /\ RequestsStay(mapTxLockReq, mapTxLockReq)
    /\ SameVotes(mapTxLocks, mapTxLocks)
    /\ \A t, tx : RequestsStay(mapTxLockReq, Insert(mapTxLockReq, t, tx))
BY DEF RequestsStay, SameVotes, Insert

------------------------------------------------------------------------------
(* ReprocessBlocks.                                                         *)

\* There is a first block that CheckBlock refuses, or none.
LEMMA KeptBlocksInRange ==
    ASSUME chain \in Seq(Tx), NEW locked
    PROVE  KeptBlocks(locked) \in 0 .. Len(chain)
<1> DEFINE P(n) == /\ \A i \in 1 .. n : BlockPasses(chain[i], locked)
                   /\ n < Len(chain) => ~ BlockPasses(chain[n + 1], locked)
           S == {i \in 1 .. Len(chain) : ~ BlockPasses(chain[i], locked)}
<1>1. Len(chain) \in Nat
  OBVIOUS
<1>2. \E n \in 0 .. Len(chain) : P(n)
  <2>1. CASE S = {}
    <3>1. P(Len(chain))
      BY <2>1, <1>1
    <3> QED
      BY <3>1, <1>1
  <2>2. CASE S # {}
    <3>1. PICK m \in S : \A k \in S : m <= k
      <4>1. S \in SUBSET Nat
        BY <1>1
      <4> HIDE DEF S
      <4> QED
        BY <2>2, <4>1, LeastNatural
    <3>2. P(m - 1) /\ m - 1 \in 0 .. Len(chain)
      BY <3>1, <1>1
    <3> QED
      BY <3>2
  <2> QED
    BY <2>1, <2>2
<1>3. KeptBlocks(locked) = CHOOSE n \in 0 .. Len(chain) : P(n)
  BY DEF KeptBlocks
<1> HIDE DEF P
<1> QED
  BY <1>2, <1>3

LEMMA ReprocessType ==
    ASSUME TypeOK, NEW locked, ReprocessBlocks(locked)
    PROVE  chain' \in Seq(Tx) /\ mempool' \subseteq Tx
<1>1. chain \in Seq(Tx) /\ mempool \subseteq Tx
  BY DEF TypeOK
<1> DEFINE n == KeptBlocks(locked)
<1>2. n \in 0 .. Len(chain)
  BY <1>1, KeptBlocksInRange
<1>3. /\ chain' = SubSeq(chain, 1, n)
      /\ mempool' = mempool \cup
            {chain[i] : i \in {j \in n + 1 .. Len(chain) : ~ LockedForAnother(chain[j], locked)}}
  BY DEF ReprocessBlocks
<1> HIDE DEF n
<1>4. chain' \in Seq(Tx)
  BY <1>1, <1>2, <1>3
<1>5. \A i \in n + 1 .. Len(chain) : chain[i] \in Tx
  BY <1>1, <1>2
<1> QED
  BY <1>1, <1>3, <1>4, <1>5

------------------------------------------------------------------------------
(* Types.                                                                   *)

HandlingType ==
    [step : {"idle"} \cup VoteSteps \cup RequestSteps, tx : Tx \cup {None},
     height : Height \cup {0}, mn : Masternode \cup {None},
     inputs : SUBSET Outpoint, raced : BOOLEAN]

CleaningType ==
    [step : {"idle", "inputs", "rejected", "votes", "lock"},
     tx : Tx \cup {None}, inputs : SUBSET Outpoint]

RequestsOK(req) == DOMAIN req \subseteq Tx /\ \A u \in DOMAIN req : req[u] \in {u, EmptyTx}

InputsOK(locked) ==
    DOMAIN locked \subseteq Outpoint /\ \A o \in DOMAIN locked : o \in Spends[locked[o]]

\* TypeOK in parts.
LEMMA TypeParts ==
    TypeOK <=> /\ RequestsOK(mapTxLockReq)
               /\ mapTxLockReqRejected \subseteq refused /\ refused \subseteq Tx
               /\ mapTxLockVote \subseteq Masternode \X Tx
               /\ LocksOK(mapTxLocks)
               /\ InputsOK(mapLockedInputs) /\ stray \subseteq DOMAIN mapLockedInputs
               /\ mempool \subseteq Tx /\ chain \in Seq(Tx) /\ sending \subseteq Tx
               /\ messages \in 0 .. MaxMessages
               /\ handling \in HandlingType
               /\ cleaning \in CleaningType
<1>1. LocksOK(mapTxLocks) <=> DOMAIN mapTxLocks \subseteq Tx /\ Ran(mapTxLocks) \subseteq Lock
  BY DEF LocksOK, Ran
<1> QED
  BY <1>1 DEF TypeOK, RequestsOK, InputsOK, HandlingType, CleaningType

LEMMA TypePartsPrimed ==
    ASSUME RequestsOK(mapTxLockReq)',
           mapTxLockReqRejected' \subseteq refused', refused' \subseteq Tx,
           mapTxLockVote' \subseteq Masternode \X Tx,
           LocksOK(mapTxLocks)',
           InputsOK(mapLockedInputs)', stray' \subseteq DOMAIN mapLockedInputs',
           mempool' \subseteq Tx, chain' \in Seq(Tx), sending' \subseteq Tx,
           messages' \in 0 .. MaxMessages,
           handling' \in HandlingType,
           cleaning' \in CleaningType
    PROVE  TypeOK'
<1>1. DOMAIN mapTxLocks' \subseteq Tx /\ Ran(mapTxLocks') \subseteq Lock
  BY DEF LocksOK, Ran
<1> QED
  BY <1>1 DEF TypeOK, RequestsOK, InputsOK, HandlingType, CleaningType

LEMMA StartTypes == Idle \in HandlingType /\ NotCleaning \in CleaningType
BY DEF HandlingType, CleaningType, Idle, NotCleaning

\* Going from step to step.
LEMMA GoesType ==
    ASSUME handling \in HandlingType,
           NEW step \in {"idle"} \cup VoteSteps \cup RequestSteps, NEW inputs \in SUBSET Outpoint
    PROVE  /\ [handling EXCEPT !.step = step] \in HandlingType
           /\ [handling EXCEPT !.inputs = inputs] \in HandlingType
           /\ [handling EXCEPT !.step = step, !.inputs = inputs] \in HandlingType
BY DEF HandlingType

\* What Insert does to the requests.
LEMMA InsertedRequest ==
    ASSUME RequestsOK(mapTxLockReq), NEW t \in Tx, NEW tx \in {t, EmptyTx}
    PROVE  RequestsOK(Insert(mapTxLockReq, t, tx))
BY DEF Insert, RequestsOK

\* A message more.
LEMMA MessageType == messages \in 0 .. MaxMessages /\ Message => messages' \in 0 .. MaxMessages
BY FilterAssumption DEF Message

\* The inputs of what is found under the hash of a transaction.
LEMMA RequestedInputs ==
    ASSUME RequestsOK(mapTxLockReq), NEW t \in Tx
    PROVE  /\ Inputs(Requested(t)) \subseteq Spends[t] /\ Spends[t] \subseteq Outpoint
           /\ Inputs(Requested(t)) # {} =>
                t \in DOMAIN mapTxLockReq /\ mapTxLockReq[t] = t
           /\ t \in DOMAIN mapTxLockReq /\ mapTxLockReq[t] = t =>
                Inputs(Requested(t)) = Spends[t]
<1>1. Spends[t] \subseteq Outpoint
  BY SpendsAssumption
<1>2. t # EmptyTx
  BY EmptyAssumption
<1>3. Requested(t) \in {t, EmptyTx} /\ (Requested(t) = t => t \in DOMAIN mapTxLockReq /\ mapTxLockReq[t] = t)
  BY <1>2 DEF Requested, RequestsOK
<1> QED
  BY <1>1, <1>2, <1>3 DEF Inputs, Requested

------------------------------------------------------------------------------
(* The other threads.                                                       *)

\* The memory pool, a block: no table changes.
LEMMA PoolStep ==
    ASSUME Inv, NEW t \in PlainTx, AcceptToMemoryPool(t) \/ ConnectBlock(t)
    PROVE  Inv'
<1>1. /\ UNCHANGED <<mapTxLockReq, mapTxLockReqRejected, mapTxLockVote, mapTxLocks, mapLockedInputs>>
      /\ UNCHANGED <<handling, cleaning, sending, refused, stray, messages>>
  BY DEF AcceptToMemoryPool, ConnectBlock, requestVars, lockVars, threadVars, historyVars
<1>2. mempool' \subseteq Tx /\ chain' \in Seq(Tx)
  <2>1. chain \in Seq(Tx) /\ mempool \subseteq Tx /\ t \in Tx
    BY WalletAssumption DEF Inv, TypeOK
  <2>2. chain' = chain \/ chain' = Append(chain, t)
    BY DEF AcceptToMemoryPool, ConnectBlock
  <2>3. mempool' \subseteq mempool \cup {t}
    BY DEF AcceptToMemoryPool, ConnectBlock
  <2> QED
    BY <2>1, <2>2, <2>3
<1>3. TypeOK'
  BY <1>1, <1>2 DEF Inv, TypeOK
<1>4. HandlingOK'
  BY <1>1, UnchangedStays, HandlingKept
<1>5. /\ VotesOnce' /\ OwnersOK' /\ OwnersRequested' /\ LockedByQuorumOrRefused'
      /\ CleaningLock' /\ Releasing'
  BY <1>1, TypeLocks, UnchangedStays, QuietStep DEF Inv
<1> QED
  BY <1>3, <1>4, <1>5 DEF Inv

LEMMA SendStep ==
    ASSUME Inv, NEW t \in WalletTx, NEW h \in LockHeight \cup {0},
           SendRequest(t) \/ SendCreateLock(t, h)
    PROVE  Inv'
<1>1. t \in Tx
  BY WalletAssumption
<1>2. /\ mapTxLockReq' \in {mapTxLockReq, Insert(mapTxLockReq, t, t)}
      /\ mapTxLocks' \in {mapTxLocks, CreateNewLock(mapTxLocks, t, h)}
      /\ sending' \subseteq sending \cup {t}
      /\ UNCHANGED <<mapTxLockReqRejected, mapTxLockVote, mapLockedInputs, mempool, chain,
                     handling, cleaning, refused, stray>>
  BY DEF SendRequest, SendCreateLock, requestVars, lockVars, poolVars, historyVars
<1>3. messages' \in 0 .. MaxMessages
  <2>1. messages \in 0 .. MaxMessages
    BY DEF Inv, TypeOK
  <2> QED
    BY <2>1, MessageType DEF SendRequest, SendCreateLock, historyVars
<1>4. LocksOK(mapTxLocks') /\ SameVotes(mapTxLocks, mapTxLocks')
  BY <1>1, <1>2, TypeLocks, CreateNewLockKeeps, UnchangedStays DEF Inv
<1>5. RequestsStay(mapTxLockReq, mapTxLockReq')
  BY <1>2, UnchangedStays
<1>6. RequestsOK(mapTxLockReq')
  BY <1>1, <1>2, TypeParts, InsertedRequest DEF Inv
<1>7. TypeOK'
  BY <1>1, <1>2, <1>3, <1>4, <1>6, TypeParts, TypePartsPrimed DEF Inv
<1>8. HandlingOK'
  BY <1>2, <1>4, <1>5, HandlingKept
<1>9. /\ VotesOnce' /\ OwnersOK' /\ OwnersRequested' /\ LockedByQuorumOrRefused'
      /\ CleaningLock' /\ Releasing'
  BY <1>2, <1>4, <1>5, QuietStep
<1> QED
  BY <1>7, <1>8, <1>9 DEF Inv

\* Time changes nothing but expirations.
LEMMA TimeStep ==
    ASSUME Inv, SecondPasses \/ \E t \in Tx : HourPasses(t)
    PROVE  Inv'
<1>1. UNCHANGED <<mapTxLockReq, mapTxLockReqRejected, mapTxLockVote, mapLockedInputs,
                  mempool, chain, handling, cleaning, sending, refused, stray, messages>>
  BY DEF SecondPasses, HourPasses, requestVars, poolVars, threadVars, historyVars
<1>2. LocksOK(mapTxLocks)
  BY TypeLocks DEF Inv
<1>3. \A l \in Lock : /\ [l EXCEPT !.expiration = "past"] \in Lock
                      /\ [l EXCEPT !.expiration = "past"].votes = l.votes
                      /\ [l EXCEPT !.expiration = IF @ = "now" THEN "past" ELSE @] \in Lock
                      /\ [l EXCEPT !.expiration = IF @ = "now" THEN "past" ELSE @].votes = l.votes
  BY DEF Lock, Expiry
<1>4. LocksOK(mapTxLocks') /\ SameVotes(mapTxLocks, mapTxLocks')
  <2>1. CASE SecondPasses
    <3>1. mapTxLocks' = [t \in DOMAIN mapTxLocks |->
              [mapTxLocks[t] EXCEPT !.expiration = IF @ = "now" THEN "past" ELSE @]]
      BY <2>1 DEF SecondPasses
    <3> QED
      BY <3>1, <1>2, <1>3 DEF LocksOK, SameVotes
  <2>2. ASSUME NEW t \in Tx, HourPasses(t)
        PROVE  LocksOK(mapTxLocks') /\ SameVotes(mapTxLocks, mapTxLocks')
    <3>1. /\ DOMAIN mapTxLocks' = DOMAIN mapTxLocks
          /\ \A u \in DOMAIN mapTxLocks : mapTxLocks'[u] =
                IF u = t THEN [mapTxLocks[u] EXCEPT !.expiration = "past"] ELSE mapTxLocks[u]
      BY <2>2 DEF HourPasses
    <3> QED
      BY <3>1, <1>2, <1>3 DEF LocksOK, SameVotes
  <2> QED
    BY <2>1, <2>2
<1>5. TypeOK'
  BY <1>1, <1>4, LocksType DEF Inv, TypeOK
<1>6. HandlingOK'
  BY <1>1, <1>4, UnchangedStays, HandlingKept
<1>7. /\ VotesOnce' /\ OwnersOK' /\ OwnersRequested' /\ LockedByQuorumOrRefused'
      /\ CleaningLock' /\ Releasing'
  BY <1>1, <1>4, UnchangedStays, QuietStep
<1> QED
  BY <1>5, <1>6, <1>7 DEF Inv

------------------------------------------------------------------------------
(* The handler of a request.                                                *)

LEMMA LockRequestStep ==
    ASSUME Inv, NEW t \in Tx, NEW h \in LockHeight \cup {0}, LockRequest(t, h)
    PROVE  Inv'
<1>1. /\ mapTxLocks' = CreateNewLock(mapTxLocks, t, h)
      /\ handling' = [Idle EXCEPT !.step = "accept", !.tx = t, !.height = h]
      /\ UNCHANGED <<mapTxLockReq, mapTxLockReqRejected, mapTxLockVote, mapLockedInputs,
                     mempool, chain, cleaning, sending, refused, stray>>
  BY DEF LockRequest, requestVars, poolVars
<1>2. LocksOK(mapTxLocks') /\ SameVotes(mapTxLocks, mapTxLocks')
  BY <1>1, TypeLocks, CreateNewLockKeeps DEF Inv
<1>3. messages' \in 0 .. MaxMessages
  BY MessageType DEF LockRequest, Inv, TypeOK
<1>4. handling' \in HandlingType
  BY <1>1, HeightAssumption DEF HandlingType, Idle, RequestSteps
<1>5. TypeOK'
  BY <1>1, <1>2, <1>3, <1>4, TypeParts, TypePartsPrimed DEF Inv
<1>6. HandlingOK'
  <2>1. handling'.step = "accept" /\ handling'.tx = t /\ handling'.inputs = {}
    BY <1>1 DEF Idle
  <2> QED
    BY <2>1, HandlingElsewhere DEF RequestSteps
<1>7. /\ VotesOnce' /\ OwnersOK' /\ OwnersRequested' /\ LockedByQuorumOrRefused'
      /\ CleaningLock' /\ Releasing'
  BY <1>1, <1>2, UnchangedStays, QuietStep
<1> QED
  BY <1>5, <1>6, <1>7 DEF Inv

\* A step of the request's handler that locks nothing.
LEMMA RequestHandled ==
    ASSUME Inv, LocksOK(mapTxLocks'), SameVotes(mapTxLocks, mapTxLocks'),
           mapTxLockReq' = mapTxLockReq \/ (\E t \in Tx : mapTxLockReq' = Insert(mapTxLockReq, t, t)),
           mapTxLockReqRejected' \subseteq refused', refused \subseteq refused', refused' \subseteq Tx,
           mapTxLockVote \subseteq mapTxLockVote', mapTxLockVote' \subseteq Masternode \X Tx,
           mapLockedInputs' = mapLockedInputs, mempool' \subseteq Tx, chain' \in Seq(Tx),
           UNCHANGED <<cleaning, sending, stray, messages>>,
           handling' \in HandlingType,
           handling'.step \in {"idle"} \cup RequestSteps,
           handling'.step # "idle" =>
               handling'.tx \in Tx /\ handling'.inputs \subseteq Spends[handling'.tx],
           handling'.step = "lockRefused" => handling'.tx \in refused'
    PROVE  Inv'
<1>1. RequestsStay(mapTxLockReq, mapTxLockReq')
  BY UnchangedStays
<1>2. RequestsOK(mapTxLockReq')
  BY TypeParts, InsertedRequest DEF Inv
<1>3. TypeOK'
  BY <1>2, TypeParts, TypePartsPrimed DEF Inv
<1>4. HandlingOK'
  BY HandlingElsewhere
<1>5. /\ VotesOnce' /\ OwnersOK' /\ OwnersRequested' /\ LockedByQuorumOrRefused'
      /\ CleaningLock' /\ Releasing'
  BY <1>1, QuietStep
<1> QED
  BY <1>3, <1>4, <1>5 DEF Inv

\* What is known of a handler between two steps of a request.
LEMMA InRequest ==
    ASSUME Inv, handling.step # "idle"
    PROVE  /\ handling.tx \in Tx /\ handling.inputs \subseteq Spends[handling.tx]
           /\ handling \in HandlingType /\ Idle \in HandlingType
           /\ Spends[handling.tx] \subseteq Outpoint /\ handling.inputs \subseteq Outpoint
           /\ mempool \subseteq Tx /\ chain \in Seq(Tx)
           /\ refused \subseteq Tx /\ mapTxLockReqRejected \subseteq refused
           /\ mapTxLockVote \subseteq Masternode \X Tx
           /\ LocksOK(mapTxLocks) /\ SameVotes(mapTxLocks, mapTxLocks)
BY TypeParts, StartTypes, SpendsAssumption, UnchangedStays DEF Inv, HandlingOK, HandlingTx

LEMMA PoolDecides ==
    ASSUME Inv, LockRequestAccepted \/ LockRequestRejected
    PROVE  Inv'
<1>1. /\ handling.step = "accept" /\ mempool' \in {mempool, mempool \cup {handling.tx}}
      /\ \E step \in {"vote", "refuse"} : handling' = [handling EXCEPT !.step = step]
      /\ UNCHANGED <<mapTxLockReq, mapTxLockReqRejected, mapTxLockVote, mapTxLocks, mapLockedInputs,
                     chain, cleaning, sending, refused, stray, messages>>
  BY DEF LockRequestAccepted, LockRequestRejected, Goes, requestVars, lockVars, poolVars, historyVars
<1>2. PICK step \in {"vote", "refuse"} : handling' = [handling EXCEPT !.step = step]
  BY <1>1
<1>3. step \in RequestSteps
  BY DEF RequestSteps
<1>4. handling' \in HandlingType
  BY <1>1, <1>2, <1>3, InRequest, GoesType
<1>5. handling'.step = step /\ handling'.tx = handling.tx /\ handling'.inputs = handling.inputs
  BY <1>1, <1>2, InRequest DEF HandlingType
<1> QED
  BY <1>1, <1>3, <1>4, <1>5, InRequest, RequestHandled

LEMMA DoConsensusVoteStep ==
    ASSUME Inv, DoConsensusVote
    PROVE  Inv'
<1>1. /\ handling.step = "vote" /\ handling' = Idle
      /\ mapTxLockVote' = mapTxLockVote \cup
             (IF Self \in Ranked[handling.height] THEN {<<Self, handling.tx>>} ELSE {})
      /\ mapTxLockReq' = Insert(mapTxLockReq, handling.tx, handling.tx)
      /\ UNCHANGED <<mapTxLockReqRejected, mapTxLocks, mapLockedInputs,
                     mempool, chain, cleaning, sending, refused, stray, messages>>
  BY DEF DoConsensusVote, poolVars, historyVars
<1>2. handling.height \in Height \cup {0}
  BY <1>1, InRequest DEF HandlingType
<1>3. Self \in Ranked[handling.height] => Self \in Masternode
  BY <1>2, RankedAssumption
<1>4. mapTxLockVote \subseteq mapTxLockVote' /\ mapTxLockVote' \subseteq Masternode \X Tx
  BY <1>1, <1>3, InRequest
<1>5. handling'.step = "idle"
  BY <1>1 DEF Idle
<1> QED
  BY <1>1, <1>4, <1>5, InRequest, RequestHandled

LEMMA InsertRejectedStep ==
    ASSUME Inv, InsertRejected
    PROVE  Inv'
<1>1. /\ handling.step = "refuse"
      /\ mapTxLockReqRejected' = mapTxLockReqRejected \cup {handling.tx}
      /\ refused' = refused \cup {handling.tx}
      /\ handling' = [handling EXCEPT !.step = "lockRefused", !.inputs = Spends[handling.tx]]
      /\ UNCHANGED <<mapTxLockReq, mapTxLockVote, mapTxLocks, mapLockedInputs,
                     mempool, chain, cleaning, sending, stray, messages>>
  BY DEF InsertRejected, lockVars, poolVars
<1>2. "lockRefused" \in RequestSteps
  BY DEF RequestSteps
<1>3. handling' \in HandlingType
  BY <1>1, <1>2, InRequest, GoesType
<1>4. handling'.step = "lockRefused" /\ handling'.tx = handling.tx /\ handling'.inputs = Spends[handling.tx]
  BY <1>1, InRequest DEF HandlingType
<1> QED
  BY <1>1, <1>2, <1>3, <1>4, InRequest, RequestHandled

LEMMA FindCompleteLockStep ==
    ASSUME Inv, FindCompleteLock
    PROVE  Inv'
<1>1. /\ handling.step = "lockRefused"
      /\ handling' \in {Idle, [handling EXCEPT !.step = "resolve"]}
      /\ UNCHANGED <<mapTxLockReq, mapTxLockReqRejected, mapTxLockVote, mapTxLocks, mapLockedInputs,
                     mempool, chain, cleaning, sending, refused, stray, messages>>
  BY DEF FindCompleteLock, requestVars, lockVars, poolVars, historyVars
<1>2. "resolve" \in RequestSteps
  BY DEF RequestSteps
<1>3. handling' \in HandlingType
  BY <1>1, <1>2, InRequest, GoesType
<1>4. \/ handling'.step = "idle"
      \/ handling'.step = "resolve" /\ handling'.tx = handling.tx /\ handling'.inputs = handling.inputs
  BY <1>1, InRequest DEF HandlingType, Idle
<1> QED
  BY <1>1, <1>2, <1>3, <1>4, InRequest, RequestHandled

LEMMA ResolveRejectedStep ==
    ASSUME Inv, ResolveRejected
    PROVE  Inv'
<1>1. /\ handling.step = "resolve"
      /\ handling' \in {Idle, [handling EXCEPT !.step = "reprocess"]}
      /\ mapTxLocks' = mapTxLocks \/ \E S : mapTxLocks' = Cancel(mapTxLocks, S)
      /\ UNCHANGED <<mapTxLockReq, mapTxLockReqRejected, mapTxLockVote, mapLockedInputs,
                     mempool, chain, cleaning, sending, refused, stray, messages>>
  BY DEF ResolveRejected, requestVars, poolVars, historyVars
<1>2. "reprocess" \in RequestSteps
  BY DEF RequestSteps
<1>3. handling' \in HandlingType
  BY <1>1, <1>2, InRequest, GoesType
<1>4. \/ handling'.step = "idle"
      \/ handling'.step = "reprocess" /\ handling'.tx = handling.tx /\ handling'.inputs = handling.inputs
  BY <1>1, InRequest DEF HandlingType, Idle
<1>5. LocksOK(mapTxLocks') /\ SameVotes(mapTxLocks, mapTxLocks')
  BY <1>1, InRequest, CancelKeeps
<1> QED
  BY <1>1, <1>2, <1>3, <1>4, <1>5, InRequest, RequestHandled

LEMMA ReprocessStep ==
    ASSUME Inv, ReprocessForRequest
    PROVE  Inv'
<1>1. /\ handling.step = "reprocess" /\ ReprocessBlocks(mapLockedInputs)
      /\ handling' = [handling EXCEPT !.step = "insert"]
      /\ UNCHANGED <<mapTxLockReq, mapTxLockReqRejected, mapTxLockVote, mapTxLocks, mapLockedInputs,
                     cleaning, sending, refused, stray, messages>>
  BY DEF ReprocessForRequest, Goes, requestVars, lockVars, historyVars
<1>2. "insert" \in RequestSteps
  BY DEF RequestSteps
<1>3. handling' \in HandlingType
  BY <1>1, <1>2, InRequest, GoesType
<1>4. handling'.step = "insert" /\ handling'.tx = handling.tx /\ handling'.inputs = handling.inputs
  BY <1>1, InRequest DEF HandlingType
<1>5. chain' \in Seq(Tx) /\ mempool' \subseteq Tx
  BY <1>1, ReprocessType DEF Inv
<1> QED
  BY <1>1, <1>2, <1>3, <1>4, <1>5, InRequest, RequestHandled

LEMMA InsertRequestStep ==
    ASSUME Inv, InsertRequest
    PROVE  Inv'
<1>1. /\ handling.step = "insert" /\ handling' = Idle
      /\ mapTxLockReq' = Insert(mapTxLockReq, handling.tx, handling.tx)
      /\ UNCHANGED <<mapTxLockReqRejected, mapTxLockVote, mapTxLocks, mapLockedInputs,
                     mempool, chain, cleaning, sending, refused, stray, messages>>
  BY DEF InsertRequest, lockVars, poolVars, historyVars
<1>2. handling'.step = "idle"
  BY <1>1 DEF Idle
<1> QED
  BY <1>1, <1>2, InRequest, RequestHandled

------------------------------------------------------------------------------
(* The inputs are locked.                                                   *)

LEMMA LockInputStep ==
    ASSUME Inv, NEW here \in {"lock", "lockRefused"}, NEW o \in Outpoint, LockInput(here, o)
    PROVE  Inv'
<1> DEFINE t == handling.tx
<1>1. /\ handling.step = here /\ o \in handling.inputs
      /\ mapLockedInputs' = Insert(mapLockedInputs, o, t)
      /\ handling' = [handling EXCEPT !.inputs = handling.inputs \ {o}]
      /\ stray' = IF handling.raced /\ o \notin DOMAIN mapLockedInputs THEN stray \cup {o} ELSE stray
      /\ UNCHANGED <<mapTxLockReq, mapTxLockReqRejected, mapTxLockVote, mapTxLocks,
                     mempool, chain, cleaning, sending, refused, messages>>
  BY DEF LockInput, requestVars, poolVars
<1>2. /\ t \in Tx /\ handling.inputs \subseteq Spends[t] /\ handling.inputs \subseteq Outpoint
      /\ handling \in HandlingType
  BY <1>1, InRequest
<1> HIDE DEF t
<1>3. /\ DOMAIN mapLockedInputs' = DOMAIN mapLockedInputs \cup {o}
      /\ \A p \in DOMAIN mapLockedInputs' :
            mapLockedInputs'[p] = IF p \in DOMAIN mapLockedInputs THEN mapLockedInputs[p] ELSE t
  BY <1>1 DEF Insert
<1>4. handling' \in HandlingType
  BY <1>1, <1>2, GoesType
<1>5. /\ handling'.step = here /\ handling'.tx = t /\ handling'.inputs = handling.inputs \ {o}
      /\ handling'.raced = handling.raced
  BY <1>1, <1>2 DEF HandlingType, t
<1>6. InputsOK(mapLockedInputs)' /\ stray' \subseteq DOMAIN mapLockedInputs' /\ stray \subseteq stray'
  <2>1. InputsOK(mapLockedInputs) /\ stray \subseteq DOMAIN mapLockedInputs
    BY TypeParts DEF Inv
  <2>2. o \in Outpoint /\ o \in Spends[t]
    BY <1>1, <1>2
  <2> QED
    BY <1>1, <1>3, <2>1, <2>2 DEF InputsOK
<1>7. TypeOK'
  BY <1>1, <1>4, <1>6, TypeParts, TypePartsPrimed DEF Inv
<1>8. HandlingOK'
  <2>1. handling.step = "lockRefused" => t \in refused
    BY DEF Inv, HandlingOK, HandlingRefused, t
  <2>2. handling.step = "lock" /\ ~ handling.raced =>
          /\ cleaning.tx # t /\ t \in DOMAIN mapTxLocks /\ Quorum(mapTxLocks[t])
          /\ t \in DOMAIN mapTxLockReq /\ mapTxLockReq[t] = t
    BY <1>1 DEF Inv, HandlingOK, NotRaced, QuorumFound, VoteSteps, t
  <2>3. HandlingTx' /\ HandlingRefused'
    BY <1>1, <1>2, <1>5, <2>1 DEF HandlingTx, HandlingRefused
  <2>4. NewVote'
    BY <1>5 DEF NewVote
  <2>5. NotRaced'
    BY <1>1, <1>5, <2>2 DEF NotRaced, VoteSteps
  <2>6. QuorumFound'
    BY <1>1, <1>5, <2>2 DEF QuorumFound, Quorum
  <2> QED
    BY <2>3, <2>4, <2>5, <2>6 DEF HandlingOK
<1>9. VotesOnce'
  BY <1>1, UnchangedStays, SameVotesOnce DEF Inv
<1>10. OwnersOK' /\ OwnersRequested' /\ LockedByQuorumOrRefused' /\ CleaningLock' /\ Releasing'
  <2>1. /\ LocksOK(mapTxLocks') /\ VotesGrow(mapTxLocks, mapTxLocks')
        /\ RequestsStay(mapTxLockReq, mapTxLockReq')
    BY <1>1, TypeLocks, UnchangedStays, SameVotesGrow DEF Inv
  <2>2. ASSUME o \notin DOMAIN mapLockedInputs, ~ handling.raced, t \notin refused
        PROVE  /\ t \in DOMAIN mapTxLockReq /\ t \in DOMAIN mapTxLocks
               /\ mapTxLockReq[t] = t /\ Quorum(mapTxLocks[t]) /\ cleaning.tx # t
    <3>1. here = "lock"
      BY <1>1, <2>2 DEF Inv, HandlingOK, HandlingRefused, t
    <3> QED
      BY <1>1, <2>2, <3>1 DEF Inv, HandlingOK, NotRaced, QuorumFound, VoteSteps, t
  <2>3. \A p \in DOMAIN mapLockedInputs' :
          \/ p \in DOMAIN mapLockedInputs /\ mapLockedInputs'[p] = mapLockedInputs[p]
          \/ mapLockedInputs'[p] \in Tx /\ (p \in stray' \/ mapLockedInputs'[p] \in refused')
          \/ /\ mapLockedInputs'[p] \in Tx \cap DOMAIN mapTxLockReq' \cap DOMAIN mapTxLocks'
             /\ mapTxLockReq'[mapLockedInputs'[p]] = mapLockedInputs'[p]
             /\ Quorum(mapTxLocks'[mapLockedInputs'[p]])
             /\ cleaning.tx # mapLockedInputs'[p]
    <3> SUFFICES ASSUME o \notin DOMAIN mapLockedInputs
                 PROVE  \/ o \in stray' \/ t \in refused'
                        \/ /\ t \in DOMAIN mapTxLockReq' \cap DOMAIN mapTxLocks'
                           /\ mapTxLockReq'[t] = t /\ Quorum(mapTxLocks'[t]) /\ cleaning.tx # t
      BY <1>2, <1>3
    <3> QED
      BY <1>1, <2>2
  <2> QED
    BY <1>1, <1>6, <1>9, <2>1, <2>3, OwnersKept
<1> QED
  BY <1>7, <1>8, <1>9, <1>10 DEF Inv

------------------------------------------------------------------------------
(* The handler of a vote.                                                   *)

LEMMA ConsensusVoteStep ==
    ASSUME Inv, NEW t \in Tx, NEW mn \in PeerVotes, NEW h \in Height, ConsensusVote(t, mn, h)
    PROVE  Inv'
<1>1. /\ handling = Idle /\ <<mn, t>> \notin mapTxLockVote
      /\ mapTxLockVote' = mapTxLockVote \cup {<<mn, t>>}
      /\ UNCHANGED <<mapTxLockReq, mapTxLockReqRejected, mapLockedInputs, mempool, chain,
                     cleaning, sending, refused, stray>>
  BY DEF ConsensusVote, requestVars, poolVars
<1>2. messages' \in 0 .. MaxMessages
  BY MessageType DEF ConsensusVote, Inv, TypeOK
<1>3. mn \in Masternode /\ mapTxLockVote' \subseteq Masternode \X Tx
  BY <1>1, PeerAssumption DEF Inv, TypeOK
<1>4. LocksOK(mapTxLocks') /\ SameVotes(mapTxLocks, mapTxLocks')
  <2>1. LocksOK(mapTxLocks)
    BY TypeLocks DEF Inv
  <2>2. NewLock(0) \in Lock /\ NewLock(0).votes = <<>>
    BY DEF NewLock, Lock, Expiry
  <2>3. mapTxLocks' = mapTxLocks \/ mapTxLocks' = Insert(mapTxLocks, t, NewLock(0))
    BY DEF ConsensusVote
  <2> QED
    BY <2>1, <2>2, <2>3 DEF LocksOK, SameVotes, Insert
<1>5. \/ handling' = handling
      \/ /\ mn \in Ranked[h]
         /\ handling' = [step |-> "sign", tx |-> t, height |-> h, mn |-> mn,
                         inputs |-> {}, raced |-> cleaning.tx = t]
  BY DEF ConsensusVote
<1>6. handling' \in HandlingType
  <2>1. handling \in HandlingType
    BY TypeParts DEF Inv
  <2>2. (cleaning.tx = t) \in BOOLEAN /\ "sign" \in {"idle"} \cup VoteSteps \cup RequestSteps
    BY DEF VoteSteps
  <2>3. \A b \in BOOLEAN : [step |-> "sign", tx |-> t, height |-> h, mn |-> mn,
                           inputs |-> {}, raced |-> b] \in HandlingType
    BY <1>3, <2>2 DEF HandlingType
  <2> QED
    BY <1>5, <2>1, <2>2, <2>3
<1>7. TypeOK'
  BY <1>1, <1>2, <1>3, <1>4, <1>6, TypeParts, TypePartsPrimed DEF Inv
<1>8. HandlingOK'
  <2>1. CASE handling' = handling
    BY <1>1, <1>4, <2>1, UnchangedStays, HandlingKept
  <2>2. CASE /\ mn \in Ranked[h]
             /\ handling' = [step |-> "sign", tx |-> t, height |-> h, mn |-> mn,
                             inputs |-> {}, raced |-> cleaning.tx = t]
    <3>1. HandlingTx' /\ HandlingRefused' /\ QuorumFound'
      BY <2>2 DEF HandlingTx, HandlingRefused, QuorumFound
    <3>2. NotRaced'
      BY <1>1, <2>2 DEF NotRaced
    <3>3. ASSUME t \in DOMAIN mapTxLocks', ~ BeingRemoved(t), NEW i \in DOMAIN mapTxLocks'[t].votes
          PROVE  mapTxLocks'[t].votes[i].mn # mn
      <4>1. t \in DOMAIN mapTxLocks /\ mapTxLocks'[t].votes = mapTxLocks[t].votes
        BY <1>4, <3>3 DEF SameVotes
      <4>2. VotedOnce(mapTxLocks[t], t, mapTxLockVote)
        BY <3>3, <4>1 DEF Inv, VotesOnce
      <4> QED
        BY <1>1, <3>3, <4>1, <4>2 DEF VotedOnce
    <3>4. NewVote'
      BY <1>1, <2>2, <3>3 DEF NewVote, BeingRemoved
    <3> QED
      BY <3>1, <3>2, <3>4 DEF HandlingOK
  <2> QED
    BY <1>5, <2>1, <2>2
<1>9. /\ VotesOnce' /\ OwnersOK' /\ OwnersRequested' /\ LockedByQuorumOrRefused'
      /\ CleaningLock' /\ Releasing'
  BY <1>1, <1>4, UnchangedStays, QuietStep
<1> QED
  BY <1>7, <1>8, <1>9 DEF Inv

\* The tables after a vote was added to a lock that is there.
LEMMA VoteAdded ==
    ASSUME Inv, handling.step = "sign", handling.tx \in DOMAIN mapTxLocks,
           mapTxLocks' = Signed(handling.tx, handling.mn, handling.height),
           mapTxLockVote' = mapTxLockVote, cleaning' = cleaning
    PROVE  LocksOK(mapTxLocks') /\ VotesGrow(mapTxLocks, mapTxLocks') /\ VotesOnce'
<1> DEFINE t == handling.tx
           mn == handling.mn
           h == handling.height
<1>1. LocksOK(mapTxLocks)
  BY TypeLocks DEF Inv
<1>2. /\ mn \in Ranked[h] /\ h \in Height /\ <<mn, t>> \in mapTxLockVote
      /\ ~ BeingRemoved(t) => \A i \in DOMAIN mapTxLocks[t].votes : mapTxLocks[t].votes[i].mn # mn
  BY DEF Inv, HandlingOK, NewVote
<1>3. mn \in Masternode
  BY <1>2, RankedAssumption
<1>4. t \in DOMAIN mapTxLocks /\ mapTxLocks' = Signed(t, mn, h)
  OBVIOUS
<1> HIDE DEF t, mn, h
<1>5. /\ LocksOK(mapTxLocks') /\ DOMAIN mapTxLocks' = DOMAIN mapTxLocks
      /\ mapTxLocks[t].votes \in Seq(Vote)
      /\ mapTxLocks'[t].votes = Append(mapTxLocks[t].votes, [mn |-> mn, height |-> h])
      /\ \A u \in DOMAIN mapTxLocks \ {t} : mapTxLocks'[u] = mapTxLocks[u]
  BY <1>1, <1>2, <1>3, <1>4, SignedLock
<1>6. VotesGrow(mapTxLocks, mapTxLocks')
  <2>1. Ran(mapTxLocks[t].votes) \subseteq Ran(mapTxLocks'[t].votes)
    BY <1>5 DEF Ran
  <2> QED
    BY <1>5, <2>1 DEF VotesGrow
<1>7. VotesOnce'
  <2> SUFFICES ASSUME NEW u \in DOMAIN mapTxLocks', ~ BeingRemoved(u)
               PROVE  VotedOnce(mapTxLocks'[u], u, mapTxLockVote)
    BY DEF VotesOnce, BeingRemoved
  <2>1. VotedOnce(mapTxLocks[u], u, mapTxLockVote)
    BY <1>5 DEF Inv, VotesOnce
  <2>2. CASE u = t
    <3>1. VotedOnce(Signed(t, mn, h)[t], t, mapTxLockVote)
      BY <1>1, <1>2, <1>4, <2>1, <2>2, SignedOnce
    <3> QED
      BY <1>4, <2>2, <3>1
  <2>3. CASE u # t
    BY <1>5, <2>1, <2>3
  <2> QED
    BY <2>2, <2>3
<1> QED
  BY <1>5, <1>6, <1>7

LEMMA AddSignatureStep ==
    ASSUME Inv, AddSignature
    PROVE  Inv'
<1> DEFINE t == handling.tx
<1>1. /\ handling.step = "sign"
      /\ IF t \in DOMAIN mapTxLocks THEN mapTxLocks' = Signed(t, handling.mn, handling.height)
                                    ELSE mapTxLocks' = mapTxLocks
      /\ \/ /\ t \in DOMAIN mapTxLocks' /\ Complete(mapTxLocks'[t])
            /\ mapTxLockReq' = Insert(mapTxLockReq, t, EmptyTx)
            /\ handling' = [handling EXCEPT !.step = "conflict", !.inputs = Inputs(Requested(t))]
         \/ mapTxLockReq' = mapTxLockReq /\ handling' = Idle
      /\ UNCHANGED <<mapTxLockReqRejected, mapTxLockVote, mapLockedInputs,
                     mempool, chain, cleaning, sending, refused, stray, messages>>
  BY DEF AddSignature, Signed, poolVars, historyVars
<1>2. t \in Tx /\ handling \in HandlingType /\ Idle \in HandlingType
  BY <1>1, InRequest
<1>3. LocksOK(mapTxLocks') /\ VotesGrow(mapTxLocks, mapTxLocks') /\ VotesOnce'
  <2>1. CASE t \in DOMAIN mapTxLocks
    BY <1>1, <2>1, VoteAdded
  <2>2. CASE t \notin DOMAIN mapTxLocks
    <3>1. mapTxLocks' = mapTxLocks
      BY <1>1, <2>2
    <3> QED
      BY <1>1, <3>1, TypeLocks, UnchangedStays, SameVotesGrow, SameVotesOnce DEF Inv
  <2> QED
    BY <2>1, <2>2
<1>4. RequestsStay(mapTxLockReq, mapTxLockReq')
  BY <1>1, UnchangedStays
<1>5. RequestsOK(mapTxLockReq) /\ RequestsOK(mapTxLockReq')
  <2>1. RequestsOK(mapTxLockReq)
    BY TypeParts DEF Inv
  <2> QED
    BY <1>1, <1>2, <2>1, InsertedRequest
<1>6. /\ Inputs(Requested(t)) \subseteq Spends[t] /\ Spends[t] \subseteq Outpoint
      /\ Inputs(Requested(t)) # {} => t \in DOMAIN mapTxLockReq /\ mapTxLockReq[t] = t
  BY <1>2, <1>5, RequestedInputs
<1>7. ASSUME handling' # Idle
      PROVE  /\ handling' = [handling EXCEPT !.step = "conflict", !.inputs = Inputs(Requested(t))]
             /\ handling'.step = "conflict" /\ handling'.tx = t
             /\ handling'.inputs = Inputs(Requested(t)) /\ handling'.raced = handling.raced
             /\ t \in DOMAIN mapTxLocks' /\ Complete(mapTxLocks'[t])
  BY <1>1, <1>2, <1>7 DEF HandlingType
<1>8. handling' \in HandlingType
  <2>1. "conflict" \in {"idle"} \cup VoteSteps \cup RequestSteps
    BY DEF VoteSteps
  <2>2. Inputs(Requested(t)) \in SUBSET Outpoint
    BY <1>6
  <2> DEFINE next == [handling EXCEPT !.step = "conflict", !.inputs = Inputs(Requested(t))]
  <2>3. next \in HandlingType
    BY <1>2, <2>1, <2>2, GoesType
  <2>4. handling' = next \/ handling' = Idle
    BY <1>1
  <2> HIDE DEF next
  <2> QED
    BY <1>2, <2>3, <2>4
<1> HIDE DEF t
<1>9. TypeOK'
  BY <1>1, <1>3, <1>5, <1>8, TypeParts, TypePartsPrimed DEF Inv
<1>10. HandlingOK'
  <2>1. CASE handling' = Idle
    <3>1. handling'.step = "idle"
      BY <2>1 DEF Idle
    <3> QED
      BY <3>1, HandlingElsewhere
  <2>2. CASE handling' # Idle
    <3>1. HandlingTx' /\ HandlingRefused' /\ NewVote'
      BY <1>2, <1>6, <1>7, <2>2 DEF HandlingTx, HandlingRefused, NewVote
    <3>2. ~ handling.raced => cleaning.tx # t
      BY <1>1 DEF Inv, HandlingOK, NotRaced, VoteSteps, t
    <3>3. NotRaced'
      BY <1>1, <1>7, <2>2, <3>2 DEF NotRaced
    <3>4. ASSUME ~ handling.raced PROVE Quorum(mapTxLocks'[t])
      <4>1. ~ (cleaning'.step = "lock" /\ cleaning'.tx = t)
        BY <1>1, <3>2, <3>4
      <4>2. VotedOnce(mapTxLocks'[t], t, mapTxLockVote')
        BY <1>3, <1>7, <2>2, <4>1 DEF VotesOnce, BeingRemoved
      <4>3. mapTxLocks'[t] \in Lock
        BY <1>3, <1>7, <2>2 DEF LocksOK
      <4> QED
        BY <1>7, <2>2, <4>2, <4>3, CompleteHasQuorum DEF VotedOnce, Quorum
    <3>5. QuorumFound'
      <4>1. Inputs(Requested(t)) # {} => t \in DOMAIN mapTxLockReq' /\ mapTxLockReq'[t] = t
        BY <1>4, <1>6 DEF RequestsStay
      <4> QED
        BY <1>7, <2>2, <3>4, <4>1 DEF QuorumFound, Quorum
    <3> QED
      BY <3>1, <3>3, <3>5 DEF HandlingOK
  <2> QED
    BY <2>1, <2>2
<1>11. OwnersOK' /\ OwnersRequested' /\ LockedByQuorumOrRefused' /\ CleaningLock' /\ Releasing'
  <2>1. \A o \in DOMAIN mapLockedInputs' :
          o \in DOMAIN mapLockedInputs /\ mapLockedInputs'[o] = mapLockedInputs[o]
    BY <1>1
  <2> QED
    BY <1>1, <1>3, <1>4, <2>1, OwnersKept
<1> QED
  BY <1>3, <1>9, <1>10, <1>11 DEF Inv

LEMMA ResolveConflictStep ==
    ASSUME Inv, ResolveConflict
    PROVE  Inv'
<1> DEFINE t == handling.tx
           inputs == IF t \in DOMAIN mapTxLockReq THEN handling.inputs ELSE {}
<1>1. /\ handling.step = "conflict"
      /\ \/ /\ mapTxLocks' = mapTxLocks
            /\ handling' = [handling EXCEPT !.step = "lock", !.inputs = inputs]
         \/ (\E S : mapTxLocks' = Cancel(mapTxLocks, S)) /\ handling' = Idle
      /\ UNCHANGED <<mapTxLockReq, mapTxLockReqRejected, mapTxLockVote, mapLockedInputs,
                     mempool, chain, cleaning, sending, refused, stray, messages>>
  BY DEF ResolveConflict, requestVars, poolVars, historyVars
<1>2. /\ t \in Tx /\ handling.inputs \subseteq Spends[t] /\ handling.inputs \subseteq Outpoint
      /\ handling \in HandlingType /\ Idle \in HandlingType
  BY <1>1, InRequest
<1>3. LocksOK(mapTxLocks') /\ SameVotes(mapTxLocks, mapTxLocks')
  BY <1>1, InRequest, CancelKeeps
<1>4. inputs \subseteq handling.inputs
  OBVIOUS
<1> HIDE DEF inputs, t
<1>5. ASSUME handling' # Idle
      PROVE  /\ handling' = [handling EXCEPT !.step = "lock", !.inputs = inputs]
             /\ handling'.step = "lock" /\ handling'.tx = t
             /\ handling'.inputs = inputs /\ handling'.raced = handling.raced
             /\ mapTxLocks' = mapTxLocks
  BY <1>1, <1>2, <1>5 DEF HandlingType, t
<1>6. handling' \in HandlingType
  <2>1. "lock" \in {"idle"} \cup VoteSteps \cup RequestSteps
    BY DEF VoteSteps
  <2>2. inputs \in SUBSET Outpoint
    BY <1>2, <1>4
  <2> DEFINE next == [handling EXCEPT !.step = "lock", !.inputs = inputs]
  <2>3. next \in HandlingType
    BY <1>2, <2>1, <2>2, GoesType
  <2>4. handling' = next \/ handling' = Idle
    BY <1>1
  <2> HIDE DEF next
  <2> QED
    BY <1>2, <2>3, <2>4
<1>7. TypeOK'
  BY <1>1, <1>3, <1>6, TypeParts, TypePartsPrimed DEF Inv
<1>8. HandlingOK'
  <2>1. CASE handling' = Idle
    <3>1. handling'.step = "idle"
      BY <2>1 DEF Idle
    <3> QED
      BY <3>1, HandlingElsewhere
  <2>2. CASE handling' # Idle
    <3>1. HandlingTx' /\ HandlingRefused' /\ NewVote'
      BY <1>2, <1>4, <1>5, <2>2 DEF HandlingTx, HandlingRefused, NewVote
    <3>2. ~ handling.raced =>
            /\ cleaning.tx # t /\ t \in DOMAIN mapTxLocks /\ Quorum(mapTxLocks[t])
            /\ handling.inputs # {} => t \in DOMAIN mapTxLockReq /\ mapTxLockReq[t] = t
      BY <1>1 DEF Inv, HandlingOK, NotRaced, QuorumFound, VoteSteps, t
    <3>3. NotRaced'
      BY <1>1, <1>5, <2>2, <3>2 DEF NotRaced
    <3>4. QuorumFound'
      BY <1>1, <1>4, <1>5, <2>2, <3>2 DEF QuorumFound, Quorum
    <3> QED
      BY <3>1, <3>3, <3>4 DEF HandlingOK
  <2> QED
    BY <2>1, <2>2
<1>9. /\ VotesOnce' /\ OwnersOK' /\ OwnersRequested' /\ LockedByQuorumOrRefused'
      /\ CleaningLock' /\ Releasing'
  BY <1>1, <1>3, UnchangedStays, QuietStep
<1> QED
  BY <1>7, <1>8, <1>9 DEF Inv

LEMMA VoteDoneStep ==
    ASSUME Inv, VoteDone
    PROVE  Inv'
<1>1. /\ handling.step = "lock" /\ handling' = Idle
      /\ ReprocessBlocks(mapLockedInputs) \/ UNCHANGED <<mempool, chain>>
      /\ UNCHANGED <<mapTxLockReq, mapTxLockReqRejected, mapTxLockVote, mapTxLocks, mapLockedInputs,
                     cleaning, sending, refused, stray, messages>>
  BY DEF VoteDone, requestVars, lockVars, poolVars, historyVars
<1>2. chain' \in Seq(Tx) /\ mempool' \subseteq Tx
  <2>1. CASE ReprocessBlocks(mapLockedInputs)
    BY <2>1, ReprocessType DEF Inv
  <2>2. CASE UNCHANGED <<mempool, chain>>
    BY <1>1, <2>2, InRequest
  <2> QED
    BY <1>1, <2>1, <2>2
<1>3. handling'.step = "idle"
  BY <1>1 DEF Idle
<1> QED
  BY <1>1, <1>2, <1>3, InRequest, RequestHandled


------------------------------------------------------------------------------
(* The clean-up.                                                            *)

\* What the invariant says of a handler, when only the clean-up has moved.  It
\* looks at the clean-up in three places.
LEMMA HandlingDuringCleanUp ==
    ASSUME Inv, handling' = handling, refused' = refused,
           mapTxLockReq' = Erase(mapTxLockReq, {cleaning.tx}) \/ mapTxLockReq' = mapTxLockReq,
           mapTxLocks' = Erase(mapTxLocks, {cleaning.tx}) \/ mapTxLocks' = mapTxLocks,
           handling.step = "sign" => <<handling.mn, handling.tx>> \in mapTxLockVote',
           \A t \in DOMAIN mapTxLocks' : BeingRemoved(t) =>
               cleaning'.step = "lock" /\ cleaning'.tx = t,
           cleaning'.tx \in {cleaning.tx, None}
    PROVE  HandlingOK'
<1>1. HandlingTx /\ HandlingRefused /\ NewVote /\ NotRaced /\ QuorumFound
  BY DEF Inv, HandlingOK
<1>2. /\ DOMAIN mapTxLocks' \subseteq DOMAIN mapTxLocks
      /\ \A u \in DOMAIN mapTxLocks' : mapTxLocks'[u] = mapTxLocks[u]
      /\ \A u \in DOMAIN mapTxLocks \ {cleaning.tx} : u \in DOMAIN mapTxLocks'
      /\ \A u \in DOMAIN mapTxLockReq \ {cleaning.tx} :
             u \in DOMAIN mapTxLockReq' /\ mapTxLockReq'[u] = mapTxLockReq[u]
  BY DEF Erase
<1>3. HandlingTx' /\ HandlingRefused'
  BY <1>1 DEF HandlingTx, HandlingRefused
<1>4. NewVote'
  <2> SUFFICES ASSUME handling.step = "sign"
               PROVE  /\ handling.mn \in Ranked[handling.height] /\ handling.height \in Height
                      /\ <<handling.mn, handling.tx>> \in mapTxLockVote'
                      /\ (/\ handling.tx \in DOMAIN mapTxLocks'
                          /\ ~ (cleaning'.step = "lock" /\ cleaning'.tx = handling.tx)) =>
                            \A i \in DOMAIN mapTxLocks'[handling.tx].votes :
                                mapTxLocks'[handling.tx].votes[i].mn # handling.mn
    BY DEF NewVote, BeingRemoved
  <2> QED
    BY <1>1, <1>2 DEF NewVote
<1>5. NotRaced'
  <2>1. handling.step \in VoteSteps => handling.tx # None
    BY <1>1, SelfAssumption DEF HandlingTx, VoteSteps
  <2> QED
    BY <1>1, <2>1 DEF NotRaced
<1>6. QuorumFound'
  <2> SUFFICES ASSUME handling.step \in {"conflict", "lock"}, ~ handling.raced
               PROVE  /\ handling.tx \in DOMAIN mapTxLocks' /\ Quorum(mapTxLocks'[handling.tx])
                      /\ handling.inputs # {} =>
                            /\ handling.tx \in DOMAIN mapTxLockReq'
                            /\ mapTxLockReq'[handling.tx] = handling.tx
    BY DEF QuorumFound, Quorum
  <2>1. cleaning.tx # handling.tx
    BY <1>1 DEF NotRaced, VoteSteps
  <2> QED
    BY <1>1, <1>2, <2>1 DEF QuorumFound
<1> QED
  BY <1>3, <1>4, <1>5, <1>6 DEF HandlingOK

LEMMA CleanStartStep ==
    ASSUME Inv, NEW t \in Tx, CleanTransactionLocksList(t)
    PROVE  Inv'
<1> DEFINE inputs == Inputs(Requested(t))
           step == IF t \in DOMAIN mapTxLockReq THEN "inputs" ELSE "lock"
<1>1. /\ cleaning = NotCleaning /\ t \in DOMAIN mapTxLocks
      /\ cleaning' = [step |-> step, tx |-> t, inputs |-> inputs]
      /\ handling' = [handling EXCEPT !.raced = @ \/ (handling.step \in VoteSteps /\ handling.tx = t)]
      /\ UNCHANGED <<mapTxLockReq, mapTxLockReqRejected, mapTxLockVote, mapTxLocks, mapLockedInputs,
                     mempool, chain, sending, refused, stray, messages>>
  BY DEF CleanTransactionLocksList, Expired, ReleasedInputs, requestVars, lockVars, poolVars, historyVars
<1>2. /\ RequestsOK(mapTxLockReq) /\ handling \in HandlingType
      /\ InputsOK(mapLockedInputs)
  BY TypeParts DEF Inv
<1>3. /\ inputs \subseteq Outpoint
      /\ t \in DOMAIN mapTxLockReq /\ mapTxLockReq[t] = t => inputs = Spends[t]
      /\ t \notin DOMAIN mapTxLockReq => inputs = {}
  <2>1. inputs \subseteq Spends[t] /\ Spends[t] \subseteq Outpoint
    BY <1>2, RequestedInputs
  <2> QED
    BY <1>2, <2>1, RequestedInputs
<1>4. step \in {"inputs", "lock"} /\ (step # "inputs" => t \notin DOMAIN mapTxLockReq)
  OBVIOUS
<1> HIDE DEF inputs, step
<1>5. /\ handling'.step = handling.step /\ handling'.tx = handling.tx
      /\ handling'.height = handling.height /\ handling'.mn = handling.mn
      /\ handling'.inputs = handling.inputs
      /\ handling' \in HandlingType
      /\ ~ handling'.raced => ~ handling.raced /\ ~ (handling.step \in VoteSteps /\ handling.tx = t)
  <2> DEFINE mark == handling.raced \/ (handling.step \in VoteSteps /\ handling.tx = t)
  <2>1. mark \in BOOLEAN
    BY <1>2 DEF HandlingType
  <2>2. handling' = [handling EXCEPT !.raced = mark]
    BY <1>1
  <2>3. ~ mark => ~ handling.raced /\ ~ (handling.step \in VoteSteps /\ handling.tx = t)
    OBVIOUS
  <2> HIDE DEF mark
  <2> QED
    BY <1>2, <2>1, <2>2, <2>3 DEF HandlingType
<1>6. TypeOK'
  <2>1. cleaning' \in CleaningType
    BY <1>1, <1>3, <1>4 DEF CleaningType
  <2> QED
    BY <1>1, <1>5, <2>1, TypeParts, TypePartsPrimed DEF Inv
<1>7. /\ cleaning.step = "idle" /\ cleaning'.step = step /\ cleaning'.tx = t
      /\ cleaning'.inputs = inputs
  BY <1>1 DEF NotCleaning
<1>8. HandlingOK'
  <2>1. HandlingTx /\ HandlingRefused /\ NewVote /\ NotRaced /\ QuorumFound
    BY DEF Inv, HandlingOK
  <2>2. HandlingTx' /\ HandlingRefused'
    BY <1>1, <1>5, <2>1 DEF HandlingTx, HandlingRefused
  <2>3. NewVote'
    BY <1>1, <1>5, <1>7, <2>1 DEF NewVote, BeingRemoved
  <2>4. NotRaced'
    BY <1>5, <1>7 DEF NotRaced
  <2>5. QuorumFound'
    BY <1>1, <1>5, <2>1 DEF QuorumFound, Quorum
  <2> QED
    BY <2>2, <2>3, <2>4, <2>5 DEF HandlingOK
<1>9. VotesOnce'
  BY <1>1, <1>7 DEF Inv, VotesOnce, BeingRemoved
<1>10. OwnersOK' /\ OwnersRequested' /\ LockedByQuorumOrRefused'
  BY <1>1 DEF Inv, OwnersOK, OwnersRequested, LockedByQuorumOrRefused
<1>11. CleaningLock'
  BY <1>1, <1>3, <1>4, <1>7 DEF CleaningLock
<1>12. Releasing'
  <2> SUFFICES ASSUME NEW o \in DOMAIN mapLockedInputs \ stray, mapLockedInputs[o] = t, t \notin refused
               PROVE  o \in inputs
    BY <1>1, <1>7 DEF Releasing
  <2>1. t \in DOMAIN mapTxLockReq /\ mapTxLockReq[t] = t
    BY DEF Inv, OwnersRequested
  <2>2. o \in Spends[t]
    BY <1>2 DEF InputsOK
  <2> QED
    BY <1>3, <2>1, <2>2
<1> QED
  BY <1>6, <1>8, <1>9, <1>10, <1>11, <1>12 DEF Inv

LEMMA CleanInputStep ==
    ASSUME Inv, NEW o \in Outpoint, CleanInput(o)
    PROVE  Inv'
<1>1. /\ o \in cleaning.inputs
      /\ mapLockedInputs' = Erase(mapLockedInputs, {o})
      /\ cleaning' = [cleaning EXCEPT !.inputs = cleaning.inputs \ {o}]
      /\ stray' = stray \ {o}
      /\ UNCHANGED <<mapTxLockReq, mapTxLockReqRejected, mapTxLockVote, mapTxLocks,
                     mempool, chain, handling, sending, refused, messages>>
  BY DEF CleanInput, requestVars, poolVars
<1>2. /\ DOMAIN mapLockedInputs' = DOMAIN mapLockedInputs \ {o}
      /\ \A p \in DOMAIN mapLockedInputs' : mapLockedInputs'[p] = mapLockedInputs[p]
  BY <1>1 DEF Erase
<1>3. /\ cleaning \in CleaningType /\ InputsOK(mapLockedInputs)
      /\ stray \subseteq DOMAIN mapLockedInputs
  BY TypeParts DEF Inv
<1>4. /\ cleaning'.step = cleaning.step /\ cleaning'.tx = cleaning.tx
      /\ cleaning'.inputs = cleaning.inputs \ {o}
      /\ cleaning' \in CleaningType
  BY <1>1, <1>3 DEF CleaningType
<1>5. TypeOK'
  <2>1. InputsOK(mapLockedInputs)' /\ stray' \subseteq DOMAIN mapLockedInputs'
    BY <1>1, <1>2, <1>3 DEF InputsOK
  <2> QED
    BY <1>1, <1>4, <2>1, TypeParts, TypePartsPrimed DEF Inv
<1>6. HandlingOK'
  <2>1. handling.step = "sign" => <<handling.mn, handling.tx>> \in mapTxLockVote'
    BY <1>1 DEF Inv, HandlingOK, NewVote
  <2> QED
    BY <1>1, <1>4, <2>1, HandlingDuringCleanUp DEF BeingRemoved
<1>7. VotesOnce'
  BY <1>1, <1>4 DEF Inv, VotesOnce, BeingRemoved
<1>8. OwnersOK' /\ OwnersRequested' /\ LockedByQuorumOrRefused' /\ Releasing'
  BY <1>1, <1>2, <1>4 DEF Inv, OwnersOK, OwnersRequested, LockedByQuorumOrRefused, Releasing
<1>9. CleaningLock'
  BY <1>1, <1>4 DEF Inv, CleaningLock
<1> QED
  BY <1>5, <1>6, <1>7, <1>8, <1>9 DEF Inv

\* The request goes once nothing is locked for it.
LEMMA CleanRequestStep ==
    ASSUME Inv, CleanRequest
    PROVE  Inv'
<1> DEFINE t == cleaning.tx
<1>1. /\ cleaning.step = "inputs" /\ cleaning.inputs = {}
      /\ mapTxLockReq' = Erase(mapTxLockReq, {t})
      /\ cleaning' = [cleaning EXCEPT !.step = "rejected"]
      /\ UNCHANGED <<mapTxLockReqRejected, mapTxLockVote, mapTxLocks, mapLockedInputs,
                     mempool, chain, handling, sending, refused, stray, messages>>
  BY DEF CleanRequest, lockVars, poolVars, historyVars
<1>2. /\ cleaning'.step = "rejected" /\ cleaning'.tx = cleaning.tx
      /\ cleaning'.inputs = {} /\ cleaning' \in CleaningType
  BY <1>1, TypeParts DEF Inv, CleaningType
<1>3. TypeOK'
  <2>1. RequestsOK(mapTxLockReq)'
    BY <1>1, TypeParts DEF Inv, RequestsOK, Erase
  <2> QED
    BY <1>1, <1>2, <2>1, TypeParts, TypePartsPrimed DEF Inv
<1>4. HandlingOK'
  <2>1. handling.step = "sign" => <<handling.mn, handling.tx>> \in mapTxLockVote'
    BY <1>1 DEF Inv, HandlingOK, NewVote
  <2> QED
    BY <1>1, <1>2, <2>1, HandlingDuringCleanUp DEF BeingRemoved
<1>5. VotesOnce'
  BY <1>1, <1>2 DEF Inv, VotesOnce, BeingRemoved
<1>6. OwnersRequested'
  <2> SUFFICES ASSUME NEW o \in DOMAIN mapLockedInputs \ stray, mapLockedInputs[o] \notin refused
               PROVE  /\ mapLockedInputs[o] \in DOMAIN mapTxLockReq'
                      /\ mapTxLockReq'[mapLockedInputs[o]] = mapLockedInputs[o]
    BY <1>1 DEF OwnersRequested
  <2>1. mapLockedInputs[o] # t
    BY <1>1 DEF Inv, Releasing
  <2> QED
    BY <1>1, <2>1 DEF Inv, OwnersRequested, Erase
<1>7. OwnersOK' /\ LockedByQuorumOrRefused' /\ CleaningLock' /\ Releasing'
  BY <1>1, <1>2 DEF Inv, OwnersOK, LockedByQuorumOrRefused, CleaningLock, Releasing
<1> QED
  BY <1>3, <1>4, <1>5, <1>6, <1>7 DEF Inv

LEMMA CleanRejectedStep ==
    ASSUME Inv, CleanRejected
    PROVE  Inv'
<1>1. /\ cleaning.step = "rejected"
      /\ mapTxLockReqRejected' \subseteq mapTxLockReqRejected
      /\ cleaning' = [cleaning EXCEPT !.step = "votes"]
      /\ UNCHANGED <<mapTxLockReq, mapTxLockVote, mapTxLocks, mapLockedInputs,
                     mempool, chain, handling, sending, refused, stray, messages>>
  BY DEF CleanRejected, lockVars, poolVars, historyVars
<1>2. /\ cleaning'.step = "votes" /\ cleaning'.tx = cleaning.tx
      /\ cleaning'.inputs = cleaning.inputs /\ cleaning' \in CleaningType
  BY <1>1, TypeParts DEF Inv, CleaningType
<1>3. TypeOK'
  BY <1>1, <1>2, TypeParts, TypePartsPrimed DEF Inv
<1>4. HandlingOK'
  <2>1. handling.step = "sign" => <<handling.mn, handling.tx>> \in mapTxLockVote'
    BY <1>1 DEF Inv, HandlingOK, NewVote
  <2> QED
    BY <1>1, <1>2, <2>1, HandlingDuringCleanUp DEF BeingRemoved
<1>5. VotesOnce'
  BY <1>1, <1>2 DEF Inv, VotesOnce, BeingRemoved
<1>6. OwnersOK' /\ OwnersRequested' /\ LockedByQuorumOrRefused' /\ CleaningLock' /\ Releasing'
  BY <1>1, <1>2 DEF Inv, OwnersOK, OwnersRequested, LockedByQuorumOrRefused, CleaningLock, Releasing
<1> QED
  BY <1>3, <1>4, <1>5, <1>6 DEF Inv

\* The votes of the lock are forgotten; one that is being handled is not in it yet.
LEMMA CleanVotesStep ==
    ASSUME Inv, CleanVotes
    PROVE  Inv'
<1> DEFINE t == cleaning.tx
           seen == {<<v.mn, t>> : v \in Ran(mapTxLocks[t].votes)}
<1>1. /\ cleaning.step = "votes"
      /\ mapTxLockVote' = mapTxLockVote \ seen
      /\ cleaning' = [cleaning EXCEPT !.step = "lock"]
      /\ UNCHANGED <<mapTxLockReq, mapTxLockReqRejected, mapTxLocks, mapLockedInputs,
                     mempool, chain, handling, sending, refused, stray, messages>>
  BY DEF CleanVotes, requestVars, poolVars, historyVars
<1>2. /\ cleaning'.step = "lock" /\ cleaning'.tx = t
      /\ cleaning'.inputs = cleaning.inputs /\ cleaning' \in CleaningType
  BY <1>1, TypeParts DEF Inv, CleaningType
<1>3. TypeOK'
  BY <1>1, <1>2, TypeParts, TypePartsPrimed DEF Inv
<1>4. HandlingOK'
  <2>1. ASSUME handling.step = "sign"
        PROVE  <<handling.mn, handling.tx>> \in mapTxLockVote'
    <3>1. /\ <<handling.mn, handling.tx>> \in mapTxLockVote
          /\ handling.tx \in DOMAIN mapTxLocks /\ ~ BeingRemoved(handling.tx) =>
                \A i \in DOMAIN mapTxLocks[handling.tx].votes :
                    mapTxLocks[handling.tx].votes[i].mn # handling.mn
      BY <2>1 DEF Inv, HandlingOK, NewVote
    <3>2. t \in DOMAIN mapTxLocks /\ ~ BeingRemoved(t)
      BY <1>1 DEF Inv, CleaningLock, BeingRemoved
    <3>3. handling.tx = t => \A v \in Ran(mapTxLocks[t].votes) : v.mn # handling.mn
      BY <3>1, <3>2 DEF Ran
    <3>4. <<handling.mn, handling.tx>> \notin seen
      BY <3>3
    <3> QED
      BY <1>1, <3>1, <3>4
  <2> QED
    BY <1>1, <1>2, <2>1, HandlingDuringCleanUp DEF BeingRemoved
<1>5. VotesOnce'
  <2> SUFFICES ASSUME NEW u \in DOMAIN mapTxLocks, u # t
               PROVE  VotedOnce(mapTxLocks[u], u, mapTxLockVote')
    BY <1>1, <1>2 DEF VotesOnce, BeingRemoved
  <2>1. VotedOnce(mapTxLocks[u], u, mapTxLockVote)
    BY DEF Inv, VotesOnce, BeingRemoved
  <2>2. \A mn : <<mn, u>> \notin seen
    OBVIOUS
  <2> HIDE DEF seen
  <2> QED
    BY <1>1, <2>1, <2>2 DEF VotedOnce
<1>6. OwnersOK' /\ OwnersRequested' /\ LockedByQuorumOrRefused' /\ CleaningLock' /\ Releasing'
  BY <1>1, <1>2 DEF Inv, OwnersOK, OwnersRequested, LockedByQuorumOrRefused, CleaningLock, Releasing
<1> QED
  BY <1>3, <1>4, <1>5, <1>6 DEF Inv

\* The lock goes once nothing is locked for it.
LEMMA CleanLockStep ==
    ASSUME Inv, CleanLock
    PROVE  Inv'
<1> DEFINE t == cleaning.tx
<1>1. /\ cleaning.step = "lock"
      /\ mapTxLocks' = Erase(mapTxLocks, {t})
      /\ cleaning' = NotCleaning
      /\ UNCHANGED <<mapTxLockReq, mapTxLockReqRejected, mapTxLockVote, mapLockedInputs,
                     mempool, chain, handling, sending, refused, stray, messages>>
  BY DEF CleanLock, requestVars, poolVars, historyVars
<1>2. /\ cleaning'.step = "idle" /\ cleaning'.tx = None /\ cleaning'.inputs = {}
      /\ cleaning' \in CleaningType
  BY <1>1, StartTypes DEF NotCleaning
<1>3. /\ DOMAIN mapTxLocks' = DOMAIN mapTxLocks \ {t}
      /\ \A u \in DOMAIN mapTxLocks' : mapTxLocks'[u] = mapTxLocks[u]
  BY <1>1 DEF Erase
<1>4. TypeOK'
  <2>1. LocksOK(mapTxLocks)'
    BY <1>3, TypeParts DEF Inv, LocksOK
  <2> QED
    BY <1>1, <1>2, <2>1, TypeParts, TypePartsPrimed DEF Inv
<1>5. HandlingOK'
  <2>1. handling.step = "sign" => <<handling.mn, handling.tx>> \in mapTxLockVote'
    BY <1>1 DEF Inv, HandlingOK, NewVote
  <2>2. \A u \in DOMAIN mapTxLocks' : ~ BeingRemoved(u)
    BY <1>3 DEF BeingRemoved
  <2> QED
    BY <1>1, <1>2, <2>1, <2>2, HandlingDuringCleanUp
<1>6. VotesOnce'
  BY <1>1, <1>3 DEF Inv, VotesOnce, BeingRemoved
<1>7. LockedByQuorumOrRefused'
  <2> SUFFICES ASSUME NEW o \in DOMAIN mapLockedInputs \ stray, mapLockedInputs[o] \notin refused
               PROVE  /\ mapLockedInputs[o] \in DOMAIN mapTxLocks'
                      /\ Quorum(mapTxLocks'[mapLockedInputs[o]])
    BY <1>1 DEF LockedByQuorumOrRefused, Quorum
  <2>1. mapLockedInputs[o] # t
    BY <1>1 DEF Inv, Releasing, CleaningLock
  <2>2. mapLockedInputs[o] \in DOMAIN mapTxLocks /\ Quorum(mapTxLocks[mapLockedInputs[o]])
    BY DEF Inv, LockedByQuorumOrRefused, Quorum
  <2> QED
    BY <1>3, <2>1, <2>2
<1>8. OwnersOK' /\ OwnersRequested' /\ CleaningLock'
  BY <1>1, <1>2 DEF Inv, OwnersOK, OwnersRequested, CleaningLock
<1>9. Releasing'
  BY <1>1, <1>2, SelfAssumption DEF Inv, OwnersOK, Releasing
<1> QED
  BY <1>4, <1>5, <1>6, <1>7, <1>8, <1>9 DEF Inv

------------------------------------------------------------------------------
(* The theorems.                                                            *)

LEMMA InitInv == Init => Inv
<1> SUFFICES ASSUME Init PROVE Inv
  OBVIOUS
<1>1. DOMAIN mapTxLockReq = {} /\ DOMAIN mapTxLocks = {} /\ DOMAIN mapLockedInputs = {}
  BY DEF Init
<1>2. /\ mapTxLockReqRejected = {} /\ mapTxLockVote = {} /\ mempool = {} /\ chain = <<>>
      /\ handling = Idle /\ cleaning = NotCleaning /\ sending = {} /\ refused = {} /\ stray = {}
      /\ messages = 0
  BY DEF Init
<1>3. TypeOK
  <2>1. chain \in Seq(Tx) /\ messages \in 0 .. MaxMessages
    BY <1>2, FilterAssumption
  <2>2. RequestsOK(mapTxLockReq) /\ LocksOK(mapTxLocks) /\ InputsOK(mapLockedInputs)
    BY <1>1 DEF RequestsOK, LocksOK, InputsOK
  <2> QED
    BY <1>1, <1>2, <2>1, <2>2, StartTypes, TypeParts
<1>4. HandlingOK
  BY <1>2 DEF HandlingOK, HandlingTx, HandlingRefused, NewVote, NotRaced, QuorumFound, Idle, VoteSteps
<1>5. VotesOnce /\ OwnersOK /\ OwnersRequested /\ LockedByQuorumOrRefused /\ Releasing
  BY <1>1 DEF VotesOnce, OwnersOK, OwnersRequested, LockedByQuorumOrRefused, Releasing
<1>6. CleaningLock
  BY <1>2 DEF CleaningLock, NotCleaning
<1> QED
  BY <1>3, <1>4, <1>5, <1>6 DEF Inv

LEMMA NextInv == Inv /\ [Next]_vars => Inv'
<1> SUFFICES ASSUME Inv, [Next]_vars PROVE Inv'
  OBVIOUS
<1>1. CASE \E t \in PlainTx : AcceptToMemoryPool(t) \/ ConnectBlock(t)
  BY <1>1, PoolStep
<1>2. CASE HandleRequest
  <2>1. CASE \E t \in Tx, h \in LockHeight \cup {0} : LockRequest(t, h)
    BY <2>1, LockRequestStep
  <2>2. CASE LockRequestAccepted \/ LockRequestRejected
    BY <2>2, PoolDecides
  <2>3. CASE DoConsensusVote
    BY <2>3, DoConsensusVoteStep
  <2>4. CASE InsertRejected
    BY <2>4, InsertRejectedStep
  <2>5. CASE \E o \in Outpoint : LockInput("lockRefused", o)
    BY <2>5, LockInputStep
  <2>6. CASE FindCompleteLock
    BY <2>6, FindCompleteLockStep
  <2>7. CASE ResolveRejected
    BY <2>7, ResolveRejectedStep
  <2>8. CASE ReprocessForRequest
    BY <2>8, ReprocessStep
  <2>9. CASE InsertRequest
    BY <2>9, InsertRequestStep
  <2> QED
    BY <1>2, <2>1, <2>2, <2>3, <2>4, <2>5, <2>6, <2>7, <2>8, <2>9 DEF HandleRequest
<1>3. CASE HandleVote
  <2>1. CASE \E t \in Tx, mn \in PeerVotes, h \in Height : ConsensusVote(t, mn, h)
    BY <2>1, ConsensusVoteStep
  <2>2. CASE AddSignature
    BY <2>2, AddSignatureStep
  <2>3. CASE ResolveConflict
    BY <2>3, ResolveConflictStep
  <2>4. CASE \E o \in Outpoint : LockInput("lock", o)
    BY <2>4, LockInputStep
  <2>5. CASE VoteDone
    BY <2>5, VoteDoneStep
  <2> QED
    BY <1>3, <2>1, <2>2, <2>3, <2>4, <2>5 DEF HandleVote
<1>4. CASE \/ \E t \in WalletTx : SendRequest(t)
           \/ \E t \in WalletTx, h \in LockHeight \cup {0} : SendCreateLock(t, h)
  BY <1>4, SendStep
<1>5. CASE SecondPasses \/ \E t \in Tx : HourPasses(t)
  BY <1>5, TimeStep
<1>6. CASE CleanUp
  <2>1. CASE \E t \in Tx : CleanTransactionLocksList(t)
    BY <2>1, CleanStartStep
  <2>2. CASE \E o \in Outpoint : CleanInput(o)
    BY <2>2, CleanInputStep
  <2> QED
    BY <1>6, <2>1, <2>2, CleanRequestStep, CleanRejectedStep, CleanVotesStep, CleanLockStep DEF CleanUp
<1>7. CASE UNCHANGED vars
  <2>1. /\ UNCHANGED <<mapTxLockReq, mapTxLockReqRejected, mapTxLockVote, mapTxLocks, mapLockedInputs>>
        /\ UNCHANGED <<mempool, chain, handling, cleaning, sending, refused, stray, messages>>
    BY <1>7 DEF vars, requestVars, lockVars, poolVars, threadVars, historyVars
  <2>2. TypeOK'
    BY <2>1 DEF Inv, TypeOK
  <2>3. HandlingOK'
    BY <2>1, UnchangedStays, HandlingKept
  <2>4. /\ VotesOnce' /\ OwnersOK' /\ OwnersRequested' /\ LockedByQuorumOrRefused'
        /\ CleaningLock' /\ Releasing'
    BY <2>1, TypeLocks, UnchangedStays, QuietStep DEF Inv
  <2> QED
    BY <2>2, <2>3, <2>4 DEF Inv
<1> QED
  BY <1>1, <1>2, <1>3, <1>4, <1>5, <1>6, <1>7 DEF Next

\* The inductive invariant: votes of a lock are different masternodes' and all in
\* mapTxLockVote, owners of inputs have their request, and what is locked for the
\* transaction being cleaned away is still to be released.
THEOREM SpecInv == Spec => []Inv
BY InitInv, NextInv, PTL DEF Spec

\* swifttx.cpp:506-517: the signatures that complete a lock come from that many
\* different ranked masternodes, whatever is seen again, cleaned away between two
\* steps of a handler, or comes late; but for a lock whose votes the clean-up has
\* forgotten and which it is about to remove (451-454).
THEOREM SpecQuorumBehindLock == Spec => []QuorumBehindLock
<1>1. Inv => QuorumBehindLock
  <2> SUFFICES ASSUME Inv, NEW t \in DOMAIN mapTxLocks, Complete(mapTxLocks[t]), ~ BeingRemoved(t)
               PROVE  Cardinality(Voters(mapTxLocks[t], mapTxLocks[t].height)) >= Required
    BY DEF Inv, QuorumBehindLock
  <2>1. mapTxLocks[t] \in Lock
    BY TypeLocks DEF Inv, LocksOK
  <2>2. VotedOnce(mapTxLocks[t], t, mapTxLockVote)
    BY DEF Inv, VotesOnce
  <2> QED
    BY <2>1, <2>2, CompleteHasQuorum DEF VotedOnce
<1> QED
  BY <1>1, SpecInv, PTL

\* swifttx.cpp:359-373, 431-459: with the clean-up at work between any two steps
\* of the handlers, an input is locked for a refused request, or for one whose
\* lock has the votes of a quorum; but for what the handler of a vote has locked
\* while the clean-up of the very transaction was running.
THEOREM SpecLockedByQuorumOrRefused == Spec => []LockedByQuorumOrRefused
<1>1. Inv => LockedByQuorumOrRefused
  BY DEF Inv
<1> QED
  BY <1>1, SpecInv, PTL

=============================================================================
