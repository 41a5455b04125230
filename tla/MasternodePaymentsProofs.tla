---------------------- MODULE MasternodePaymentsProofs ----------------------
(***************************************************************************)
(* VotesCounted, OneQuorum and OwnBlockAccepted, for any nodes,            *)
(* masternodes, payees, levels and ranks.  The loops over the votes of a   *)
(* pack and over the levels are functions defined from one index to the    *)
(* next; that every one of their values is a consistent table is shown by  *)
(* induction over the index.                                               *)
(***************************************************************************)
EXTENDS MasternodePayments, WellFoundedInduction, FiniteSetTheorems, TLAPS

------------------------------------------------------------------------------
(* Induction over the natural numbers, for sets of numbers.                 *)

\* A set of numbers that is not empty has a least element.
LEMMA LeastNatural ==
    ASSUME NEW S \in SUBSET Nat, S # {}
    PROVE  \E m \in S : \A k \in S : m <= k
<1> DEFINE R == {ss \in Nat \X Nat : ss[1] < ss[2]}
<1>1. IsWellFoundedOn(R, Nat)
  BY NatLessThanWellFounded DEF OpToRel
<1>2. \A j, k \in Nat : j < k => <<j, k>> \in R
  OBVIOUS
<1> HIDE DEF R
<1>3. PICK m \in S : \A k \in S : ~ (<<k, m>> \in R)
  BY <1>1, WFMin
<1>4. \A k \in S : ~ (k < m)
  BY <1>2, <1>3
<1> QED
  BY <1>3, <1>4

\* Induction from each number to the next, up to N.
LEMMA UpToInduction ==
    ASSUME NEW N \in Nat, NEW S, 0 \in S, \A n \in 1 .. N : n - 1 \in S => n \in S
    PROVE  0 .. N \subseteq S
<1> DEFINE T == {n \in 0 .. N : n \notin S}
<1> SUFFICES ASSUME T # {} PROVE FALSE
  OBVIOUS
<1>1. PICK m \in T : \A k \in T : m <= k
  <2>1. T \in SUBSET Nat
    OBVIOUS
  <2> HIDE DEF T
  <2> QED
    BY <2>1, LeastNatural
<1>2. m \in 1 .. N /\ m \notin S
  BY <1>1
<1>3. m - 1 \in S
  BY <1>1, <1>2
<1> QED
  BY <1>2, <1>3

\* f is defined from each index to the next by step, from x0.
Iterates(f, N, X, x0, step) ==
    f \in [0 .. N -> X] /\ f[0] = x0 /\ \A i \in 1 .. N : f[i] = step[<<i, f[i - 1]>>]

\* Such a function exists.
LEMMA FiniteRecursion ==
    ASSUME NEW N \in Nat, NEW X, NEW x0 \in X, NEW step \in [(1 .. N) \X X -> X]
    PROVE  \E f : Iterates(f, N, X, x0, step)
<1> DEFINE D(f, n) == /\ f \in [0 .. n -> X] /\ f[0] = x0
                      /\ \A i \in 1 .. n : f[i] = step[<<i, f[i - 1]>>]
           S == {n \in 0 .. N : \E f : D(f, n)}
<1>1. 0 \in S
  <2>1. D([i \in 0 .. 0 |-> x0], 0)
    OBVIOUS
  <2> HIDE DEF D
  <2> QED
    BY <2>1
<1>2. ASSUME NEW n \in 1 .. N, n - 1 \in S PROVE n \in S
  <2>1. PICK f : D(f, n - 1)
    BY <1>2
  <2> DEFINE g == [i \in 0 .. n |-> IF i = n THEN step[<<n, f[n - 1]>>] ELSE f[i]]
  <2>2. step[<<n, f[n - 1]>>] \in X
    BY <2>1
  <2>3. g \in [0 .. n -> X] /\ g[0] = x0
    BY <2>1, <2>2
  <2>4. ASSUME NEW i \in 1 .. n PROVE g[i] = step[<<i, g[i - 1]>>]
    <3>1. CASE i = n
      <4>1. n - 1 \in 0 .. n /\ n - 1 # n /\ n \in 0 .. n
        OBVIOUS
      <4>2. g[n] = step[<<n, f[n - 1]>>] /\ g[n - 1] = f[n - 1]
        BY <4>1
      <4> QED
        BY <3>1, <4>2
    <3>2. CASE i # n
      BY <3>2, <2>1
    <3> QED
      BY <3>1, <3>2
  <2>5. D(g, n)
    BY <2>3, <2>4
  <2> HIDE DEF D, g
  <2> QED
    BY <2>5
<1>3. N \in S
  <2>1. 0 .. N \subseteq S
    <3> HIDE DEF S
    <3> QED
      BY <1>1, <1>2, UpToInduction
  <2> QED
    BY <2>1
<1> QED
  BY <1>3 DEF Iterates

------------------------------------------------------------------------------
(* One node's CMasternodePayments.                                          *)

Entry == [payee : Payee, mnlevel : Level, nVotes : Nat \ {0}]

Table ==
    [votes : UNION {[D -> Level] : D \in SUBSET Vote}, blocks : [Height -> Seq(Entry)],
     lastVote : [Masternode \X Level -> {0} \cup Height]]

For(votes, h, p) == {v \in DOMAIN votes : v.height = h /\ v.payee = p}

\* The entries of a block are those of the votes for its height: each payee once.
Tally(block, votes, h) ==
    /\ \A i, j \in DOMAIN block : block[i].payee = block[j].payee => i = j
    /\ \A i \in DOMAIN block : block[i].nVotes = Cardinality(For(votes, h, block[i].payee))
    /\ \A p \in Payee : For(votes, h, p) # {} => \E i \in DOMAIN block : block[i].payee = p

\* All votes are of masternodes ranked for their height.
Consistent(P) ==
    /\ \A v \in DOMAIN P.votes : v.mn \in Ranked[v.height]
    /\ \A h \in Height : Tally(P.blocks[h], P.votes, h)

\* The tables whose votes are in S.
Tables(S) == {P \in Table : Consistent(P) /\ DOMAIN P.votes \subseteq S}

\* A map of votes to levels is one of the maps of Table.
LEMMA VotesMap ==
    ASSUME NEW D \in SUBSET Vote, NEW f \in [D -> Level]
    PROVE  f \in UNION {[E -> Level] : E \in SUBSET Vote}
OBVIOUS

LEMMA TableFields ==
    ASSUME NEW P \in Table
    PROVE  /\ DOMAIN P.votes \in SUBSET Vote /\ P.votes \in [DOMAIN P.votes -> Level]
           /\ P.blocks \in [Height -> Seq(Entry)]
           /\ P.lastVote \in [Masternode \X Level -> {0} \cup Height]
           /\ P = [votes |-> P.votes, blocks |-> P.blocks, lastVote |-> P.lastVote]
<1>1. /\ P.votes \in UNION {[D -> Level] : D \in SUBSET Vote}
      /\ P.blocks \in [Height -> Seq(Entry)]
      /\ P.lastVote \in [Masternode \X Level -> {0} \cup Height]
      /\ P = [votes |-> P.votes, blocks |-> P.blocks, lastVote |-> P.lastVote]
  BY DEF Table
<1>2. PICK D \in SUBSET Vote : P.votes \in [D -> Level]
  BY <1>1
<1> QED
  BY <1>1, <1>2

\* As many votes for a payee as masternodes at most.
LEMMA VotesBounded ==
    ASSUME NEW votes, DOMAIN votes \subseteq Vote, NEW h \in Height, NEW p \in Payee
    PROVE  /\ IsFiniteSet(For(votes, h, p))
           /\ Cardinality(For(votes, h, p)) \in 0 .. Cardinality(Masternode)
<1> DEFINE S == For(votes, h, p)
           f == [v \in S |-> v.mn]
<1>1. \A v \in S : v \in Vote /\ v.mn \in Masternode /\ v.height = h /\ v.payee = p
  BY DEF For, Vote
<1>2. \A v \in S : v = [mn |-> v.mn, height |-> h, payee |-> p]
  BY <1>1 DEF Vote
<1>3. f \in [S -> Masternode] /\ \A v, w \in S : f[v] = f[w] => v = w
  BY <1>1, <1>2
<1> HIDE DEF f, S
<1>4. f \in Injection(S, Masternode)
  BY <1>3 DEF Injection, IsInjective
<1>5. IsFiniteSet(S) /\ Cardinality(S) <= Cardinality(Masternode)
  BY <1>4, FiniteAssumption, FS_Injection
<1>6. Cardinality(S) \in Nat /\ Cardinality(Masternode) \in Nat
  BY <1>5, FiniteAssumption, FS_CardinalityType
<1> QED
  BY <1>5, <1>6 DEF S

\* One vote more for p: the count of p goes up by one, the others stay.
LEMMA VoteAdded ==
    ASSUME NEW votes, DOMAIN votes \subseteq Vote, NEW v \in Vote, v \notin DOMAIN votes,
           NEW new, DOMAIN new = DOMAIN votes \cup {v}
    PROVE  /\ \A h \in Height, p \in Payee :
                h # v.height \/ p # v.payee => For(new, h, p) = For(votes, h, p)
           /\ For(new, v.height, v.payee) # {}
           /\ Cardinality(For(new, v.height, v.payee)) = Cardinality(For(votes, v.height, v.payee)) + 1
<1>1. \A h \in Height, p \in Payee :
         h # v.height \/ p # v.payee => For(new, h, p) = For(votes, h, p)
  BY DEF For
<1>2. v.height \in Height /\ v.payee \in Payee
  BY DEF Vote
<1>3. /\ For(new, v.height, v.payee) = For(votes, v.height, v.payee) \cup {v}
      /\ v \notin For(votes, v.height, v.payee)
  BY DEF For
<1>4. IsFiniteSet(For(votes, v.height, v.payee))
  BY <1>2, VotesBounded
<1>5. Cardinality(For(votes, v.height, v.payee) \cup {v}) = Cardinality(For(votes, v.height, v.payee)) + 1
  BY <1>3, <1>4, FS_AddElement
<1> QED
  BY <1>1, <1>3, <1>5

\* AddPayee keeps the tally.
LEMMA AddPayeeTally ==
    ASSUME NEW votes, DOMAIN votes \subseteq Vote, NEW v \in Vote, v \notin DOMAIN votes,
           NEW new, DOMAIN new = DOMAIN votes \cup {v}, NEW level \in Level,
           NEW block \in Seq(Entry), Tally(block, votes, v.height)
    PROVE  /\ AddPayee(block, level, v.payee) \in Seq(Entry)
           /\ Tally(AddPayee(block, level, v.payee), new, v.height)
<1> DEFINE p == v.payee
           h == v.height
           old == {i \in DOMAIN block : block[i].payee = p}
           B == AddPayee(block, level, p)
           entry == [payee |-> p, mnlevel |-> level, nVotes |-> 1]
<1>1. p \in Payee /\ h \in Height
  BY DEF Vote
<1>2. /\ \A q \in Payee : q # p => For(new, h, q) = For(votes, h, q)
      /\ For(new, h, p) # {}
      /\ Cardinality(For(new, h, p)) = Cardinality(For(votes, h, p)) + 1
  <2>1. /\ \A k \in Height, q \in Payee :
              k # v.height \/ q # v.payee => For(new, k, q) = For(votes, k, q)
        /\ For(new, v.height, v.payee) # {}
        /\ Cardinality(For(new, v.height, v.payee)) = Cardinality(For(votes, v.height, v.payee)) + 1
    BY VoteAdded
  <2> QED
    BY <1>1, <2>1
<1>3. /\ DOMAIN block = 1 .. Len(block) /\ Len(block) \in Nat
      /\ \A i \in DOMAIN block : /\ block[i] \in Entry /\ block[i].payee \in Payee
                                 /\ block[i].nVotes \in Nat
  <2>1. /\ DOMAIN block = 1 .. Len(block) /\ Len(block) \in Nat
        /\ \A i \in DOMAIN block : block[i] \in Entry
    OBVIOUS
  <2>2. \A e \in Entry : e.payee \in Payee /\ e.nVotes \in Nat
    BY DEF Entry
  <2> QED
    BY <2>1, <2>2
<1>4. CASE old = {}
  <2>1. B = Append(block, entry)
    BY <1>4 DEF AddPayee
  <2>2. entry \in Entry /\ entry.payee = p /\ entry.nVotes = 1
    BY <1>1 DEF Entry
  <2>3. B \in Seq(Entry)
    <3> HIDE DEF entry, B
    <3> QED
      BY <2>1, <2>2
  <2>4. /\ DOMAIN B = 1 .. Len(block) + 1
        /\ \A i \in DOMAIN block : B[i] = block[i]
        /\ B[Len(block) + 1] = entry
    <3> HIDE DEF entry, B
    <3> QED
      BY <2>1, <1>3
  <2>5. Cardinality(For(new, h, p)) = 1
    <3>1. For(votes, h, p) = {}
      BY <1>1, <1>4 DEF Tally
    <3> QED
      BY <3>1, <1>2, FS_EmptySet
  <2>6. \A i \in DOMAIN B : i \in DOMAIN block \/ i = Len(block) + 1
    BY <2>4, <1>3
  <2>7. ASSUME NEW i \in DOMAIN B, NEW j \in DOMAIN B, B[i].payee = B[j].payee PROVE i = j
    <3>1. CASE i \in DOMAIN block /\ j \in DOMAIN block
      BY <2>4, <2>7, <3>1 DEF Tally
    <3>2. \A k \in DOMAIN block : B[k].payee # p
      BY <1>4, <2>4
    <3> QED
      BY <2>2, <2>4, <2>6, <2>7, <3>1, <3>2
  <2>8. ASSUME NEW i \in DOMAIN B PROVE B[i].nVotes = Cardinality(For(new, h, B[i].payee))
    <3>1. CASE i \in DOMAIN block
      <4>1. B[i] = block[i] /\ block[i].payee # p
        BY <1>4, <2>4, <3>1
      <4> QED
        BY <1>2, <1>3, <3>1, <4>1 DEF Tally
    <3>2. CASE i = Len(block) + 1
      BY <2>2, <2>4, <2>5, <3>2
    <3> QED
      BY <2>6, <3>1, <3>2
  <2>9. ASSUME NEW q \in Payee, For(new, h, q) # {} PROVE \E i \in DOMAIN B : B[i].payee = q
    <3>1. CASE q = p
      <4>1. Len(block) + 1 \in DOMAIN B
        BY <2>4, <1>3
      <4> QED
        BY <2>2, <2>4, <3>1, <4>1
    <3>2. CASE q # p
      <4>1. PICK i \in DOMAIN block : block[i].payee = q
        BY <1>2, <2>9, <3>2 DEF Tally
      <4>2. i \in DOMAIN B /\ B[i] = block[i]
        BY <2>4, <1>3
      <4> QED
        BY <4>1, <4>2
    <3> QED
      BY <3>1, <3>2
  <2> HIDE DEF B
  <2>10. Tally(B, new, h)
    BY <2>7, <2>8, <2>9 DEF Tally
  <2> QED
    BY <2>3, <2>10 DEF B
<1>5. CASE old # {}
  <2> DEFINE more(e) == [e EXCEPT !.nVotes = @ + 1]
  <2>1. B = [i \in DOMAIN block |-> IF i \in old THEN more(block[i]) ELSE block[i]]
    <3>1. B = IF old = {} THEN Append(block, entry)
              ELSE [i \in DOMAIN block |-> IF i \in old THEN more(block[i]) ELSE block[i]]
      BY DEF AddPayee
    <3> HIDE DEF B, old, entry, more
    <3> QED
      BY <1>5, <3>1
  <2>2. \A e \in Entry : more(e) \in Entry /\ more(e).payee = e.payee /\ more(e).nVotes = e.nVotes + 1
    <3>1. \A e \in Entry, k \in Nat \ {0} :
            /\ [e EXCEPT !.nVotes = k] \in Entry
            /\ [e EXCEPT !.nVotes = k].payee = e.payee
            /\ [e EXCEPT !.nVotes = k].nVotes = k
      BY DEF Entry
    <3>2. \A e \in Entry : e.nVotes + 1 \in Nat \ {0}
      BY DEF Entry
    <3> QED
      BY <3>1, <3>2, Zenon
  <2> HIDE DEF more
  <2>3. /\ DOMAIN B = DOMAIN block
        /\ \A i \in DOMAIN block : /\ B[i] \in Entry
                                   /\ B[i].payee = block[i].payee
                                   /\ B[i].nVotes = IF i \in old THEN block[i].nVotes + 1 ELSE block[i].nVotes
    BY <1>3, <2>1, <2>2
  <2>4. B \in Seq(Entry)
    <3>1. B \in [1 .. Len(block) -> Entry]
      BY <1>3, <2>1, <2>2
    <3> HIDE DEF B
    <3> QED
      BY <3>1, <1>3
  <2>5. Tally(B, new, h)
    <3>1. \A i, j \in DOMAIN B : B[i].payee = B[j].payee => i = j
      BY <2>3 DEF Tally
    <3>2. ASSUME NEW i \in DOMAIN B PROVE B[i].nVotes = Cardinality(For(new, h, B[i].payee))
      <4>1. i \in DOMAIN block /\ block[i].nVotes = Cardinality(For(votes, h, block[i].payee))
        BY <2>3 DEF Tally
      <4>2. CASE i \in old
        BY <4>1, <4>2, <2>3, <1>2
      <4>3. CASE i \notin old
        <5>1. block[i].payee # p /\ block[i].payee \in Payee
          BY <4>1, <4>3, <1>3
        <5> QED
          BY <4>1, <4>3, <5>1, <2>3, <1>2
      <4> QED
        BY <4>2, <4>3
    <3>3. ASSUME NEW q \in Payee, For(new, h, q) # {} PROVE \E i \in DOMAIN B : B[i].payee = q
      <4>1. \E i \in DOMAIN block : block[i].payee = q
        <5>1. CASE q = p
          BY <5>1, <1>5
        <5>2. CASE q # p
          BY <5>2, <3>3, <1>2 DEF Tally
        <5> QED
          BY <5>1, <5>2
      <4> QED
        BY <4>1, <2>3
    <3> HIDE DEF B
    <3> QED
      BY <3>1, <3>2, <3>3 DEF Tally
  <2> QED
    BY <2>4, <2>5
<1> QED
  BY <1>4, <1>5

------------------------------------------------------------------------------
(* What the operations do to a table.                                       *)

LEMMA AddWinningKeeps ==
    ASSUME NEW S \in SUBSET Vote, NEW P \in Tables(S), NEW v \in S, NEW level \in Level,
           v.mn \in Ranked[v.height]
    PROVE  AddWinningMasternode(P, v, level) \in Tables(S)
<1> DEFINE Q == AddWinningMasternode(P, v, level)
           votes == [u \in DOMAIN P.votes \cup {v} |-> IF u = v THEN level ELSE P.votes[u]]
           blocks == [P.blocks EXCEPT ![v.height] = AddPayee(P.blocks[v.height], level, v.payee)]
<1>1. P \in Table /\ Consistent(P) /\ DOMAIN P.votes \subseteq S
  BY DEF Tables
<1>2. v \in Vote /\ v.height \in Height
  BY DEF Vote
<1>3. CASE v \in DOMAIN P.votes
  BY <1>3 DEF AddWinningMasternode
<1>4. CASE v \notin DOMAIN P.votes
  <2>1. /\ DOMAIN P.votes \in SUBSET Vote /\ P.votes \in [DOMAIN P.votes -> Level]
        /\ P.blocks \in [Height -> Seq(Entry)]
        /\ P.lastVote \in [Masternode \X Level -> {0} \cup Height]
        /\ P = [votes |-> P.votes, blocks |-> P.blocks, lastVote |-> P.lastVote]
    BY <1>1, TableFields
  <2>2. Q = [P EXCEPT !.votes = votes, !.blocks = blocks]
    BY <1>4 DEF AddWinningMasternode
  <2>3. Q.votes = votes /\ Q.blocks = blocks /\ Q.lastVote = P.lastVote
        /\ Q = [votes |-> votes, blocks |-> blocks, lastVote |-> P.lastVote]
    <3> HIDE DEF votes, blocks, Q
    <3> QED
      BY <2>1, <2>2
  <2>4. /\ DOMAIN votes = DOMAIN P.votes \cup {v}
        /\ DOMAIN votes \in SUBSET Vote
        /\ votes \in [DOMAIN votes -> Level]
    <3>1. DOMAIN votes = DOMAIN P.votes \cup {v}
      OBVIOUS
    <3>2. \A u \in DOMAIN votes : votes[u] \in Level
      BY <2>1
    <3> QED
      BY <2>1, <1>2, <3>1, <3>2
  <2>5. /\ AddPayee(P.blocks[v.height], level, v.payee) \in Seq(Entry)
        /\ Tally(AddPayee(P.blocks[v.height], level, v.payee), votes, v.height)
    <3>1. P.blocks[v.height] \in Seq(Entry) /\ Tally(P.blocks[v.height], P.votes, v.height)
      BY <1>1, <1>2, <2>1 DEF Consistent
    <3> HIDE DEF votes
    <3> QED
      BY <1>2, <1>4, <2>1, <2>4, <3>1, AddPayeeTally
  <2>6. /\ blocks \in [Height -> Seq(Entry)]
        /\ blocks[v.height] = AddPayee(P.blocks[v.height], level, v.payee)
        /\ \A h \in Height \ {v.height} : blocks[h] = P.blocks[h]
    BY <2>1, <2>5, <1>2
  <2> HIDE DEF votes, blocks, Q
  <2>7. votes \in UNION {[D -> Level] : D \in SUBSET Vote}
    BY <2>4, VotesMap
  <2>8. Q \in Table
    BY <2>1, <2>3, <2>6, <2>7 DEF Table
  <2>9. ASSUME NEW h \in Height PROVE Tally(Q.blocks[h], Q.votes, h)
    <3>1. CASE h = v.height
      BY <3>1, <2>3, <2>5, <2>6
    <3>2. CASE h # v.height
      <4>1. Q.blocks[h] = P.blocks[h] /\ Q.votes = votes
        BY <3>2, <2>3, <2>6
      <4>2. \A p \in Payee : For(votes, h, p) = For(P.votes, h, p)
        BY <2>4, <3>2 DEF For
      <4>3. \A i \in DOMAIN P.blocks[h] : P.blocks[h][i].payee \in Payee
        <5>1. P.blocks[h] \in Seq(Entry)
          BY <2>1
        <5>2. \A i \in DOMAIN P.blocks[h] : P.blocks[h][i] \in Entry
          BY <5>1
        <5>3. \A e \in Entry : e.payee \in Payee
          BY DEF Entry
        <5> QED
          BY <5>2, <5>3
      <4>4. Tally(P.blocks[h], P.votes, h)
        BY <1>1 DEF Consistent
      <4>5. Tally(P.blocks[h], votes, h)
        BY <4>2, <4>3, <4>4 DEF Tally
      <4> QED
        BY <4>1, <4>5
    <3> QED
      BY <3>1, <3>2
  <2>10. \A u \in DOMAIN Q.votes : u.mn \in Ranked[u.height]
    BY <1>1, <2>3, <2>4 DEF Consistent
  <2>11. DOMAIN Q.votes \subseteq S
    BY <1>1, <2>3, <2>4
  <2> QED
    BY <2>8, <2>9, <2>10, <2>11 DEF Tables, Consistent, Q
<1> QED
  BY <1>3, <1>4

LEMMA NoteVoteKeeps ==
    ASSUME NEW S \in SUBSET Vote, NEW P \in Tables(S), NEW v \in Vote
    PROVE  NoteVote(P, v) \in Tables(S)
<1> DEFINE key == <<v.mn, LevelOf[v.payee]>>
           lastVote == [P.lastVote EXCEPT ![key] = v.height]
           Q == [P EXCEPT !.lastVote = lastVote]
<1>1. P \in Table /\ Consistent(P) /\ DOMAIN P.votes \subseteq S
  BY DEF Tables
<1>2. NoteVote(P, v) = P \/ NoteVote(P, v) = Q
  BY DEF NoteVote
<1>3. /\ P.votes \in UNION {[D -> Level] : D \in SUBSET Vote}
      /\ P.blocks \in [Height -> Seq(Entry)]
      /\ P.lastVote \in [Masternode \X Level -> {0} \cup Height]
      /\ P = [votes |-> P.votes, blocks |-> P.blocks, lastVote |-> P.lastVote]
  BY <1>1 DEF Table
<1>4. lastVote \in [Masternode \X Level -> {0} \cup Height]
  <2>1. v.mn \in Masternode /\ v.payee \in Payee /\ v.height \in Height
    BY DEF Vote
  <2>2. key \in Masternode \X Level
    BY <2>1, LevelAssumption
  <2> HIDE DEF key
  <2> QED
    BY <1>3, <2>1, <2>2
<1>5. /\ Q.votes = P.votes /\ Q.blocks = P.blocks
      /\ Q = [votes |-> P.votes, blocks |-> P.blocks, lastVote |-> lastVote]
  <2> HIDE DEF lastVote
  <2> QED
    BY <1>3
<1> HIDE DEF Q, lastVote
<1>6. Q \in Table
  BY <1>3, <1>4, <1>5 DEF Table
<1>7. Q \in Tables(S)
  BY <1>1, <1>5, <1>6 DEF Tables, Consistent
<1> QED
  BY <1>2, <1>7

LEMMA ProcessVoteKeeps ==
    ASSUME NEW S \in SUBSET Vote, NEW P \in Tables(S), NEW v \in S,
           NEW inPack, NEW bRelay, NEW old
    PROVE  ProcessVote(P, v, inPack, bRelay, old) \in Tables(S)
<1>1. v \in Vote /\ v.payee \in Payee
  BY DEF Vote
<1>2. NoteVote(P, v) \in Tables(S)
  BY <1>1, NoteVoteKeeps
<1>3. IsValid(v) => AddWinningMasternode(NoteVote(P, v), v, LevelOf[v.payee]) \in Tables(S)
  <2>1. LevelOf[v.payee] \in Level
    BY <1>1, LevelAssumption
  <2> QED
    BY <1>2, <2>1, AddWinningKeeps DEF IsValid
<1> QED
  BY <1>2, <1>3 DEF ProcessVote

\* CleanPaymentList takes all votes of a height, or none.
LEMMA CleanedKeeps ==
    ASSUME NEW S \in SUBSET Vote, NEW P \in Tables(S)
    PROVE  Cleaned(P) \in Tables(S)
<1> DEFINE old == {v \in DOMAIN P.votes : tip - v.height > Keep}
           votes == [v \in DOMAIN P.votes \ old |-> P.votes[v]]
           blocks == [h \in Height |-> IF \E v \in old : v.height = h THEN <<>> ELSE P.blocks[h]]
           Q == Cleaned(P)
<1>1. P \in Table /\ Consistent(P) /\ DOMAIN P.votes \subseteq S
  BY DEF Tables
<1>2. /\ DOMAIN P.votes \in SUBSET Vote /\ P.votes \in [DOMAIN P.votes -> Level]
      /\ P.blocks \in [Height -> Seq(Entry)]
      /\ P.lastVote \in [Masternode \X Level -> {0} \cup Height]
      /\ P = [votes |-> P.votes, blocks |-> P.blocks, lastVote |-> P.lastVote]
  BY <1>1, TableFields
<1>3. Q = [P EXCEPT !.votes = votes, !.blocks = blocks]
  BY DEF Cleaned
<1>4. /\ DOMAIN votes \in SUBSET Vote
      /\ votes \in [DOMAIN votes -> Level]
      /\ DOMAIN votes = DOMAIN P.votes \ old
  BY <1>2
<1>5. /\ blocks \in [Height -> Seq(Entry)]
      /\ \A h \in Height : blocks[h] = IF \E v \in old : v.height = h THEN <<>> ELSE P.blocks[h]
  <2>1. <<>> \in Seq(Entry)
    OBVIOUS
  <2> HIDE DEF old
  <2> QED
    BY <1>2, <2>1
<1>6. ASSUME NEW h \in Height
      PROVE  Tally(blocks[h], votes, h)
  <2>1. CASE \E v \in old : v.height = h
    <3>1. \A u \in DOMAIN P.votes : u.height = h => u \in old
      BY <2>1
    <3>2. \A p : For(votes, h, p) = {}
      BY <3>1, <1>4 DEF For
    <3>3. DOMAIN blocks[h] = {}
      BY <1>5, <2>1
    <3> QED
      BY <3>2, <3>3 DEF Tally
  <2>2. CASE ~ \E v \in old : v.height = h
    <3>1. \A p : For(votes, h, p) = For(P.votes, h, p)
      BY <2>2, <1>4 DEF For
    <3>2. blocks[h] = P.blocks[h]
      BY <1>5, <2>2
    <3>3. Tally(P.blocks[h], P.votes, h)
      BY <1>1 DEF Consistent
    <3> QED
      BY <3>1, <3>2, <3>3 DEF Tally
  <2> QED
    BY <2>1, <2>2
<1> HIDE DEF votes, blocks, Q, old
<1>7. /\ Q.votes = votes /\ Q.blocks = blocks
      /\ Q = [votes |-> votes, blocks |-> blocks, lastVote |-> P.lastVote]
  BY <1>2, <1>3
<1>8. votes \in UNION {[D -> Level] : D \in SUBSET Vote}
  BY <1>4, VotesMap
<1>9. Q \in Table
  BY <1>2, <1>5, <1>7, <1>8 DEF Table
<1>10. Consistent(Q) /\ DOMAIN Q.votes \subseteq S
  BY <1>1, <1>4, <1>6, <1>7 DEF Consistent
<1> QED
  BY <1>9, <1>10 DEF Tables, Q

LEMMA NoPaymentsTable == \A S \in SUBSET Vote : NoPayments \in Tables(S)
<1> SUFFICES ASSUME NEW S \in SUBSET Vote PROVE NoPayments \in Tables(S)
  OBVIOUS
<1> DEFINE none == <<>>
           blocks == [h \in Height |-> <<>>]
           lastVote == [k \in Masternode \X Level |-> 0]
<1>1. none \in [{} -> Level] /\ DOMAIN none = {}
  OBVIOUS
<1>2. none \in UNION {[D -> Level] : D \in SUBSET Vote}
  BY <1>1
<1>3. blocks \in [Height -> Seq(Entry)] /\ \A h \in Height : DOMAIN blocks[h] = {}
  OBVIOUS
<1>4. lastVote \in [Masternode \X Level -> {0} \cup Height]
  OBVIOUS
<1>5. NoPayments = [votes |-> none, blocks |-> blocks, lastVote |-> lastVote]
  BY DEF NoPayments
<1> HIDE DEF none, blocks, lastVote
<1>6. NoPayments \in Table
  BY <1>2, <1>3, <1>4, <1>5 DEF Table
<1>7. NoPayments.votes = none /\ NoPayments.blocks = blocks
  BY <1>5
<1>8. \A h \in Height, p \in Payee : For(none, h, p) = {}
  BY <1>1 DEF For
<1> QED
  BY <1>1, <1>3, <1>6, <1>7, <1>8 DEF Tables, Consistent, Tally

------------------------------------------------------------------------------
(* The loops.                                                               *)

\* The table after all votes of a pack.
LEMMA ProcessPackKeeps ==
    ASSUME NEW S \in SUBSET Vote, NEW P \in Tables(S), NEW votes \in SUBSET S, NEW old
    PROVE  ProcessPack(P, votes, old) \in Tables(S)
<1> DEFINE N == Len(HashOrder)
           X == Tables(S)
           next(Q, i) == IF HashOrder[i] \notin votes THEN Q
                         ELSE ProcessVote(Q, HashOrder[i], TRUE, FALSE, old)
           step == [ix \in (1 .. N) \X X |-> next(ix[2], ix[1])]
           Def(f) == f = [i \in 0 .. N |-> IF i = 0 THEN P ELSE next(f[i - 1], i)]
<1>1. N \in Nat
  BY OrderAssumption
<1>2. \A Q \in X, i \in 1 .. N : next(Q, i) \in X
  BY ProcessVoteKeeps
<1>3. \E f : Def(f)
  <2>1. step \in [(1 .. N) \X X -> X]
    <3> HIDE DEF next, X, N
    <3> QED
      BY <1>2
  <2>2. \A i \in 1 .. N, Q \in X : step[<<i, Q>>] = next(Q, i)
    <3> HIDE DEF next, X, N
    <3> QED
      OBVIOUS
  <2> HIDE DEF step, next, X, N
  <2>3. P \in X
    BY DEF X
  <2>4. PICK f : Iterates(f, N, X, P, step)
    BY <1>1, <2>1, <2>3, FiniteRecursion
  <2>5. ASSUME NEW i \in 1 .. N PROVE f[i] = next(f[i - 1], i)
    <3>1. i - 1 \in 0 .. N
      BY <1>1
    <3>2. f[i - 1] \in X
      BY <2>4, <3>1 DEF Iterates
    <3> QED
      BY <2>2, <2>4, <3>2 DEF Iterates
  <2>6. Def(f)
    <3>1. \A i \in 0 .. N : i = 0 \/ i \in 1 .. N
      BY <1>1
    <3>2. \A i \in 0 .. N : f[i] = IF i = 0 THEN P ELSE next(f[i - 1], i)
      BY <2>4, <2>5, <3>1 DEF Iterates
    <3> QED
      BY <2>4, <3>2 DEF Iterates
  <2> QED
    BY <2>6
<1> DEFINE after == CHOOSE f : Def(f)
<1>4. ProcessPack(P, votes, old) = after[N]
  BY DEF ProcessPack
<1>5. Def(after)
  <2> HIDE DEF Def
  <2> QED
    BY <1>3
<1> HIDE DEF after, next, N
<1> DEFINE T == {i \in 0 .. N : after[i] \in X}
<1>6. 0 \in T
  BY <1>1, <1>5
<1>7. ASSUME NEW i \in 1 .. N, i - 1 \in T PROVE i \in T
  BY <1>1, <1>2, <1>5, <1>7
<1>8. 0 .. N \subseteq T
  <2> HIDE DEF T
  <2> QED
    BY <1>1, <1>6, <1>7, UpToInduction
<1> QED
  BY <1>1, <1>4, <1>8

\* The table after the votes of a masternode for all levels.
LEMMA AddWinnersKeeps ==
    ASSUME NEW S \in SUBSET Vote, NEW P \in Tables(S), NEW mn,
           NEW winner \in [Level -> Payee \cup {None}],
           \A l \in Level : winner[l] # None => VoteFor(mn, winner[l]) \in S,
           mn \in Ranked[tip + Ahead]
    PROVE  AddWinners(P, mn, winner) \in Tables(S)
<1> DEFINE N == MaxLevel
           X == Tables(S)
           next(Q, l) == IF winner[l] = None THEN Q
                         ELSE AddWinningMasternode(Q, VoteFor(mn, winner[l]), l)
           step == [ix \in (1 .. N) \X X |-> next(ix[2], ix[1])]
           Def(f) == f = [l \in 0 .. N |-> IF l = 0 THEN P ELSE next(f[l - 1], l)]
<1>1. N \in Nat /\ Level = 1 .. N
  BY LevelAssumption DEF Level
<1>2. ASSUME NEW Q \in X, NEW l \in 1 .. N PROVE next(Q, l) \in X
  <2>1. CASE winner[l] = None
    BY <2>1
  <2>2. CASE winner[l] # None
    <3>1. l \in Level
      BY <1>1
    <3>2. VoteFor(mn, winner[l]) \in S
      BY <2>2, <3>1
    <3>3. VoteFor(mn, winner[l]).mn = mn /\ VoteFor(mn, winner[l]).height = tip + Ahead
      BY DEF VoteFor
    <3>4. AddWinningMasternode(Q, VoteFor(mn, winner[l]), l) \in X
      BY <3>1, <3>2, <3>3, AddWinningKeeps
    <3> QED
      BY <2>2, <3>4
  <2> QED
    BY <2>1, <2>2
<1>3. \E f : Def(f)
  <2>1. step \in [(1 .. N) \X X -> X]
    <3> HIDE DEF next, X, N
    <3> QED
      BY <1>2
  <2>2. \A l \in 1 .. N, Q \in X : step[<<l, Q>>] = next(Q, l)
    <3> HIDE DEF next, X, N
    <3> QED
      OBVIOUS
  <2> HIDE DEF step, next, X, N
  <2>3. P \in X
    BY DEF X
  <2>4. PICK f : Iterates(f, N, X, P, step)
    BY <1>1, <2>1, <2>3, FiniteRecursion
  <2>5. ASSUME NEW l \in 1 .. N PROVE f[l] = next(f[l - 1], l)
    <3>1. l - 1 \in 0 .. N
      BY <1>1
    <3>2. f[l - 1] \in X
      BY <2>4, <3>1 DEF Iterates
    <3> QED
      BY <2>2, <2>4, <3>2 DEF Iterates
  <2>6. Def(f)
    <3>1. \A l \in 0 .. N : l = 0 \/ l \in 1 .. N
      BY <1>1
    <3>2. \A l \in 0 .. N : f[l] = IF l = 0 THEN P ELSE next(f[l - 1], l)
      BY <2>4, <2>5, <3>1 DEF Iterates
    <3> QED
      BY <2>4, <3>2 DEF Iterates
  <2> QED
    BY <2>6
<1> DEFINE after == CHOOSE f : Def(f)
<1>4. AddWinners(P, mn, winner) = after[N]
  BY DEF AddWinners
<1>5. Def(after)
  <2> HIDE DEF Def
  <2> QED
    BY <1>3
<1> HIDE DEF after, next, N
<1> DEFINE T == {l \in 0 .. N : after[l] \in X}
<1>6. 0 \in T
  BY <1>1, <1>5
<1>7. ASSUME NEW l \in 1 .. N, l - 1 \in T PROVE l \in T
  BY <1>1, <1>2, <1>5, <1>7
<1>8. 0 .. N \subseteq T
  <2> HIDE DEF T
  <2> QED
    BY <1>1, <1>6, <1>7, UpToInduction
<1> QED
  BY <1>1, <1>4, <1>8

------------------------------------------------------------------------------
(* The invariant.                                                           *)

Inv ==
    /\ tip \in 0 .. MaxTip /\ sent \in SUBSET Vote
    /\ payments \in [Node -> Tables(sent)]
    /\ pack \in [Node -> SUBSET sent]
    /\ outdated \in [Node -> SUBSET Masternode]
    /\ nLastBlockHeight \in [Node -> {0} \cup Height]
    /\ asked \subseteq Node /\ restarts \in 0 .. MaxRestarts

\* A table stays one when there are more votes.
LEMMA MoreVotes ==
    ASSUME NEW S, NEW T, S \subseteq T PROVE Tables(S) \subseteq Tables(T)
BY DEF Tables

\* A vote made now is a vote.
LEMMA VoteForType ==
    ASSUME tip \in 0 .. MaxTip, NEW mn \in Masternode, NEW p \in Payee
    PROVE  VoteFor(mn, p) \in Vote
<1>1. tip + Ahead \in Height
  BY BoundsAssumption DEF Height
<1> QED
  BY <1>1 DEF VoteFor, Vote

LEMMA InitInv == Init => Inv
<1> SUFFICES ASSUME Init PROVE Inv
  OBVIOUS
<1>1. NoPayments \in Tables(sent)
  <2>1. {} \in SUBSET Vote /\ sent = {}
    BY DEF Init
  <2> QED
    BY <2>1, NoPaymentsTable
<1> QED
  BY <1>1, BoundsAssumption, OutdatedAssumption DEF Init, Inv

LEMMA ReceiveVoteStep ==
    ASSUME Inv, NEW n \in Node, NEW v \in sent, NEW inPack, ReceiveVote(n, v, inPack)
    PROVE  Inv'
<1>1. payments \in [Node -> Tables(sent)] /\ sent \in SUBSET Vote
  BY DEF Inv
<1>2. ProcessVote(payments[n], v, inPack, TRUE, outdated[n]) \in Tables(sent)
  BY <1>1, ProcessVoteKeeps
<1>3. payments' = [payments EXCEPT ![n] = ProcessVote(payments[n], v, inPack, TRUE, outdated[n])]
  BY DEF ReceiveVote
<1>4. UNCHANGED <<tip, sent, nLastBlockHeight, outdated, pack, asked, restarts>>
  BY DEF ReceiveVote
<1>5. payments' \in [Node -> Tables(sent')]
  BY <1>1, <1>2, <1>3, <1>4
<1> QED
  BY <1>4, <1>5 DEF Inv

LEMMA ReceivePackStep ==
    ASSUME Inv, NEW n \in Node, ReceivePack(n)
    PROVE  Inv'
<1>1. /\ payments \in [Node -> Tables(sent)] /\ sent \in SUBSET Vote
      /\ pack \in [Node -> SUBSET sent]
  BY DEF Inv
<1>2. ProcessPack(payments[n], pack[n], outdated[n]) \in Tables(sent)
  BY <1>1, ProcessPackKeeps
<1>3. /\ payments' = [payments EXCEPT ![n] = ProcessPack(payments[n], pack[n], outdated[n])]
      /\ pack' = [pack EXCEPT ![n] = {}]
      /\ UNCHANGED <<tip, sent, nLastBlockHeight, outdated, asked, restarts>>
  BY DEF ReceivePack
<1>4. payments' \in [Node -> Tables(sent')] /\ pack' \in [Node -> SUBSET sent']
  BY <1>1, <1>2, <1>3
<1> QED
  BY <1>3, <1>4 DEF Inv

LEMMA SyncStep ==
    ASSUME Inv, NEW n \in Node, NEW m \in Node, NEW locked \in BOOLEAN, Sync(n, m, locked)
    PROVE  Inv'
<1>1. /\ payments \in [Node -> Tables(sent)] /\ pack \in [Node -> SUBSET sent]
      /\ asked \subseteq Node
  BY DEF Inv
<1>2. DOMAIN payments[m].votes \subseteq sent
  BY <1>1 DEF Tables
<1>3. Packed(payments[m].votes) \in SUBSET sent
  BY <1>2 DEF Packed
<1>4. /\ pack' = [pack EXCEPT ![n] = IF locked THEN Packed(payments[m].votes) ELSE {}]
      /\ asked' = asked \cup {n}
      /\ UNCHANGED <<tip, sent, payments, nLastBlockHeight, outdated, restarts>>
  BY DEF Sync
<1>5. pack' \in [Node -> SUBSET sent'] /\ asked' \subseteq Node
  BY <1>1, <1>3, <1>4
<1> QED
  BY <1>4, <1>5 DEF Inv

LEMMA CleanStep ==
    ASSUME Inv, NEW n \in Node, CleanPaymentList(n)
    PROVE  Inv'
<1>1. payments \in [Node -> Tables(sent)] /\ sent \in SUBSET Vote
  BY DEF Inv
<1>2. Cleaned(payments[n]) \in Tables(sent)
  BY <1>1, CleanedKeeps
<1>3. /\ payments' = [payments EXCEPT ![n] = Cleaned(payments[n])]
      /\ UNCHANGED <<tip, sent, nLastBlockHeight, outdated, pack, asked, restarts>>
  BY DEF CleanPaymentList
<1>4. payments' \in [Node -> Tables(sent')]
  BY <1>1, <1>2, <1>3
<1> QED
  BY <1>3, <1>4 DEF Inv

LEMMA ProcessBlockStep ==
    ASSUME Inv, NEW n \in Node, NEW winner \in [Level -> Payee \cup {None}],
           NEW locked \in BOOLEAN, ProcessBlock(n, winner, locked)
    PROVE  Inv'
<1> DEFINE mn == Self[n]
           after == AddWinners(payments[n], mn, winner)
           new == DOMAIN after.votes \ DOMAIN payments[n].votes
<1>1. /\ payments \in [Node -> Tables(sent)] /\ sent \in SUBSET Vote
      /\ pack \in [Node -> SUBSET sent] /\ tip \in 0 .. MaxTip
      /\ nLastBlockHeight \in [Node -> {0} \cup Height]
  BY DEF Inv
<1>2. mn \in Masternode /\ mn \in Ranked[tip + Ahead]
  BY SelfAssumption DEF ProcessBlock
<1>3. \A l \in Level : winner[l] # None => VoteFor(mn, winner[l]) \in Vote
  BY <1>1, <1>2, VoteForType
<1>4. Vote \in SUBSET Vote /\ payments[n] \in Tables(Vote)
  BY <1>1, MoreVotes
<1>5. after \in Tables(Vote)
  BY <1>2, <1>3, <1>4, AddWinnersKeeps
<1>6. /\ payments' = [payments EXCEPT ![n] = after]
      /\ sent' = sent \cup new
      /\ nLastBlockHeight' = [nLastBlockHeight EXCEPT ![n] = tip + Ahead]
      /\ UNCHANGED <<tip, outdated, pack, asked, restarts>>
  BY DEF ProcessBlock
<1>7. DOMAIN payments[n].votes \subseteq sent
  BY <1>1 DEF Tables
<1> HIDE DEF mn, after
<1>8. DOMAIN after.votes \subseteq Vote
  BY <1>5 DEF Tables
<1>9. sent' \in SUBSET Vote /\ sent \subseteq sent' /\ DOMAIN after.votes \subseteq sent'
  BY <1>1, <1>6, <1>7, <1>8
<1>10. after \in Tables(sent')
  BY <1>5, <1>9 DEF Tables
<1>11. payments' \in [Node -> Tables(sent')]
  <2>1. Tables(sent) \subseteq Tables(sent')
    BY <1>9, MoreVotes
  <2> QED
    BY <1>1, <1>6, <1>10, <2>1
<1>12. pack' \in [Node -> SUBSET sent']
  BY <1>1, <1>6, <1>9
<1>13. nLastBlockHeight' \in [Node -> {0} \cup Height]
  <2>1. tip + Ahead \in Height
    BY <1>1, BoundsAssumption DEF Height
  <2> QED
    BY <1>1, <1>6, <2>1
<1> QED
  BY <1>6, <1>9, <1>11, <1>12, <1>13 DEF Inv

LEMMA OtherVotesStep ==
    ASSUME Inv, NEW mn \in Masternode, NEW p \in Payee, OtherVotes(mn, p)
    PROVE  Inv'
<1>1. /\ payments \in [Node -> Tables(sent)] /\ sent \in SUBSET Vote
      /\ pack \in [Node -> SUBSET sent] /\ tip \in 0 .. MaxTip /\ restarts \in 0 .. MaxRestarts
  BY DEF Inv
<1>2. /\ sent' = sent \cup {VoteFor(mn, p)}
      /\ restarts' = restarts \/ (restarts < MaxRestarts /\ restarts' = restarts + 1)
      /\ UNCHANGED <<tip, payments, nLastBlockHeight, outdated, pack, asked>>
  <2> DEFINE again == \E u \in sent : /\ u.mn = mn /\ u.height = VoteFor(mn, p).height
                                      /\ LevelOf[u.payee] = LevelOf[p]
  <2>1. /\ again => restarts < MaxRestarts
        /\ restarts' = IF again THEN restarts + 1 ELSE restarts
    BY DEF OtherVotes
  <2>2. restarts' = restarts \/ (restarts < MaxRestarts /\ restarts' = restarts + 1)
    <3>1. CASE again
      BY <2>1, <3>1
    <3>2. CASE ~ again
      BY <2>1, <3>2
    <3> QED
      BY <3>1, <3>2
  <2>3. sent' = sent \cup {VoteFor(mn, p)}
    BY DEF OtherVotes
  <2>4. UNCHANGED <<tip, payments, nLastBlockHeight, outdated, pack, asked>>
    BY DEF OtherVotes
  <2> QED
    BY <2>2, <2>3, <2>4
<1>3. sent' \in SUBSET Vote /\ sent \subseteq sent'
  BY <1>1, <1>2, VoteForType
<1>4. payments' \in [Node -> Tables(sent')]
  <2>1. Tables(sent) \subseteq Tables(sent')
    BY <1>3, MoreVotes
  <2> QED
    BY <1>1, <1>2, <2>1
<1>5. pack' \in [Node -> SUBSET sent'] /\ restarts' \in 0 .. MaxRestarts
  BY <1>1, <1>2, <1>3, BoundsAssumption
<1> QED
  BY <1>2, <1>3, <1>4, <1>5 DEF Inv

LEMMA LearnKeyStep ==
    ASSUME Inv, NEW n \in Node, NEW mn \in Masternode, LearnKey(n, mn)
    PROVE  Inv'
BY DEF LearnKey, Inv

LEMMA RestartStep ==
    ASSUME Inv, NEW n \in Node, Restart(n)
    PROVE  Inv'
<1>1. NoPayments \in Tables(sent)
  BY NoPaymentsTable DEF Inv
<1>2. restarts' \in 0 .. MaxRestarts
  BY BoundsAssumption DEF Restart, Inv
<1>3. payments' \in [Node -> Tables(sent')] /\ pack' \in [Node -> SUBSET sent']
  BY <1>1 DEF Restart, Inv
<1> QED
  BY <1>2, <1>3 DEF Restart, Inv

LEMMA NextInv == Inv /\ [Next]_vars => Inv'
<1> SUFFICES ASSUME Inv, [Next]_vars PROVE Inv'
  OBVIOUS
<1>1. ASSUME NEW n \in Node, NEW v \in sent, NEW inPack \in BOOLEAN, ReceiveVote(n, v, inPack) PROVE Inv'
  BY <1>1, ReceiveVoteStep
<1>2. ASSUME NEW n \in Node, ReceivePack(n) PROVE Inv'
  BY <1>2, ReceivePackStep
<1>3. ASSUME NEW n \in Node, NEW m \in Node, NEW locked \in BOOLEAN, Sync(n, m, locked) PROVE Inv'
  BY <1>3, SyncStep
<1>4. ASSUME NEW n \in Node, CleanPaymentList(n) PROVE Inv'
  BY <1>4, CleanStep
<1>5. ASSUME NEW n \in Node, NEW locked \in BOOLEAN, NEW winner \in [Level -> Payee \cup {None}],
             ProcessBlock(n, winner, locked)
      PROVE  Inv'
  BY <1>5, ProcessBlockStep
<1>6. ASSUME NEW mn \in Masternode, NEW p \in Payee, OtherVotes(mn, p) PROVE Inv'
  BY <1>6, OtherVotesStep
<1>7. CASE NewBlock
  BY <1>7, BoundsAssumption DEF NewBlock, Inv
<1>8. ASSUME NEW n \in Node, NEW mn \in Masternode, LearnKey(n, mn) PROVE Inv'
  BY <1>8, LearnKeyStep
<1>9. ASSUME NEW n \in Node, Restart(n) PROVE Inv'
  BY <1>9, RestartStep
<1>10. CASE UNCHANGED vars
  BY <1>10 DEF vars, Inv
<1> QED
  BY <1>1, <1>2, <1>3, <1>4, <1>5, <1>6, <1>7, <1>8, <1>9, <1>10 DEF Next

\* The invariant holds.
THEOREM SpecInv == Spec => []Inv
BY InitInv, NextInv, PTL DEF Spec

------------------------------------------------------------------------------
(* What the invariant says.                                                 *)

\* The entries of a block, with the votes they count.
LEMMA EntryFacts ==
    ASSUME Inv, NEW n \in Node, NEW h \in Height, NEW i \in DOMAIN payments[n].blocks[h]
    PROVE  LET a == payments[n].blocks[h][i] IN
           /\ a \in Entry /\ a.payee \in Payee /\ a.mnlevel \in Level
           /\ a.nVotes = Cardinality(For(payments[n].votes, h, a.payee))
           /\ a.nVotes \in 1 .. Cardinality(Masternode)
<1> DEFINE a == payments[n].blocks[h][i]
<1>1. payments[n] \in Table /\ Consistent(payments[n])
  BY DEF Inv, Tables
<1>2. payments[n].blocks \in [Height -> Seq(Entry)] /\ DOMAIN payments[n].votes \subseteq Vote
  BY <1>1, TableFields
<1>3. a \in Entry
  BY <1>2
<1>4. a.payee \in Payee /\ a.mnlevel \in Level /\ a.nVotes \in Nat \ {0}
  BY <1>3 DEF Entry
<1>5. a.nVotes = Cardinality(For(payments[n].votes, h, a.payee))
  BY <1>1 DEF Consistent, Tally
<1>6. Cardinality(For(payments[n].votes, h, a.payee)) \in 0 .. Cardinality(Masternode)
  BY <1>2, <1>4, VotesBounded
<1>7. a.nVotes \in 1 .. Cardinality(Masternode)
  <2>1. Cardinality(Masternode) \in Nat
    BY FiniteAssumption, FS_CardinalityType
  <2> QED
    BY <1>4, <1>5, <1>6, <2>1
<1> QED
  BY <1>3, <1>4, <1>5, <1>7

\* The tables by which a node judges blocks and by which it recognises votes tell
\* the same, at every node, after any receipt, pack, clean-up or restart.
THEOREM SpecVotesCounted == Spec => []VotesCounted
<1>1. Inv => VotesCounted
  <2> SUFFICES ASSUME Inv PROVE VotesCounted
    OBVIOUS
  <2>1. ASSUME NEW n \in Node
        PROVE  /\ payments[n] \in Table /\ Consistent(payments[n])
               /\ DOMAIN payments[n].votes \subseteq sent
               /\ pack[n] \subseteq sent /\ outdated[n] \subseteq Masternode
    BY DEF Inv, Tables
  <2>2. ASSUME NEW n \in Node
        PROVE  /\ \A v \in DOMAIN payments[n].votes : payments[n].votes[v] \in Level
               /\ payments[n].lastVote \in [Masternode \X Level -> {0} \cup Height]
               /\ payments[n].blocks \in [Height -> Seq(Entry)]
    BY <2>1, TableFields
  <2>3. ASSUME NEW n \in Node, NEW h \in Height
        PROVE  payments[n].blocks[h] \in
                  Seq([payee : Payee, mnlevel : Level, nVotes : 1 .. Cardinality(Masternode)])
    <3> DEFINE block == payments[n].blocks[h]
               R == [payee : Payee, mnlevel : Level, nVotes : 1 .. Cardinality(Masternode)]
    <3>1. block \in Seq(Entry)
      BY <2>2
    <3>2. ASSUME NEW i \in DOMAIN block PROVE block[i] \in R
      <4>1. /\ block[i] \in Entry /\ block[i].payee \in Payee /\ block[i].mnlevel \in Level
            /\ block[i].nVotes \in 1 .. Cardinality(Masternode)
        BY EntryFacts
      <4> HIDE DEF block
      <4>2. block[i] = [payee |-> block[i].payee, mnlevel |-> block[i].mnlevel, nVotes |-> block[i].nVotes]
        BY <4>1 DEF Entry
      <4> QED
        BY <4>1, <4>2
    <3> HIDE DEF block, R
    <3>3. block \in Seq(R)
      BY <3>1, <3>2
    <3> QED
      BY <3>3 DEF block, R
  <2>4. TypeOK
    BY <2>1, <2>2, <2>3 DEF Inv, TypeOK
  <2>5. ASSUME NEW n \in Node, NEW h \in Height
        PROVE  LET block == payments[n].blocks[h] IN
               /\ \A i, j \in DOMAIN block : block[i].payee = block[j].payee => i = j
               /\ \A i \in DOMAIN block : block[i].nVotes = Cardinality(VotesFor(n, h, block[i].payee))
               /\ \A p \in Payee : VotesFor(n, h, p) # {} => \E i \in DOMAIN block : block[i].payee = p
    <3>1. Tally(payments[n].blocks[h], payments[n].votes, h)
      BY <2>1 DEF Consistent
    <3>2. \A p : VotesFor(n, h, p) = For(payments[n].votes, h, p)
      BY DEF VotesFor, For
    <3> QED
      BY <3>1, <3>2 DEF Tally
  <2> QED
    BY <2>4, <2>5 DEF VotesCounted
<1> QED
  BY <1>1, SpecInv, PTL

------------------------------------------------------------------------------
(* Quorums.                                                                 *)

\* Two sets of at least r of at most t elements share 2r - t of them.
LEMMA QuorumsMeet ==
    ASSUME NEW U, IsFiniteSet(U), NEW A \in SUBSET U, NEW B \in SUBSET U,
           NEW r \in Nat, NEW t \in Nat, Cardinality(U) <= t,
           Cardinality(A) >= r, Cardinality(B) >= r
    PROVE  IsFiniteSet(A \cap B) /\ Cardinality(A \cap B) >= 2 * r - t
<1>1. IsFiniteSet(A) /\ IsFiniteSet(B)
  BY FS_Subset
<1>2. A \cup B \in SUBSET U /\ A \cap B \in SUBSET U
  OBVIOUS
<1>3. IsFiniteSet(A \cup B) /\ IsFiniteSet(A \cap B) /\ Cardinality(A \cup B) <= Cardinality(U)
  BY <1>2, FS_Subset
<1>4. Cardinality(A \cup B) = Cardinality(A) + Cardinality(B) - Cardinality(A \cap B)
  BY <1>1, FS_Union
<1>5. {Cardinality(A), Cardinality(B), Cardinality(A \cup B), Cardinality(A \cap B), Cardinality(U)} \subseteq Nat
  BY <1>1, <1>3, FS_CardinalityType
<1> QED
  BY <1>3, <1>4, <1>5

\* The masternodes behind the votes for a payee: as many as the votes.
LEMMA VotersOf ==
    ASSUME NEW votes, DOMAIN votes \subseteq Vote, NEW h \in Height, NEW p \in Payee
    PROVE  Cardinality({v.mn : v \in For(votes, h, p)}) = Cardinality(For(votes, h, p))
<1> DEFINE S == For(votes, h, p)
           T == {v.mn : v \in S}
           f == [v \in S |-> v.mn]
<1>1. \A v \in S : v = [mn |-> v.mn, height |-> h, payee |-> p]
  BY DEF For, Vote
<1>2. f \in [S -> T] /\ \A v, w \in S : f[v] = f[w] => v = w
  BY <1>1
<1>3. \A mn \in T : \E v \in S : f[v] = mn
  OBVIOUS
<1>4. IsFiniteSet(S)
  BY VotesBounded
<1> HIDE DEF f, S, T
<1>5. ExistsBijection(S, T)
  <2>1. f \in Injection(S, T)
    BY <1>2 DEF Injection, IsInjective
  <2>2. f \in Surjection(S, T)
    BY <1>2, <1>3 DEF Surjection
  <2> QED
    BY <2>1, <2>2 DEF ExistsBijection, Bijection
<1> QED
  BY <1>4, <1>5, FS_Bijection DEF S, T

\* As long as fewer masternodes than two quorums share vote twice, no two payees of
\* a level have enough votes for the same block, whatever nodes count them.
THEOREM SpecOneQuorum == Spec => []OneQuorum
<1>1. Inv => OneQuorum
  <2> SUFFICES ASSUME Inv, Cardinality(Equivocators) < 2 * Required - Total,
                      NEW n \in Node, NEW m \in Node, NEW h \in Height,
                      NEW i \in DOMAIN payments[n].blocks[h],
                      NEW j \in DOMAIN payments[m].blocks[h],
                      payments[n].blocks[h][i].nVotes >= Required,
                      payments[m].blocks[h][j].nVotes >= Required,
                      LevelOf[payments[n].blocks[h][i].payee] = LevelOf[payments[m].blocks[h][j].payee],
                      payments[n].blocks[h][i].payee # payments[m].blocks[h][j].payee
               PROVE  FALSE
    BY DEF OneQuorum
  <2> DEFINE p == payments[n].blocks[h][i].payee
             q == payments[m].blocks[h][j].payee
             V == For(payments[n].votes, h, p)
             W == For(payments[m].votes, h, q)
             A == {v.mn : v \in V}
             B == {v.mn : v \in W}
  <2>1. /\ p \in Payee /\ q \in Payee /\ p # q /\ LevelOf[p] = LevelOf[q]
        /\ Cardinality(V) >= Required /\ Cardinality(W) >= Required
    <3>1. p \in Payee /\ payments[n].blocks[h][i].nVotes = Cardinality(V)
      BY EntryFacts
    <3>2. q \in Payee /\ payments[m].blocks[h][j].nVotes = Cardinality(W)
      BY EntryFacts
    <3> QED
      BY <3>1, <3>2
  <2> HIDE DEF p, q
  <2>2. ASSUME NEW k \in Node
        PROVE  /\ DOMAIN payments[k].votes \subseteq sent
               /\ DOMAIN payments[k].votes \subseteq Vote
               /\ \A v \in DOMAIN payments[k].votes : v.mn \in Ranked[v.height]
    BY DEF Inv, Tables, Consistent
  <2>3. /\ Cardinality(A) = Cardinality(V)
        /\ Cardinality(B) = Cardinality(W)
    BY <2>1, <2>2, VotersOf
  <2>4. A \in SUBSET Ranked[h] /\ B \in SUBSET Ranked[h]
    BY <2>2 DEF For
  <2>5. IsFiniteSet(Ranked[h]) /\ Cardinality(Ranked[h]) <= Total
    <3>1. Ranked[h] \in SUBSET Masternode /\ Cardinality(Ranked[h]) <= Total
      BY RankAssumption
    <3> QED
      BY <3>1, FiniteAssumption, FS_Subset
  <2>6. A \cap B \in SUBSET Equivocators
    <3> SUFFICES ASSUME NEW mn \in A, mn \in B PROVE mn \in Equivocators
      OBVIOUS
    <3>1. PICK v \in V : v.mn = mn
      OBVIOUS
    <3>2. PICK w \in W : w.mn = mn
      OBVIOUS
    <3>3. v \in sent /\ v.height = h /\ v.payee = p
      BY <2>2 DEF For
    <3>4. w \in sent /\ w.height = h /\ w.payee = q
      BY <2>2 DEF For
    <3> QED
      BY <2>1, <3>1, <3>2, <3>3, <3>4 DEF Equivocators
  <2>7. IsFiniteSet(Equivocators)
    <3>1. Equivocators \in SUBSET Masternode
      BY DEF Equivocators, Inv, Vote
    <3> QED
      BY <3>1, FiniteAssumption, FS_Subset
  <2> HIDE DEF A, B
  <2>8. IsFiniteSet(A \cap B) /\ Cardinality(A \cap B) >= 2 * Required - Total
    <3>1. Required \in Nat /\ Total \in Nat /\ Cardinality(A) >= Required /\ Cardinality(B) >= Required
      BY <2>1, <2>3, RankAssumption
    <3> QED
      BY <2>4, <2>5, <3>1, QuorumsMeet
  <2>9. Cardinality(A \cap B) <= Cardinality(Equivocators)
    BY <2>6, <2>7, FS_Subset
  <2>10. Cardinality(A \cap B) \in Nat /\ Cardinality(Equivocators) \in Nat
    BY <2>7, <2>8, FS_CardinalityType
  <2> QED
    BY <2>8, <2>9, <2>10, RankAssumption
<1> QED
  BY <1>1, SpecInv, PTL

------------------------------------------------------------------------------
(* The block a node makes.                                                  *)

\* Among the entries of a level one has most votes, and is the first of those.
LEMMA MostVotes ==
    ASSUME NEW block \in Seq(Entry), NEW C \in Nat, \A i \in DOMAIN block : block[i].nVotes \in 1 .. C,
           NEW level, At(block, level) # {}
    PROVE  \E i \in At(block, level) : \A j \in At(block, level) :
              \/ block[i].nVotes > block[j].nVotes
              \/ block[i].nVotes = block[j].nVotes /\ i <= j
<1> DEFINE S == At(block, level)
           R == {C - block[i].nVotes : i \in S}
<1>1. S \subseteq DOMAIN block /\ S \subseteq Nat /\ \A i \in S : block[i].nVotes \in 1 .. C
  BY DEF At
<1> HIDE DEF S
<1>2. PICK k \in R : \A l \in R : k <= l
  <2>1. R \in SUBSET Nat /\ R # {}
    BY <1>1 DEF S
  <2> HIDE DEF R
  <2> QED
    BY <2>1, LeastNatural
<1> DEFINE Q == {i \in S : C - block[i].nVotes = k}
<1>3. PICK i \in Q : \A j \in Q : i <= j
  <2>1. Q \in SUBSET Nat /\ Q # {}
    BY <1>1, <1>2
  <2> HIDE DEF Q
  <2> QED
    BY <2>1, LeastNatural
<1>4. ASSUME NEW j \in S
      PROVE  \/ block[i].nVotes > block[j].nVotes
             \/ block[i].nVotes = block[j].nVotes /\ i <= j
  <2>1. C - block[j].nVotes \in R
    OBVIOUS
  <2>2. k <= C - block[j].nVotes /\ k = C - block[i].nVotes
    BY <2>1, <1>2, <1>3
  <2>3. block[i].nVotes \in Int /\ block[j].nVotes \in Int
    BY <1>1, <1>3
  <2>4. CASE block[i].nVotes = block[j].nVotes
    BY <2>2, <2>4, <1>3
  <2> QED
    BY <2>2, <2>3, <2>4
<1> QED
  BY <1>3, <1>4 DEF S

\* A block that a node makes passes its own check, whatever votes it has counted.
THEOREM SpecOwnBlockAccepted == Spec => []OwnBlockAccepted
<1>1. Inv => OwnBlockAccepted
  <2> SUFFICES ASSUME Inv, NEW n \in Node, tip + 1 \in Height,
                      NEW other \in [Level -> Payee \cup {None}]
               PROVE  IsTransactionValid(payments[n].blocks[tip + 1], FillBlockPayee(n, other))
    BY DEF OwnBlockAccepted
  <2> DEFINE block == payments[n].blocks[tip + 1]
             paid == FillBlockPayee(n, other)
             C == Cardinality(Masternode)
  <2>1. /\ block \in Seq(Entry) /\ C \in Nat
        /\ \A i \in DOMAIN block :
             block[i].payee \in Payee /\ block[i].mnlevel \in Level /\ block[i].nVotes \in 1 .. C
    <3>1. payments[n].blocks \in [Height -> Seq(Entry)]
      BY TableFields DEF Inv, Tables
    <3>2. C \in Nat
      BY FiniteAssumption, FS_CardinalityType
    <3> QED
      BY <3>1, <3>2, EntryFacts
  <2>2. \A l \in Level : paid[l] = IF GetPayee(block, l) = None THEN other[l] ELSE GetPayee(block, l)
    BY DEF FillBlockPayee
  <2> HIDE DEF block, paid, C
  <2> SUFFICES ASSUME NEW i \in DOMAIN block, block[i].nVotes >= Required
               PROVE  \E j \in DOMAIN block : /\ block[j].nVotes >= Required
                                              /\ block[j].mnlevel = block[i].mnlevel
                                              /\ Pays(paid, block[j].payee, block[j].mnlevel)
    BY DEF IsTransactionValid, block, paid
  <2> DEFINE level == block[i].mnlevel
             P(k) == \A j \in At(block, level) :
                        \/ block[k].nVotes > block[j].nVotes
                        \/ block[k].nVotes = block[j].nVotes /\ k <= j
             k == CHOOSE x \in At(block, level) : P(x)
  <2>3. i \in At(block, level) /\ level \in Level
    BY <2>1 DEF At
  <2>4. \E x \in At(block, level) : P(x)
    BY <2>1, <2>3, MostVotes
  <2>5. GetPayee(block, level) = block[k].payee
    BY <2>3 DEF GetPayee
  <2>6. k \in At(block, level) /\ P(k)
    <3> HIDE DEF P
    <3> QED
      BY <2>4
  <2> HIDE DEF k
  <2>7. k \in DOMAIN block /\ block[k].mnlevel = level
    BY <2>6 DEF At
  <2>8. block[k].nVotes >= Required
    <3>1. block[k].nVotes >= block[i].nVotes
      BY <2>1, <2>3, <2>6, <2>7
    <3> QED
      BY <2>1, <2>7, <3>1, RankAssumption
  <2>9. Pays(paid, block[k].payee, level)
    <3>1. block[k].payee # None
      BY <2>1, <2>7, SelfAssumption
    <3>2. paid[level] = block[k].payee
      BY <2>2, <2>3, <2>5, <3>1
    <3>3. Payment[level] >= Payment[level]
      BY <2>3, LevelAssumption
    <3> QED
      BY <2>3, <3>2, <3>3 DEF Pays
  <2> QED
    BY <2>7, <2>8, <2>9
<1> QED
  BY <1>1, SpecInv, PTL

=============================================================================
