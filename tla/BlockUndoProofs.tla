--------------------------- MODULE BlockUndoProofs ---------------------------
(***************************************************************************)
(* CoinsExact and ChainValid, for any blocks and transactions in which no  *)
(* coinstake is spent completely (MCBlockUndoEmptyOutput shows why), and   *)
(* ForkStakeAdmitted.                                                      *)
(*                                                                         *)
(* Whether a transaction can be connected depends on the chain before it   *)
(* only: CoinsAfter(Prefix(b, k), b) are the coins after the first k       *)
(* transactions of b.  Connecting a transaction goes from one of these to  *)
(* the next (ConnectStep), disconnecting it goes back (DisconnectStep), so *)
(* the invariant has to say only where the view is and that the undo data  *)
(* of a block is what these coins give.  The entries of mapStakeSpent      *)
(* follow in the same way (StakesForward, StakesBack).                     *)
(***************************************************************************)
EXTENDS BlockUndo, WellFoundedInduction, FiniteSetTheorems, TLAPS

------------------------------------------------------------------------------
(* Induction over the natural numbers, for sets of numbers.                 *)

\* A set of numbers that is not empty has a least element.
LEMMA LeastNatural ==
    ASSUME NEW S \in SUBSET Nat, S # {}
    PROVE  \E m \in S : \A k \in S : m <= k
<1> DEFINE R == {ss \in Nat \X Nat : ss[1] < ss[2]}
<1>1. IsWellFoundedOn(R, Nat)
  BY NatLessThanWellFounded DEF OpToRel
<1>2. \A j, k \in Nat : j < k => <<j, k>> \in R
  OBVIOUS
<1> HIDE DEF R
<1>3. PICK m \in S : \A k \in S : ~ (<<k, m>> \in R)
  BY <1>1, WFMin
<1>4. \A k \in S : ~ (k < m)
  BY <1>2, <1>3
<1> QED
  BY <1>3, <1>4

\* Complete induction: a set that has a number whenever it has all smaller ones.
LEMMA CompleteInduction ==
    ASSUME NEW S, \A n \in Nat : (\A k \in Nat : k < n => k \in S) => n \in S
    PROVE  Nat \subseteq S
<1> DEFINE T == Nat \ S
<1> SUFFICES ASSUME T # {} PROVE FALSE
  OBVIOUS
<1>1. PICK m \in T : \A k \in T : m <= k
  <2> HIDE DEF T
  <2>1. T \in SUBSET Nat
    BY DEF T
  <2> QED
    BY <2>1, LeastNatural
<1>2. \A k \in Nat : k < m => k \in S
  BY <1>1
<1> QED
  BY <1>1, <1>2

------------------------------------------------------------------------------
(* The tree.                                                                *)

LEMMA ParentOK ==
    \A b \in Blocks \ {Genesis} :
        /\ Parent[b] \in Blocks /\ Height[b] = Height[Parent[b]] + 1
        /\ Height[Parent[b]] \in Nat /\ Height[b] \in Nat /\ Height[b] # 0
<1> TAKE b \in Blocks \ {Genesis}
<1>1. Parent[b] \in Blocks /\ Height[b] = Height[Parent[b]] + 1
  BY BlockAssumption, HeightAssumption
<1>2. Height[Parent[b]] \in Nat
  BY <1>1, HeightAssumption
<1> QED
  BY <1>1, <1>2

\* Induction from parents to their children.
LEMMA TreeInduction ==
    ASSUME NEW S, Genesis \in S, \A b \in Blocks \ {Genesis} : Parent[b] \in S => b \in S
    PROVE  Blocks \subseteq S
<1> DEFINE T == {n \in Nat : \A b \in Blocks : Height[b] = n => b \in S}
<1>1. Nat \subseteq T
  <2>1. ASSUME NEW n \in Nat, \A k \in Nat : k < n => k \in T
        PROVE  n \in T
    <3> SUFFICES ASSUME NEW b \in Blocks \ {Genesis}, Height[b] = n PROVE b \in S
      OBVIOUS
    <3>1. Parent[b] \in Blocks /\ Height[Parent[b]] \in Nat /\ Height[Parent[b]] < n
      BY ParentOK
    <3> QED
      BY <2>1, <3>1
  <2> HIDE DEF T
  <2> QED
    BY <2>1, CompleteInduction
<1> QED
  BY <1>1, HeightAssumption

\* The sets of blocks that contain the parents of their blocks.
ParentClosed == {S \in SUBSET Blocks : \A b \in S \ {Genesis} : Parent[b] \in S}

\* The least of them that contains b.
Least(b) == {a \in Blocks : \A S \in ParentClosed : b \in S => a \in S}

LEMMA LeastClosed == \A b \in Blocks : Least(b) \in ParentClosed /\ b \in Least(b)
BY BlockAssumption DEF Least, ParentClosed

LEMMA LeastEquation ==
    \A b \in Blocks : Least(b) = IF b = Genesis THEN {b} ELSE {b} \cup Least(Parent[b])
<1> TAKE b \in Blocks
<1>1. CASE b = Genesis
  <2>1. {Genesis} \in ParentClosed
    BY BlockAssumption DEF ParentClosed
  <2> QED
    BY <1>1, <2>1, LeastClosed DEF Least
<1>2. CASE b # Genesis
  <2>1. Parent[b] \in Blocks
    BY <1>2, BlockAssumption
  <2>2. {b} \cup Least(Parent[b]) \in ParentClosed
    BY <2>1, <1>2, LeastClosed DEF ParentClosed
  <2>3. Least(b) \subseteq {b} \cup Least(Parent[b])
    BY <2>2 DEF Least
  <2>4. ASSUME NEW a \in Least(Parent[b]) PROVE a \in Least(b)
    BY <2>4, <1>2, BlockAssumption DEF Least, ParentClosed
  <2> QED
    BY <1>2, <2>3, <2>4, LeastClosed
<1> QED
  BY <1>1, <1>2

\* The equation that defines Ancestors has a solution, so Ancestors solves it.
LEMMA AncestorsEquation ==
    /\ Ancestors[Genesis] = {Genesis}
    /\ \A b \in Blocks \ {Genesis} : Ancestors[b] = {b} \cup Ancestors[Parent[b]]
<1> DEFINE E(f) == f = [b \in Blocks |-> IF b = Genesis THEN {b} ELSE {b} \cup f[Parent[b]]]
<1>1. E([b \in Blocks |-> Least(b)])
  <2> DEFINE L == [b \in Blocks |-> Least(b)]
  <2>1. ASSUME NEW b \in Blocks
        PROVE  L[b] = IF b = Genesis THEN {b} ELSE {b} \cup L[Parent[b]]
    BY LeastEquation, BlockAssumption
  <2> QED
    BY <2>1
<1>2. Ancestors = CHOOSE f : E(f)
  BY DEF Ancestors
<1>3. \E f : E(f)
  <2> HIDE DEF E
  <2> QED
    BY <1>1
<1>4. E(Ancestors)
  <2> HIDE DEF E
  <2> QED
    BY <1>2, <1>3
<1> QED
  BY <1>4, BlockAssumption

LEMMA AncestorsSelf ==
    \A b \in Blocks : Ancestors[b] \subseteq Blocks /\ b \in Ancestors[b] /\ Genesis \in Ancestors[b]
<1> DEFINE S == {b \in Blocks : /\ Ancestors[b] \subseteq Blocks /\ b \in Ancestors[b]
                                /\ Genesis \in Ancestors[b]}
<1>1. Genesis \in S
  BY AncestorsEquation, BlockAssumption
<1>2. ASSUME NEW b \in Blocks \ {Genesis}, Parent[b] \in S PROVE b \in S
  BY <1>2, AncestorsEquation
<1>3. Blocks \subseteq S
  <2> HIDE DEF S
  <2> QED
    BY <1>1, <1>2, TreeInduction
<1> QED
  BY <1>3

LEMMA AncestorsTransitive ==
    \A b \in Blocks : \A a \in Ancestors[b] : Ancestors[a] \subseteq Ancestors[b]
<1> DEFINE S == {b \in Blocks : \A a \in Ancestors[b] : Ancestors[a] \subseteq Ancestors[b]}
<1>1. Genesis \in S
  BY AncestorsEquation, BlockAssumption
<1>2. ASSUME NEW b \in Blocks \ {Genesis}, Parent[b] \in S PROVE b \in S
  BY <1>2, AncestorsEquation
<1>3. Blocks \subseteq S
  <2> HIDE DEF S
  <2> QED
    BY <1>1, <1>2, TreeInduction
<1> QED
  BY <1>3

LEMMA AncestorsHeight ==
    \A b \in Blocks : \A a \in Ancestors[b] :
        Height[a] \in Nat /\ Height[b] \in Nat /\ (a = b \/ Height[a] < Height[b])
<1> DEFINE S == {b \in Blocks : \A a \in Ancestors[b] : a = b \/ Height[a] < Height[b]}
<1>1. Genesis \in S
  BY AncestorsEquation, BlockAssumption
<1>2. ASSUME NEW b \in Blocks \ {Genesis}, Parent[b] \in S PROVE b \in S
  <2> SUFFICES ASSUME NEW a \in Ancestors[Parent[b]] PROVE Height[a] < Height[b]
    BY AncestorsEquation
  <2>1. /\ Parent[b] \in Blocks /\ Height[Parent[b]] \in Nat /\ Height[b] = Height[Parent[b]] + 1
        /\ Height[a] \in Nat
    BY ParentOK, AncestorsSelf, HeightAssumption
  <2>2. a = Parent[b] \/ Height[a] < Height[Parent[b]]
    BY <1>2
  <2> QED
    BY <2>1, <2>2
<1>3. Blocks \subseteq S
  <2> HIDE DEF S
  <2> QED
    BY <1>1, <1>2, TreeInduction
<1> QED
  BY <1>3, AncestorsSelf, HeightAssumption

\* Of two blocks of one chain one is before the other.
LEMMA AncestorsTotal ==
    \A d \in Blocks : \A a, b \in Ancestors[d] : a \in Ancestors[b] \/ b \in Ancestors[a]
<1> DEFINE S == {d \in Blocks :
                    \A a, b \in Ancestors[d] : a \in Ancestors[b] \/ b \in Ancestors[a]}
<1>1. Genesis \in S
  BY AncestorsEquation, BlockAssumption
<1>2. ASSUME NEW d \in Blocks \ {Genesis}, Parent[d] \in S PROVE d \in S
  BY <1>2, AncestorsEquation
<1>3. Blocks \subseteq S
  <2> HIDE DEF S
  <2> QED
    BY <1>1, <1>2, TreeInduction
<1> QED
  BY <1>3

\* Between a block and an ancestor there is a child of the ancestor.
LEMMA ChildTowards ==
    \A b \in Blocks : \A a \in Ancestors[b] \ {b} :
        \E c \in Ancestors[b] \ {Genesis} : Parent[c] = a
<1> DEFINE S == {b \in Blocks : \A a \in Ancestors[b] \ {b} :
                                   \E c \in Ancestors[b] \ {Genesis} : Parent[c] = a}
<1>1. Genesis \in S
  BY AncestorsEquation, BlockAssumption
<1>2. ASSUME NEW b \in Blocks \ {Genesis}, Parent[b] \in S PROVE b \in S
  BY <1>2, AncestorsEquation, AncestorsSelf
<1>3. Blocks \subseteq S
  <2> HIDE DEF S
  <2> QED
    BY <1>1, <1>2, TreeInduction
<1> QED
  BY <1>3

\* A proper ancestor is on the parent's chain.
LEMMA ProperAncestor ==
    ASSUME NEW b \in Blocks \ {Genesis}
    PROVE  /\ Ancestors[b] = {b} \cup Ancestors[Parent[b]]
           /\ b \notin Ancestors[Parent[b]]
           /\ \A a \in Ancestors[Parent[b]] : Height[a] < Height[b]
<1>1. Ancestors[b] = {b} \cup Ancestors[Parent[b]]
  BY AncestorsEquation
<1>2. ASSUME NEW a \in Ancestors[Parent[b]] PROVE Height[a] < Height[b]
  <2>1. /\ Height[a] \in Nat /\ Height[b] \in Nat /\ Height[Parent[b]] \in Nat
        /\ Height[b] = Height[Parent[b]] + 1
        /\ a = Parent[b] \/ Height[a] < Height[Parent[b]]
    BY AncestorsHeight, ParentOK
  <2> QED
    BY <2>1
<1>3. ~ (Height[b] < Height[b])
  BY ParentOK
<1> QED
  BY <1>1, <1>2, <1>3

------------------------------------------------------------------------------
(* The transactions of a chain.                                             *)

\* The same for the equation that defines Confirmed.
LEMMA ConfirmedEquation ==
    /\ Confirmed[Genesis] = {}
    /\ \A b \in Blocks \ {Genesis} : Confirmed[b] = Confirmed[Parent[b]] \cup Elements(Txs[b])
<1> DEFINE E(f) == f = [b \in Blocks |-> IF b = Genesis THEN {}
                                         ELSE f[Parent[b]] \cup Elements(Txs[b])]
           L == [b \in Blocks |-> UNION {Elements(Txs[d]) : d \in Ancestors[b]}]
<1>1. Elements(Txs[Genesis]) = {}
  BY BlockAssumption DEF Elements
<1>2. E(L)
  <2>1. ASSUME NEW b \in Blocks
        PROVE  L[b] = IF b = Genesis THEN {} ELSE L[Parent[b]] \cup Elements(Txs[b])
    <3>1. CASE b = Genesis
      BY <1>1, <3>1, AncestorsEquation, BlockAssumption
    <3>2. CASE b # Genesis
      BY <3>2, AncestorsEquation, ParentOK
    <3> QED
      BY <3>1, <3>2
  <2> HIDE DEF L
  <2>2. L = [b \in Blocks |-> L[b]]
    BY DEF L
  <2> QED
    BY <2>1, <2>2
<1>3. Confirmed = CHOOSE f : E(f)
  BY DEF Confirmed
<1>4. E(Confirmed)
  <2> HIDE DEF E, L
  <2> QED
    BY <1>2, <1>3
<1> QED
  BY <1>4, BlockAssumption

LEMMA ConfirmedIs ==
    \A b \in Blocks : Confirmed[b] = UNION {Elements(Txs[d]) : d \in Ancestors[b]}
<1> DEFINE S == {b \in Blocks : Confirmed[b] = UNION {Elements(Txs[d]) : d \in Ancestors[b]}}
<1>1. Genesis \in S
  <2>1. Elements(Txs[Genesis]) = {}
    BY BlockAssumption DEF Elements
  <2> QED
    BY <2>1, AncestorsEquation, ConfirmedEquation, BlockAssumption
<1>2. ASSUME NEW b \in Blocks \ {Genesis}, Parent[b] \in S PROVE b \in S
  BY <1>2, AncestorsEquation, ConfirmedEquation
<1>3. Blocks \subseteq S
  <2> HIDE DEF S
  <2> QED
    BY <1>1, <1>2, TreeInduction
<1> QED
  BY <1>3

LEMMA BlockTxs ==
    \A b \in Blocks :
        /\ Txs[b] \in Seq(Txids) /\ Len(Txs[b]) \in Nat /\ DOMAIN Txs[b] = 1 .. Len(Txs[b])
        /\ \A i \in 1 .. Len(Txs[b]) : Txs[b][i] \in Txids
        /\ Elements(Txs[b]) \subseteq Txids
<1> TAKE b \in Blocks
<1>1. Txs[b] \in Seq(Txids)
  BY BlockAssumption
<1> QED
  BY <1>1 DEF Elements

LEMMA ConfirmedType == \A b \in Blocks : Confirmed[b] \subseteq Txids
BY ConfirmedIs, AncestorsSelf, BlockTxs

\* The inputs and outputs of a transaction.
LEMMA TxType ==
    \A t \in Txids :
        /\ Tx[t].outs \in SUBSET Nat
        /\ Tx[t].ins \in Seq(Outpoints)
        /\ Inputs(t) \subseteq Outpoints
        /\ Inputs(t) = {} <=> Tx[t].kind = "coinbase"
        /\ \A o \in Inputs(t) : /\ o[1] \in Txids /\ o[1] # t /\ o[2] \in Nat
                                /\ o = <<o[1], o[2]>>
<1> TAKE t \in Txids
<1>1. Tx[t] \in [kind : {"coinbase", "coinstake", "plain"}, ins : Seq(Outpoints), outs : SUBSET Nat]
  BY TransactionAssumption
<1>2. Tx[t].ins \in Seq(Outpoints) /\ Tx[t].outs \in SUBSET Nat
  BY <1>1
<1>3. Inputs(t) \subseteq Outpoints
  BY <1>2 DEF Inputs, Elements
<1>4. Inputs(t) = {} <=> Tx[t].ins = <<>>
  <2> DEFINE q == Tx[t].ins
  <2>1. Inputs(t) = {q[i] : i \in DOMAIN q}
    BY DEF Inputs, Elements
  <2>2. q \in Seq(Outpoints)
    BY <1>2
  <2> HIDE DEF q
  <2>3. q # <<>> => 1 \in DOMAIN q
    BY <2>2
  <2>4. q = <<>> => DOMAIN q = {}
    BY <2>2
  <2>5. Inputs(t) = {} <=> q = <<>>
    BY <2>1, <2>3, <2>4
  <2> QED
    BY <2>5 DEF q
<1>5. \A o \in Inputs(t) : o[1] # t
  BY TransactionAssumption DEF Inputs, Elements
<1>6. \A o \in Outpoints : o[1] \in Txids /\ o[2] \in Nat /\ o = <<o[1], o[2]>>
  BY DEF Outpoints
<1> QED
  BY <1>2, <1>3, <1>4, <1>5, <1>6, TransactionAssumption

LEMMA OutsOfIs ==
    ASSUME NEW S \in SUBSET Outpoints, NEW p \in Txids
    PROVE  OutsOf(p, S) = {n \in Nat : <<p, n>> \in S}
<1>1. \A o \in S : o[1] \in Txids /\ o[2] \in Nat /\ o = <<o[1], o[2]>>
  BY DEF Outpoints
<1>2. \A n \in Nat : <<p, n>>[1] = p /\ <<p, n>>[2] = n
  OBVIOUS
<1> QED
  BY <1>1, <1>2 DEF OutsOf

------------------------------------------------------------------------------
(* Coins.                                                                   *)

\* What the transactions S spend, and which outputs of p they leave.
Spent(S) == UNION {Inputs(s) : s \in S}
Left(S, p) == {n \in Tx[p].outs : <<p, n>> \notin Spent(S)}

LEMMA SpentType == \A S \in SUBSET Txids : Spent(S) \in SUBSET Outpoints
BY TxType DEF Spent

LEMMA FromTxType ==
    ASSUME NEW t \in Txids, NEW h \in Nat
    PROVE  FromTx(t, h) \in CCoins /\ FromTx(t, h).outs = Tx[t].outs
<1>1. Tx[t].outs \in SUBSET Nat
  BY TxType
<1> QED
  BY <1>1 DEF FromTx, NoCoins, CCoins

\* The coins of S in one expression.
LEMMA CoinsAfterIs ==
    ASSUME NEW S \in SUBSET Txids, NEW b, NEW p \in Txids
    PROVE  CoinsAfter(S, b)[p] =
               IF p \in S /\ Left(S, p) # {}
               THEN [outs |-> Left(S, p), base |-> Tx[p].kind = "coinbase",
                     stake |-> Tx[p].kind = "coinstake", height |-> HeightIn(b, p)]
               ELSE NoCoins
<1> DEFINE X == OutsOf(p, Spent(S))
           h == HeightIn(b, p)
<1>1. CoinsAfter(S, b)[p] = IF p \in S THEN Without(FromTx(p, h), X) ELSE NoCoins
  BY DEF CoinsAfter, Spent
<1>2. X = {n \in Nat : <<p, n>> \in Spent(S)}
  BY SpentType, OutsOfIs
<1>3. Left(S, p) = Tx[p].outs \ X
  BY <1>2, TxType DEF Left
<1> HIDE DEF X, h
<1>4. Without(FromTx(p, h), X) =
          IF Tx[p].outs \ X # {}
          THEN [outs |-> Tx[p].outs \ X, base |-> Tx[p].kind = "coinbase",
                stake |-> Tx[p].kind = "coinstake", height |-> h]
          ELSE NoCoins
  BY DEF Without, FromTx, NoCoins
<1> QED
  BY <1>1, <1>3, <1>4 DEF h

LEMMA Available ==
    ASSUME NEW S \in SUBSET Txids, NEW b, NEW o \in Outpoints
    PROVE  IsAvailable(CoinsAfter(S, b), o)
               <=> o[1] \in S /\ o[2] \in Tx[o[1]].outs /\ o \notin Spent(S)
<1>1. o[1] \in Txids /\ o[2] \in Nat /\ o = <<o[1], o[2]>>
  BY DEF Outpoints
<1>2. CoinsAfter(S, b)[o[1]].outs = IF o[1] \in S THEN Left(S, o[1]) ELSE {}
  <2> DEFINE p == o[1]
             r == [outs |-> Left(S, p), base |-> Tx[p].kind = "coinbase",
                   stake |-> Tx[p].kind = "coinstake", height |-> HeightIn(b, p)]
  <2>1. CoinsAfter(S, b)[p] = IF p \in S /\ Left(S, p) # {} THEN r ELSE NoCoins
    BY <1>1, CoinsAfterIs
  <2>2. r.outs = Left(S, p) /\ NoCoins.outs = {}
    BY DEF NoCoins
  <2> HIDE DEF p, r
  <2>3. CoinsAfter(S, b)[p].outs = IF p \in S THEN Left(S, p) ELSE {}
    BY <2>1, <2>2
  <2> QED
    BY <2>3 DEF p
<1> QED
  BY <1>1, <1>2 DEF IsAvailable, Left

LEMMA CoinsAfterDomain ==
    \A S, b : CoinsAfter(S, b) = [p \in Txids |-> CoinsAfter(S, b)[p]]
BY DEF CoinsAfter

------------------------------------------------------------------------------
(* The height of a transaction in a chain.                                  *)

LEMMA HeightInIs ==
    ASSUME NEW b \in Blocks, NEW t \in Confirmed[b]
    PROVE  \E d \in Ancestors[b] : /\ t \in Elements(Txs[d]) /\ HeightIn(b, t) = Height[d]
                                   /\ \A e \in Ancestors[b] :
                                         t \in Elements(Txs[e]) => Height[d] <= Height[e]
<1> DEFINE D == {d \in Ancestors[b] : t \in Elements(Txs[d])}
           H == {Height[d] : d \in D}
           P(h) == h \in H /\ \A d \in D : h <= Height[d]
<1>1. HeightIn(b, t) = CHOOSE h \in H : \A d \in D : h <= Height[d]
  BY DEF HeightIn
<1>2. H \in SUBSET Nat /\ H # {}
  BY ConfirmedIs, AncestorsHeight
<1>3. \E h : P(h)
  <2> HIDE DEF H
  <2>1. \E m \in H : \A k \in H : m <= k
    BY <1>2, LeastNatural
  <2> QED
    BY <2>1 DEF H
<1>4. HeightIn(b, t) = CHOOSE h : P(h)
  BY <1>1
<1>5. P(HeightIn(b, t))
  <2> HIDE DEF P
  <2> QED
    BY <1>3, <1>4
<1> QED
  BY <1>5

\* A transaction keeps its height on every longer chain.
LEMMA HeightInStays ==
    ASSUME NEW b \in Blocks, NEW a \in Ancestors[b], NEW t \in Confirmed[a]
    PROVE  HeightIn(b, t) = HeightIn(a, t) /\ t \in Confirmed[b] /\ HeightIn(a, t) \in Nat
<1>1. a \in Blocks /\ Ancestors[a] \subseteq Ancestors[b]
  BY AncestorsSelf, AncestorsTransitive
<1>2. t \in Confirmed[b]
  BY <1>1, ConfirmedIs
<1>3. PICK d \in Ancestors[a] : /\ t \in Elements(Txs[d]) /\ HeightIn(a, t) = Height[d]
                                /\ \A e \in Ancestors[a] :
                                      t \in Elements(Txs[e]) => Height[d] <= Height[e]
  BY <1>1, HeightInIs
<1>4. PICK f \in Ancestors[b] : /\ t \in Elements(Txs[f]) /\ HeightIn(b, t) = Height[f]
                                /\ \A e \in Ancestors[b] :
                                      t \in Elements(Txs[e]) => Height[f] <= Height[e]
  BY <1>2, HeightInIs
<1>5. Height[f] <= Height[d]
  BY <1>1, <1>3, <1>4
<1>6. Height[d] <= Height[f]
  <2>1. f \in Ancestors[a] \/ a \in Ancestors[f]
    BY <1>1, AncestorsTotal
  <2>2. CASE f \in Ancestors[a]
    BY <2>2, <1>3, <1>4
  <2>3. CASE a \in Ancestors[f]
    <3>1. /\ Height[a] \in Nat /\ Height[f] \in Nat /\ Height[d] \in Nat
          /\ a = f \/ Height[a] < Height[f]
          /\ d = a \/ Height[d] < Height[a]
      BY <1>1, <2>3, AncestorsHeight, AncestorsSelf
    <3> QED
      BY <3>1
  <2> QED
    BY <2>1, <2>2, <2>3
<1>7. Height[d] \in Nat /\ Height[f] \in Nat
  BY <1>1, AncestorsHeight
<1>8. Height[d] = Height[f]
  BY <1>5, <1>6, <1>7
<1> QED
  BY <1>2, <1>3, <1>4, <1>7, <1>8

\* A transaction that is new in a block has the height of the block.
LEMMA HeightInNew ==
    ASSUME NEW b \in Blocks \ {Genesis}, NEW t \in Elements(Txs[b]), t \notin Confirmed[Parent[b]]
    PROVE  HeightIn(b, t) = Height[b]
<1>1. t \in Confirmed[b]
  BY ConfirmedEquation
<1>2. PICK d \in Ancestors[b] : t \in Elements(Txs[d]) /\ HeightIn(b, t) = Height[d]
  BY <1>1, HeightInIs
<1>3. d \notin Ancestors[Parent[b]]
  BY <1>2, ConfirmedIs, ParentOK
<1> QED
  BY <1>2, <1>3, AncestorsEquation

\* The same coins, seen from a later block.
LEMMA CoinsStay ==
    ASSUME NEW b \in Blocks, NEW a \in Ancestors[b], NEW S \in SUBSET Confirmed[a]
    PROVE  CoinsAfter(S, b) = CoinsAfter(S, a)
<1>1. S \in SUBSET Txids
  BY AncestorsSelf, ConfirmedType
<1>2. ASSUME NEW p \in Txids PROVE CoinsAfter(S, b)[p] = CoinsAfter(S, a)[p]
  <2>1. p \in S => HeightIn(b, p) = HeightIn(a, p)
    BY HeightInStays
  <2>2. CASE p \in S
    <3> DEFINE r(h) == [outs |-> Left(S, p), base |-> Tx[p].kind = "coinbase",
                        stake |-> Tx[p].kind = "coinstake", height |-> h]
    <3>1. CoinsAfter(S, b)[p] = IF p \in S /\ Left(S, p) # {} THEN r(HeightIn(b, p)) ELSE NoCoins
      BY <1>1, CoinsAfterIs
    <3>2. CoinsAfter(S, a)[p] = IF p \in S /\ Left(S, p) # {} THEN r(HeightIn(a, p)) ELSE NoCoins
      BY <1>1, CoinsAfterIs
    <3> HIDE DEF r
    <3> QED
      BY <2>1, <2>2, <3>1, <3>2
  <2>3. CASE p \notin S
    BY <1>1, <2>3, CoinsAfterIs
  <2> QED
    BY <2>2, <2>3
<1> QED
  BY <1>2 DEF CoinsAfter

------------------------------------------------------------------------------
(* Valid chains.                                                            *)

\* The transactions of the chain up to the k-th of b, and the coins after them.
Prefix(b, k) == Confirmed[Parent[b]] \cup {Txs[b][i] : i \in 1 .. k}
CoinsTo(b, k) == CoinsAfter(Prefix(b, k), b)

\* The k-th transaction of b can be connected.
Connectable(b, k) ==
    /\ HaveInputs(CoinsTo(b, k - 1), Txs[b][k])
    /\ Mature(CoinsTo(b, k - 1), Txs[b][k], Height[b])

\* So can the chain up to the k-th transaction of b.
ValidTo(b, k) ==
    \A d \in Ancestors[b] \ {Genesis} : \A i \in DOMAIN Txs[d] :
        (d = b => i <= k) => Connectable(d, i)

Valid(b) == ValidTo(b, Len(Txs[b]))

\* What transactions of S spend was made by transactions of S.
SelfContained(S) == \A s \in S : \A o \in Inputs(s) : o[1] \in S

LEMMA PrefixType ==
    ASSUME NEW b \in Blocks \ {Genesis}, NEW k \in 0 .. Len(Txs[b])
    PROVE  /\ Prefix(b, k) \in SUBSET Txids /\ Prefix(b, k) \subseteq Confirmed[b]
           /\ Confirmed[Parent[b]] \subseteq Prefix(b, k)
<1>1. 1 .. k \subseteq 1 .. Len(Txs[b])
  BY BlockTxs
<1>2. \A i \in 1 .. k : Txs[b][i] \in Elements(Txs[b]) /\ Txs[b][i] \in Txids
  BY <1>1, BlockTxs DEF Elements
<1> QED
  BY <1>2, ConfirmedEquation, ConfirmedType, ParentOK DEF Prefix

LEMMA PrefixEnds ==
    ASSUME NEW b \in Blocks \ {Genesis}
    PROVE  Prefix(b, 0) = Confirmed[Parent[b]] /\ Prefix(b, Len(Txs[b])) = Confirmed[b]
<1>1. {Txs[b][i] : i \in 1 .. 0} = {}
  OBVIOUS
<1>2. {Txs[b][i] : i \in 1 .. Len(Txs[b])} = Elements(Txs[b])
  BY BlockTxs DEF Elements
<1> QED
  BY <1>1, <1>2, ConfirmedEquation DEF Prefix

LEMMA PrefixStep ==
    ASSUME NEW b \in Blocks \ {Genesis}, NEW k \in 1 .. Len(Txs[b])
    PROVE  /\ k - 1 \in 0 .. Len(Txs[b]) /\ k \in 0 .. Len(Txs[b]) /\ (k - 1) + 1 = k
           /\ Txs[b][k] \in Txids /\ Txs[b][k] \in Elements(Txs[b])
           /\ Prefix(b, k) = Prefix(b, k - 1) \cup {Txs[b][k]}
<1> DEFINE n == Len(Txs[b])
<1>1. n \in Nat /\ DOMAIN Txs[b] = 1 .. n
  BY BlockTxs
<1>2. k \in 1 .. n
  OBVIOUS
<1>3. Txs[b][k] \in Txids /\ Txs[b][k] \in Elements(Txs[b])
  BY <1>1, BlockTxs DEF Elements
<1> HIDE DEF n
<1>4. k - 1 \in 0 .. n /\ k \in 0 .. n /\ (k - 1) + 1 = k /\ 1 .. k = (1 .. (k - 1)) \cup {k}
  BY <1>1, <1>2
<1>5. Prefix(b, k) = Prefix(b, k - 1) \cup {Txs[b][k]}
  BY <1>4 DEF Prefix
<1> QED
  BY <1>3, <1>4, <1>5 DEF n

LEMMA ConnectableMeans ==
    ASSUME NEW b \in Blocks \ {Genesis}, NEW k \in 1 .. Len(Txs[b]), Connectable(b, k)
    PROVE  /\ \A o \in Inputs(Txs[b][k]) :
                 /\ o[1] \in Prefix(b, k - 1) /\ o[2] \in Tx[o[1]].outs
                 /\ o \notin Spent(Prefix(b, k - 1))
           /\ Txs[b][k] \notin Prefix(b, k - 1)
<1> DEFINE t == Txs[b][k]
           S == Prefix(b, k - 1)
<1>1. t \in Txids /\ S \in SUBSET Txids
  BY PrefixStep, PrefixType
<1>2. \A o \in Inputs(t) : o[1] \in S /\ o[2] \in Tx[o[1]].outs /\ o \notin Spent(S)
  <2>1. \A o \in Inputs(t) : IsAvailable(CoinsAfter(S, b), o)
    BY DEF Connectable, HaveInputs, CoinsTo
  <2> HIDE DEF S, t
  <2> QED
    BY <1>1, <2>1, Available, TxType
<1>3. ASSUME t \in S PROVE FALSE
  <2>1. Inputs(t) = {}
    BY <1>2, <1>3 DEF Spent
  <2>2. Tx[t].kind = "coinbase"
    BY <1>1, <2>1, TxType
  <2>3. k = 1
    BY <2>2, BlockAssumption, BlockTxs
  <2>4. t \in Confirmed[Parent[b]]
    <3>1. Prefix(b, 0) = Confirmed[Parent[b]]
      BY PrefixEnds
    <3> QED
      BY <1>3, <2>3, <3>1
  <2>5. PICK d \in Ancestors[Parent[b]] : t \in Elements(Txs[d])
    BY <2>4, ConfirmedIs, ParentOK
  <2>6. d \in Blocks /\ Height[d] < Height[b]
    BY ProperAncestor, AncestorsSelf, ParentOK
  <2>7. PICK i \in DOMAIN Txs[d] : t = Txs[d][i]
    BY <2>5 DEF Elements
  <2>8. i = 1
    BY <2>2, <2>6, <2>7, BlockAssumption
  <2>9. Txs[b] # <<>> /\ Txs[d] # <<>>
    BY <2>6, <2>7, <2>3, BlockTxs
  <2>10. Height[b] = Height[d]
    BY <2>3, <2>6, <2>7, <2>8, <2>9, HeightAssumption
  <2> QED
    BY <2>6, <2>10, HeightAssumption
<1> QED
  BY <1>2, <1>3

\* The chain up to a block is contained in the chain up to any later transaction.
LEMMA PrefixGrows ==
    ASSUME NEW b \in Blocks \ {Genesis}, NEW k \in 0 .. Len(Txs[b]),
           NEW d \in Ancestors[b] \ {Genesis}, NEW i \in 0 .. Len(Txs[d]), d = b => i <= k
    PROVE  Prefix(d, i) \subseteq Prefix(b, k)
<1>1. d \in Blocks
  BY AncestorsSelf
<1>2. CASE d = b
  <2>1. i <= k /\ k \in Nat /\ i \in Nat
    BY <1>2, BlockTxs
  <2>2. 1 .. i \subseteq 1 .. k
    BY <2>1
  <2> QED
    BY <1>2, <2>2 DEF Prefix
<1>3. CASE d # b
  <2>1. d \in Ancestors[Parent[b]]
    BY <1>3, ProperAncestor
  <2>2. Confirmed[d] \subseteq Confirmed[Parent[b]]
    BY <2>1, <1>1, ConfirmedIs, AncestorsTransitive, ParentOK
  <2> QED
    BY <1>1, <2>2, PrefixType
<1> QED
  BY <1>2, <1>3

\* Where a transaction is.
LEMMA PrefixMember ==
    ASSUME NEW b \in Blocks \ {Genesis}, NEW k \in 0 .. Len(Txs[b]), NEW s \in Prefix(b, k)
    PROVE  \E d \in Ancestors[b] \ {Genesis} : \E i \in DOMAIN Txs[d] :
               s = Txs[d][i] /\ (d = b => i <= k)
<1>1. CASE s \in Confirmed[Parent[b]]
  <2>1. PICK d \in Ancestors[Parent[b]] : s \in Elements(Txs[d])
    BY <1>1, ConfirmedIs, ParentOK
  <2>2. PICK i \in DOMAIN Txs[d] : s = Txs[d][i]
    BY <2>1 DEF Elements
  <2>3. d # Genesis
    BY <2>2, BlockAssumption
  <2>4. d \in Ancestors[b] /\ d # b
    BY ProperAncestor
  <2> QED
    BY <2>2, <2>3, <2>4
<1>2. CASE s \notin Confirmed[Parent[b]]
  <2>1. PICK i \in 1 .. k : s = Txs[b][i]
    BY <1>2 DEF Prefix
  <2>2. Len(Txs[b]) \in Nat /\ DOMAIN Txs[b] = 1 .. Len(Txs[b])
    BY BlockTxs
  <2>3. i \in DOMAIN Txs[b] /\ i <= k
    BY <2>2
  <2> QED
    BY <2>1, <2>3, AncestorsSelf
<1> QED
  BY <1>1, <1>2

LEMMA ValidSelfContained ==
    ASSUME NEW b \in Blocks \ {Genesis}, NEW k \in 0 .. Len(Txs[b]), ValidTo(b, k)
    PROVE  SelfContained(Prefix(b, k))
<1> SUFFICES ASSUME NEW s \in Prefix(b, k), NEW o \in Inputs(s) PROVE o[1] \in Prefix(b, k)
  BY DEF SelfContained
<1>0. PICK d \in Ancestors[b] \ {Genesis} : \E i \in DOMAIN Txs[d] :
          s = Txs[d][i] /\ (d = b => i <= k)
  BY PrefixMember
<1>1. PICK i \in DOMAIN Txs[d] : s = Txs[d][i] /\ (d = b => i <= k)
  BY <1>0
<1>2. d \in Blocks \ {Genesis} /\ i \in 1 .. Len(Txs[d])
  BY AncestorsSelf, BlockTxs
<1>3. Connectable(d, i)
  BY <1>1 DEF ValidTo
<1>4. o[1] \in Prefix(d, i - 1)
  BY <1>1, <1>2, <1>3, ConnectableMeans
<1>5. i - 1 \in 0 .. Len(Txs[d]) /\ (d = b => i - 1 <= k)
  <2>1. Len(Txs[d]) \in Nat /\ k \in Nat
    BY <1>2, BlockTxs
  <2> QED
    BY <1>1, <1>2, <2>1
<1>6. Prefix(d, i - 1) \subseteq Prefix(b, k)
  BY <1>5, PrefixGrows
<1> QED
  BY <1>4, <1>6

LEMMA ValidSteps ==
    ASSUME NEW b \in Blocks \ {Genesis}, NEW k \in 1 .. Len(Txs[b])
    PROVE  ValidTo(b, k) <=> (ValidTo(b, k - 1) /\ Connectable(b, k))
<1>1. b \in Ancestors[b] /\ DOMAIN Txs[b] = 1 .. Len(Txs[b]) /\ Len(Txs[b]) \in Nat
  BY AncestorsSelf, BlockTxs
<1>2. \A i \in DOMAIN Txs[b] : (i <= k) <=> (i <= k - 1 \/ i = k)
  BY <1>1
<1>3. k \in DOMAIN Txs[b] /\ k <= k
  BY <1>1
<1> QED
  BY <1>1, <1>2, <1>3 DEF ValidTo

\* A chain is valid up to the start of a block exactly if the parent is valid.
LEMMA ValidStart ==
    ASSUME NEW b \in Blocks \ {Genesis}
    PROVE  ValidTo(b, 0) <=> (Parent[b] # Genesis => Valid(Parent[b]))
<1>1. Ancestors[b] = {b} \cup Ancestors[Parent[b]] /\ b \notin Ancestors[Parent[b]]
  BY ProperAncestor
<1>2. \A i \in DOMAIN Txs[b] : ~ (i <= 0)
  BY BlockTxs
<1>3. ValidTo(b, 0) <=> \A d \in Ancestors[Parent[b]] \ {Genesis} : \A i \in DOMAIN Txs[d] :
                            Connectable(d, i)
  BY <1>1, <1>2 DEF ValidTo
<1>4. CASE Parent[b] = Genesis
  BY <1>3, <1>4, AncestorsEquation
<1>5. CASE Parent[b] # Genesis
  <2>1. Parent[b] \in Blocks
    BY ParentOK
  <2>2. \A i \in DOMAIN Txs[Parent[b]] : i <= Len(Txs[Parent[b]])
    BY <2>1, BlockTxs
  <2> QED
    BY <1>3, <1>5, <2>2 DEF Valid, ValidTo
<1> QED
  BY <1>4, <1>5

LEMMA ValidAncestors ==
    ASSUME NEW b \in Blocks \ {Genesis}, Valid(b), NEW d \in Ancestors[b] \ {Genesis},
           NEW k \in 0 .. Len(Txs[d])
    PROVE  ValidTo(d, k)
<1>1. Ancestors[d] \subseteq Ancestors[b]
  BY AncestorsTransitive
<1>2. \A i \in DOMAIN Txs[b] : i <= Len(Txs[b])
  BY BlockTxs
<1> QED
  BY <1>1, <1>2 DEF Valid, ValidTo

------------------------------------------------------------------------------
(* Connecting a transaction.                                                *)

\* What S with t leaves of p.
LEMMA LeftWith ==
    ASSUME NEW S \in SUBSET Txids, NEW t \in Txids, NEW p \in Txids
    PROVE  Left(S \cup {t}, p) = Left(S, p) \ OutsOf(p, Inputs(t))
<1>1. Spent(S \cup {t}) = Spent(S) \cup Inputs(t)
  BY DEF Spent
<1>2. OutsOf(p, Inputs(t)) = {n \in Nat : <<p, n>> \in Inputs(t)}
  BY TxType, OutsOfIs
<1>3. Tx[p].outs \in SUBSET Nat
  BY TxType
<1> QED
  BY <1>1, <1>2, <1>3 DEF Left

\* Nothing is spent of a transaction that is not there yet.
LEMMA LeftNew ==
    ASSUME NEW S \in SUBSET Txids, SelfContained(S), NEW t \in Txids \ S
    PROVE  Left(S \cup {t}, t) = Tx[t].outs
<1>1. ASSUME NEW s \in S \cup {t}, NEW n \in Tx[t].outs PROVE <<t, n>> \notin Inputs(s)
  <2>1. <<t, n>>[1] = t
    OBVIOUS
  <2> QED
    BY <2>1, TxType DEF SelfContained
<1>2. \A n \in Tx[t].outs : <<t, n>> \notin Spent(S \cup {t})
  BY <1>1 DEF Spent
<1> QED
  BY <1>2 DEF Left

\* CoinsAfterIs, without its quantifiers.
Coin(S, p, h) ==
    IF p \in S /\ Left(S, p) # {}
    THEN [outs |-> Left(S, p), base |-> Tx[p].kind = "coinbase",
          stake |-> Tx[p].kind = "coinstake", height |-> h]
    ELSE NoCoins

LEMMA CoinsAfterCoin ==
    ASSUME NEW S \in SUBSET Txids, NEW b, NEW p \in Txids
    PROVE  CoinsAfter(S, b)[p] = Coin(S, p, HeightIn(b, p))
BY CoinsAfterIs DEF Coin

LEMMA CoinFields ==
    ASSUME NEW S, NEW p, NEW h, p \in S, Left(S, p) # {}
    PROVE  /\ Coin(S, p, h).outs = Left(S, p)
           /\ Coin(S, p, h).base = (Tx[p].kind = "coinbase")
           /\ Coin(S, p, h).stake = (Tx[p].kind = "coinstake")
           /\ Coin(S, p, h).height = h
BY DEF Coin

LEMMA CoinOuts ==
    ASSUME NEW S, NEW p, NEW h, p \in S
    PROVE  Coin(S, p, h).outs = Left(S, p)
BY DEF Coin, NoCoins

\* Without takes outputs from a coin.
LEMMA CoinWithout ==
    ASSUME NEW S \in SUBSET Txids, NEW t \in Txids, NEW p \in Txids \ {t}, NEW h
    PROVE  Without(Coin(S, p, h), OutsOf(p, Inputs(t))) = Coin(S \cup {t}, p, h)
<1> DEFINE X == OutsOf(p, Inputs(t))
           L == Left(S, p)
<1>1. Left(S \cup {t}, p) = L \ X
  BY LeftWith
<1>2. p \in S \cup {t} <=> p \in S
  OBVIOUS
<1> HIDE DEF X, L
<1>3. CASE p \in S /\ L # {}
  <2>1. Coin(S, p, h) = [outs |-> L, base |-> Tx[p].kind = "coinbase",
                         stake |-> Tx[p].kind = "coinstake", height |-> h]
    BY <1>3 DEF Coin, L
  <2>2. Coin(S \cup {t}, p, h) =
            IF L \ X # {} THEN [outs |-> L \ X, base |-> Tx[p].kind = "coinbase",
                                stake |-> Tx[p].kind = "coinstake", height |-> h]
            ELSE NoCoins
    BY <1>1, <1>2, <1>3 DEF Coin
  <2>3. Without(Coin(S, p, h), X) = Coin(S \cup {t}, p, h)
    BY <2>1, <2>2 DEF Without
  <2> QED
    BY <2>3 DEF X
<1>4. CASE ~ (p \in S /\ L # {})
  <2>1. Coin(S, p, h) = NoCoins
    BY <1>4 DEF Coin, L
  <2>2. Coin(S \cup {t}, p, h) = NoCoins
    BY <1>1, <1>2, <1>4 DEF Coin
  <2>3. Without(NoCoins, X) = NoCoins
    BY DEF Without, NoCoins
  <2> QED
    BY <2>1, <2>2, <2>3 DEF X
<1> QED
  BY <1>3, <1>4

\* UpdateCoins goes from the coins of one prefix to those of the next.
LEMMA ConnectStep ==
    ASSUME NEW b \in Blocks \ {Genesis}, NEW k \in 1 .. Len(Txs[b]),
           SelfContained(Prefix(b, k - 1)), Txs[b][k] \notin Prefix(b, k - 1)
    PROVE  UpdateCoins(CoinsTo(b, k - 1), Txs[b][k], Height[b]) = CoinsTo(b, k)
<1> DEFINE S == Prefix(b, k - 1)
           t == Txs[b][k]
           c == CoinsAfter(S, b)
           d == CoinsAfter(S \cup {t}, b)
<1>1. t \in Txids \ S /\ S \in SUBSET Txids /\ Prefix(b, k) = S \cup {t} /\ t \in Elements(Txs[b])
  BY PrefixStep, PrefixType
<1>2. t \notin Confirmed[Parent[b]]
  BY <1>1, PrefixType, PrefixStep
<1>3. HeightIn(b, t) = Height[b]
  BY <1>1, <1>2, HeightInNew
<1>4. SelfContained(S)
  OBVIOUS
<1> HIDE DEF S, t
<1>5. d[t] = FromTx(t, Height[b])
  <2>1. d[t] = Coin(S \cup {t}, t, Height[b])
    BY <1>1, <1>3, CoinsAfterCoin
  <2>2. Left(S \cup {t}, t) = Tx[t].outs
    BY <1>1, <1>4, LeftNew
  <2> QED
    BY <2>1, <2>2 DEF Coin, FromTx
<1>6. ASSUME NEW p \in Txids \ {t}
      PROVE  d[p] = Without(c[p], OutsOf(p, Inputs(t)))
  <2>1. c[p] = Coin(S, p, HeightIn(b, p)) /\ d[p] = Coin(S \cup {t}, p, HeightIn(b, p))
    BY <1>1, CoinsAfterCoin
  <2> QED
    BY <1>1, <2>1, CoinWithout
<1>7. d = [p \in Txids |-> d[p]]
  BY CoinsAfterDomain
<1> HIDE DEF c, d
<1>8. d = UpdateCoins(c, t, Height[b])
  BY <1>5, <1>6, <1>7 DEF UpdateCoins
<1> QED
  BY <1>1, <1>8 DEF c, d, S, t, CoinsTo

------------------------------------------------------------------------------
(* Disconnecting a transaction.                                             *)

\* No coinstake is ever spent completely.  (DisconnectBlock does not restore
\* fCoinStake; wallets do not spend the empty output of a coinstake.)
StakesKeepOutput ==
    \A t \in Txids : Tx[t].kind = "coinstake" =>
        \E n \in Tx[t].outs : \A s \in Txids : <<t, n>> \notin Inputs(s)

\* A set of indices has a greatest one.
LEMMA GreatestIndex ==
    ASSUME NEW n \in Nat, NEW K \in SUBSET (1 .. n), K # {}
    PROVE  \E m \in K : \A k \in K : k <= m
<1> DEFINE D == {n - k : k \in K}
<1>1. D \in SUBSET Nat /\ D # {}
  <2>1. \A k \in K : n - k \in Nat
    OBVIOUS
  <2> QED
    BY <2>1
<1>2. PICK x \in D : \A y \in D : x <= y
  <2> HIDE DEF D
  <2> QED
    BY <1>1, LeastNatural
<1>3. PICK m \in K : x = n - m
  BY <1>2
<1>4. \A k \in K : n - m <= n - k
  BY <1>2, <1>3
<1>5. \A k \in K : k <= m
  BY <1>4
<1> QED
  BY <1>5

\* The undo data of a transaction keeps the metadata of those that it spends
\* to the end, and no other's.
LEMMA MetaForIs ==
    ASSUME NEW t \in Txids, NEW p \in Txids, NEW c, NEW u,
           \A o \in Inputs(t) : u[o] = SpendUndo(c, t)[o],
           OutsOf(p, Inputs(t)) # {}, MetaOf(c[p]) # NoMeta
    PROVE  MetaFor(u, t, p) =
               IF c[p].outs \subseteq OutsOf(p, Inputs(t)) THEN MetaOf(c[p]) ELSE NoMeta
<1> DEFINE X == OutsOf(p, Inputs(t))
           Q == {q \in Inputs(t) : q[1] = p}
           ins == Tx[t].ins
           idx(o) == CHOOSE k \in DOMAIN ins : ins[k] = o
           upto(i) == {ins[k] : k \in 1 .. i}
           n == Len(ins)
           M == MetaOf(c[p])
<1>1. ins \in Seq(Outpoints) /\ n \in Nat /\ DOMAIN ins = 1 .. n
  BY TxType
<1>2. Inputs(t) = {ins[k] : k \in 1 .. n}
  BY <1>1 DEF Inputs, Elements
<1>3. \A i, j \in 1 .. n : ins[i] = ins[j] => i = j
  BY <1>1, TransactionAssumption
<1>4. ASSUME NEW k \in 1 .. n PROVE idx(ins[k]) = k
  <2>1. \E j \in 1 .. n : ins[j] = ins[k]
    OBVIOUS
  <2>2. idx(ins[k]) \in 1 .. n /\ ins[idx(ins[k])] = ins[k]
    <3> HIDE DEF ins, n
    <3> QED
      BY <1>1, <2>1
  <2> QED
    BY <1>3, <2>2
<1>5. ASSUME NEW k \in 1 .. n, ins[k][1] = p
      PROVE  u[ins[k]] = IF c[p].outs \subseteq OutsOf(p, upto(k)) THEN M ELSE NoMeta
  <2>1. ins[k] \in Inputs(t)
    BY <1>2
  <2>2. u[ins[k]] = IF c[ins[k][1]].outs \subseteq OutsOf(ins[k][1], upto(idx(ins[k])))
                    THEN MetaOf(c[ins[k][1]]) ELSE NoMeta
    BY <2>1 DEF SpendUndo
  <2>3. idx(ins[k]) = k
    BY <1>4
  <2> HIDE DEF idx, upto
  <2> QED
    BY <1>5, <2>2, <2>3
<1>6. \A k \in 1 .. n : upto(k) \subseteq Inputs(t)
  BY <1>1, <1>2
<1>7. \A k \in 1 .. n : OutsOf(p, upto(k)) \subseteq X
  BY <1>6 DEF OutsOf
<1> DEFINE kept == {u[o] : o \in Q} \ {NoMeta}
<1>8. MetaFor(u, t, p) = IF kept = {} THEN NoMeta ELSE CHOOSE m \in kept : TRUE
  BY DEF MetaFor
<1>9. \A o \in Q : \E k \in 1 .. n : o = ins[k] /\ ins[k][1] = p
  BY <1>2
<1> HIDE DEF idx, upto
<1>10. CASE ~ (c[p].outs \subseteq X)
  <2>1. \A k \in 1 .. n : ~ (c[p].outs \subseteq OutsOf(p, upto(k)))
    BY <1>7, <1>10
  <2>2. \A o \in Q : u[o] = NoMeta
    BY <1>5, <1>9, <2>1
  <2>3. kept = {}
    BY <2>2
  <2> QED
    BY <1>8, <1>10, <2>3
<1>11. CASE c[p].outs \subseteq X
  <2>1. kept \subseteq {M}
    BY <1>5, <1>9
  <2>2. M \in kept
    <3> DEFINE K == {k \in 1 .. n : ins[k][1] = p}
    <3>1. K # {}
      BY <1>2 DEF OutsOf
    <3>2. PICK m \in K : \A k \in K : k <= m
      <4> HIDE DEF K, n
      <4>1. K \in SUBSET (1 .. n)
        BY DEF K
      <4> QED
        BY <1>1, <3>1, <4>1, GreatestIndex
    <3>3. Q \subseteq upto(m)
      BY <1>1, <1>9, <3>2 DEF upto
    <3>4. X \subseteq OutsOf(p, upto(m))
      BY <3>3 DEF OutsOf
    <3>5. u[ins[m]] = M
      BY <1>5, <1>11, <3>4
    <3>6. ins[m] \in Q
      BY <1>2
    <3> QED
      BY <3>5, <3>6
  <2>3. kept = {M}
    BY <2>1, <2>2
  <2> QED
    BY <1>8, <1>11, <2>3
<1> QED
  BY <1>10, <1>11

\* Transactions are in blocks after the genesis block.
LEMMA HeightInPositive ==
    ASSUME NEW b \in Blocks, NEW t \in Confirmed[b]
    PROVE  HeightIn(b, t) \in Nat \ {0}
<1>1. PICK d \in Ancestors[b] : t \in Elements(Txs[d]) /\ HeightIn(b, t) = Height[d]
  BY HeightInIs
<1>2. d \in Blocks \ {Genesis}
  BY <1>1, AncestorsSelf, BlockAssumption DEF Elements
<1> QED
  BY <1>1, <1>2, ParentOK

\* Outputs X of a coin are spent and restored: the coin is as before, the metadata
\* is there exactly if nothing was left, and no output was left that is restored.
Restores(cc, X, m, h) ==
    /\ Restore(Without(cc, X), X, m, h) = cc
    /\ (m # NoMeta) <=> (Without(cc, X) = NoCoins)
    /\ Without(cc, X).outs \cap X = {}

\* One transaction p that t, connected after S, spends some of.
LEMMA SpentCoin ==
    ASSUME StakesKeepOutput,
           NEW b \in Blocks, NEW S \in SUBSET Confirmed[b], NEW t \in Txids \ S,
           \A o \in Inputs(t) : o[1] \in S /\ o[2] \in Tx[o[1]].outs /\ o \notin Spent(S),
           NEW p \in Txids \ {t}, OutsOf(p, Inputs(t)) # {}, NEW u,
           \A o \in Inputs(t) : u[o] = SpendUndo(CoinsAfter(S, b), t)[o], NEW h
    PROVE  Restores(CoinsAfter(S, b)[p], OutsOf(p, Inputs(t)), MetaFor(u, t, p), h)
<1> DEFINE X == OutsOf(p, Inputs(t))
           cc == CoinsAfter(S, b)[p]
           dd == Without(cc, X)
           m == MetaFor(u, t, p)
           L == Left(S, p)
           hp == HeightIn(b, p)
           base == Tx[p].kind = "coinbase"
           stake == Tx[p].kind = "coinstake"
<1>1. S \in SUBSET Txids
  BY ConfirmedType
<1>2. X = {n \in Nat : <<p, n>> \in Inputs(t)}
  BY TxType, OutsOfIs
<1>3. \A n \in X : p \in S /\ n \in L
  <2> SUFFICES ASSUME NEW n \in X PROVE p \in S /\ n \in L
    OBVIOUS
  <2>1. <<p, n>> \in Inputs(t) /\ <<p, n>>[1] = p /\ <<p, n>>[2] = n
    BY <1>2
  <2> QED
    BY <2>1 DEF Left
<1>4. p \in S /\ X \subseteq L /\ L # {} /\ X # {}
  BY <1>3
<1>5. hp \in Nat \ {0}
  BY <1>4, HeightInPositive
<1>6. cc = [outs |-> L, base |-> base, stake |-> stake, height |-> hp]
  BY <1>1, <1>4, CoinsAfterIs
<1>7. MetaOf(cc) = [base |-> base, stake |-> stake, height |-> hp]
  BY <1>6 DEF MetaOf
<1>8. MetaOf(cc) # NoMeta
  <2>1. MetaOf(cc).height = hp /\ NoMeta.height = 0
    BY <1>7 DEF NoMeta
  <2> QED
    BY <1>5, <2>1
<1>9. m = IF cc.outs \subseteq X THEN MetaOf(cc) ELSE NoMeta
  BY <1>4, <1>8, MetaForIs
<1>10. cc.outs = L
  BY <1>6
<1>11. L \subseteq X => ~ stake
  <2> SUFFICES ASSUME L \subseteq X, Tx[p].kind = "coinstake" PROVE FALSE
    OBVIOUS
  <2>1. PICK n \in Tx[p].outs : \A s \in Txids : <<p, n>> \notin Inputs(s)
    BY DEF StakesKeepOutput
  <2>2. n \in L
    BY <1>1, <2>1 DEF Left, Spent
  <2>3. n \notin X
    BY <1>2, <2>1
  <2> QED
    BY <2>2, <2>3
<1> HIDE DEF X, cc, m, L, hp, base, stake
<1>12. CASE L \subseteq X
  <2>1. L = X
    BY <1>4, <1>12
  <2>2. dd = NoCoins
    BY <1>10, <1>12 DEF Without
  <2>3. m = [base |-> base, stake |-> stake, height |-> hp] /\ m # NoMeta
    BY <1>7, <1>8, <1>9, <1>10, <1>12
  <2>4. Restore(dd, X, m, h) = [outs |-> X, base |-> m.base, stake |-> FALSE, height |-> m.height]
    BY <1>4, <2>3 DEF Restore
  <2>5. m.base = base /\ m.height = hp
    BY <2>3
  <2>6. stake = FALSE
    BY <1>11, <1>12 DEF stake
  <2>7. Restore(dd, X, m, h) = cc
    BY <1>6, <2>1, <2>4, <2>5, <2>6
  <2>8. dd.outs = {}
    BY <2>2 DEF NoCoins
  <2> QED
    BY <2>2, <2>3, <2>7, <2>8 DEF X, cc, m, Restores
<1>13. CASE ~ (L \subseteq X)
  <2>1. dd = [cc EXCEPT !.outs = @ \ X]
    BY <1>10, <1>13 DEF Without
  <2>2. dd = [outs |-> L \ X, base |-> base, stake |-> stake, height |-> hp]
    BY <1>6, <2>1
  <2>3. m = NoMeta
    BY <1>9, <1>10, <1>13
  <2>4. Restore(dd, X, m, h) = [dd EXCEPT !.outs = @ \cup X]
    BY <1>4, <2>3 DEF Restore
  <2>5. (L \ X) \cup X = L
    BY <1>4
  <2>6. [dd EXCEPT !.outs = @ \cup X]
            = [outs |-> (L \ X) \cup X, base |-> base, stake |-> stake, height |-> hp]
    <3> DEFINE A == L \ X
               B == A \cup X
    <3> HIDE DEF dd, A
    <3>1. dd = [outs |-> A, base |-> base, stake |-> stake, height |-> hp]
      BY <2>2 DEF A
    <3>2. [dd EXCEPT !.outs = @ \cup X] = [dd EXCEPT !.outs = B]
      BY <3>1
    <3> HIDE DEF B
    <3>3. [dd EXCEPT !.outs = B] = [outs |-> B, base |-> base, stake |-> stake, height |-> hp]
      BY <3>1
    <3> QED
      BY <3>2, <3>3 DEF A, B
  <2>7. Restore(dd, X, m, h) = cc
    BY <1>6, <2>4, <2>5, <2>6
  <2>8. dd.outs = L \ X
    BY <2>2
  <2>9. dd # NoCoins
    <3>1. NoCoins.outs = {}
      BY DEF NoCoins
    <3> QED
      BY <1>13, <2>8, <3>1
  <2> QED
    BY <2>3, <2>7, <2>8, <2>9 DEF X, cc, m, Restores
<1> QED
  BY <1>12, <1>13

\* A round of DisconnectBlock goes back to the coins before the transaction, and
\* finds nothing wrong.
LEMMA DisconnectStep ==
    ASSUME StakesKeepOutput,
           NEW b \in Blocks \ {Genesis}, NEW k \in 1 .. Len(Txs[b]), ValidTo(b, k), NEW u,
           \A o \in Inputs(Txs[b][k]) : u[o] = SpendUndo(CoinsTo(b, k - 1), Txs[b][k])[o]
    PROVE  /\ UndoTx(CoinsTo(b, k), Txs[b][k], u, Height[b]) = CoinsTo(b, k - 1)
           /\ CleanTx(CoinsTo(b, k), Txs[b][k], u, Height[b])
<1> DEFINE S == Prefix(b, k - 1)
           t == Txs[b][k]
           c == CoinsAfter(S, b)
           d == CoinsTo(b, k)
           h == Height[b]
           X(p) == OutsOf(p, Inputs(t))
           m(p) == MetaFor(u, t, p)
<1>1. ValidTo(b, k - 1) /\ Connectable(b, k)
  BY ValidSteps
<1>2. k - 1 \in 0 .. Len(Txs[b]) /\ t \in Txids
  BY PrefixStep
<1>3. SelfContained(S) /\ S \in SUBSET Confirmed[b] /\ S \in SUBSET Txids
  BY <1>1, <1>2, ValidSelfContained, PrefixType
<1>4. t \in Txids \ S
      /\ \A o \in Inputs(t) : o[1] \in S /\ o[2] \in Tx[o[1]].outs /\ o \notin Spent(S)
  BY <1>1, <1>2, ConnectableMeans
<1>5. d = UpdateCoins(c, t, h)
  BY <1>3, <1>4, ConnectStep DEF CoinsTo
<1>6. \A o \in Inputs(t) : u[o] = SpendUndo(c, t)[o]
  BY DEF CoinsTo
<1> HIDE DEF S, t, c, d, h
<1>7. d[t] = FromTx(t, h) /\ \A p \in Txids \ {t} : d[p] = Without(c[p], X(p))
  BY <1>2, <1>5 DEF UpdateCoins
<1>8. c[t] = NoCoins
  <2>1. c[t] = Coin(S, t, HeightIn(b, t))
    BY <1>2, <1>3, CoinsAfterCoin DEF c
  <2> QED
    BY <1>4, <2>1 DEF Coin
<1>9. ASSUME NEW p \in Txids \ {t}, X(p) # {}
      PROVE  /\ Restore(d[p], X(p), m(p), h) = c[p]
             /\ (m(p) # NoMeta) <=> (d[p] = NoCoins)
             /\ d[p].outs \cap X(p) = {}
  <2>1. d[p] = Without(c[p], X(p))
    BY <1>7
  <2>2. Restores(CoinsAfter(S, b)[p], OutsOf(p, Inputs(t)), MetaFor(u, t, p), h)
    BY <1>3, <1>4, <1>6, <1>9, SpentCoin DEF c
  <2> QED
    BY <2>1, <2>2 DEF c, Restores
<1>10. ASSUME NEW p \in Txids \ {t}, X(p) = {} PROVE Restore(d[p], X(p), m(p), h) = c[p]
  <2>1. Without(Coin(S, p, HeightIn(b, p)), X(p)) = Coin(S \cup {t}, p, HeightIn(b, p))
    BY <1>2, <1>3, CoinWithout
  <2>2. Left(S \cup {t}, p) = Left(S, p)
    <3>1. Left(S \cup {t}, p) = Left(S, p) \ X(p)
      BY <1>2, <1>3, LeftWith
    <3> QED
      BY <1>10, <3>1
  <2>3. Coin(S \cup {t}, p, HeightIn(b, p)) = Coin(S, p, HeightIn(b, p))
    BY <2>2 DEF Coin
  <2>4. c[p] = Coin(S, p, HeightIn(b, p))
    BY <1>3, CoinsAfterCoin DEF c
  <2>5. d[p] = c[p]
    BY <1>7, <2>1, <2>3, <2>4
  <2> QED
    BY <1>10, <2>5 DEF Restore
<1>11. c = [p \in Txids |-> c[p]]
  BY CoinsAfterDomain DEF c
<1>12. UndoTx(d, t, u, h) = c
  <2> HIDE DEF X, m
  <2>1. UndoTx(d, t, u, h) = [p \in Txids |-> IF p = t THEN NoCoins ELSE Restore(d[p], X(p), m(p), h)]
    BY DEF UndoTx, X, m
  <2>2. \A p \in Txids : c[p] = IF p = t THEN NoCoins ELSE Restore(d[p], X(p), m(p), h)
    BY <1>8, <1>9, <1>10
  <2> QED
    BY <1>11, <2>1, <2>2
<1>13. CleanTx(d, t, u, h)
  <2>1. ASSUME NEW o \in Inputs(t)
        PROVE  /\ (MetaFor(u, t, o[1]) # NoMeta) <=> d[o[1]] = NoCoins
               /\ ~ IsAvailable(d, o)
    <3>1. o[1] \in Txids \ {t} /\ o[2] \in Nat /\ o = <<o[1], o[2]>>
      BY <1>2, TxType
    <3>2. o[2] \in X(o[1])
      BY <1>2, <3>1, OutsOfIs, TxType
    <3>3. /\ (m(o[1]) # NoMeta) <=> (d[o[1]] = NoCoins)
          /\ d[o[1]].outs \cap X(o[1]) = {}
      BY <1>9, <3>1, <3>2
    <3> QED
      BY <3>2, <3>3 DEF IsAvailable
  <2> QED
    BY <1>7, <2>1 DEF CleanTx
<1> QED
  BY <1>12, <1>13 DEF c, d, t, h, S, CoinsTo

------------------------------------------------------------------------------
(* The active chain.                                                        *)

\* Of two transactions of a valid chain at different places the one is before the
\* other.
Earlier(d, i, e, j) ==
    d \in Ancestors[e] /\ (d = e => i < j)

LEMMA EarlierTotal ==
    ASSUME NEW b \in Blocks, NEW d \in Ancestors[b], NEW e \in Ancestors[b],
           NEW i \in DOMAIN Txs[d], NEW j \in DOMAIN Txs[e]
    PROVE  (d = e /\ i = j) \/ Earlier(d, i, e, j) \/ Earlier(e, j, d, i)
<1>1. d \in Blocks /\ e \in Blocks
  BY AncestorsSelf
<1>2. d \in Ancestors[e] \/ e \in Ancestors[d]
  BY AncestorsTotal
<1>3. CASE d = e
  <2>1. i \in Nat /\ j \in Nat /\ d \in Ancestors[d]
    BY <1>1, BlockTxs, AncestorsSelf
  <2>2. i = j \/ i < j \/ j < i
    BY <2>1
  <2> QED
    BY <1>3, <2>1, <2>2 DEF Earlier
<1>4. CASE d # e
  BY <1>2, <1>4 DEF Earlier
<1> QED
  BY <1>3, <1>4

\* An earlier transaction is in the prefix before the later one.
LEMMA EarlierInPrefix ==
    ASSUME NEW e \in Blocks \ {Genesis}, NEW j \in DOMAIN Txs[e], NEW d, NEW i \in DOMAIN Txs[d],
           Earlier(d, i, e, j)
    PROVE  Txs[d][i] \in Prefix(e, j - 1)
<1>1. d \in Blocks /\ d \in Ancestors[e]
  BY AncestorsSelf DEF Earlier
<1>2. CASE d = e
  <2>1. i \in 1 .. (j - 1)
    BY <1>1, <1>2, BlockTxs DEF Earlier
  <2> QED
    BY <1>2, <2>1 DEF Prefix
<1>3. CASE d # e
  <2>1. d \in Ancestors[Parent[e]]
    BY <1>1, <1>3, ProperAncestor
  <2>2. Txs[d][i] \in Elements(Txs[d])
    BY DEF Elements
  <2>3. Txs[d][i] \in Confirmed[Parent[e]]
    BY <2>1, <2>2, ConfirmedIs, ParentOK
  <2> QED
    BY <2>3 DEF Prefix
<1> QED
  BY <1>2, <1>3

\* A valid chain has every transaction once, and spends every output once.
LEMMA ValidOnce ==
    ASSUME NEW b \in Blocks \ {Genesis}, Valid(b),
           NEW d \in Ancestors[b], NEW e \in Ancestors[b],
           NEW i \in DOMAIN Txs[d], NEW j \in DOMAIN Txs[e], Earlier(d, i, e, j)
    PROVE  Txs[d][i] # Txs[e][j] /\ Inputs(Txs[d][i]) \cap Inputs(Txs[e][j]) = {}
<1>1. e \in Blocks \ {Genesis}
  BY AncestorsSelf, BlockAssumption
<1>2. j \in 1 .. Len(Txs[e])
  BY <1>1, BlockTxs
<1>3. Connectable(e, j)
  BY <1>1, <1>2, BlockTxs DEF Valid, ValidTo
<1>4. Txs[d][i] \in Prefix(e, j - 1)
  BY <1>1, EarlierInPrefix
<1>5. /\ \A o \in Inputs(Txs[e][j]) : o \notin Spent(Prefix(e, j - 1))
      /\ Txs[e][j] \notin Prefix(e, j - 1)
  BY <1>1, <1>2, <1>3, ConnectableMeans
<1> QED
  BY <1>4, <1>5 DEF Spent

\* On a valid chain a transaction is where HeightIn says.
LEMMA ValidHeight ==
    ASSUME NEW b \in Blocks \ {Genesis}, Valid(b),
           NEW d \in Ancestors[b], NEW e \in Ancestors[b], NEW i \in DOMAIN Txs[d],
           Txs[d][i] \in Confirmed[e]
    PROVE  HeightIn(e, Txs[d][i]) = Height[d] /\ d \in Ancestors[e]
<1>1. e \in Blocks
  BY AncestorsSelf
<1>2. PICK f \in Ancestors[e] : Txs[d][i] \in Elements(Txs[f]) /\ HeightIn(e, Txs[d][i]) = Height[f]
  BY <1>1, HeightInIs
<1>3. PICK k \in DOMAIN Txs[f] : Txs[d][i] = Txs[f][k]
  BY <1>2 DEF Elements
<1>4. f \in Ancestors[b]
  BY AncestorsTransitive
<1>5. ~ Earlier(d, i, f, k) /\ ~ Earlier(f, k, d, i)
  BY <1>3, <1>4, ValidOnce
<1>6. f = d
  BY <1>4, <1>5, EarlierTotal
<1> QED
  BY <1>2, <1>6

LEMMA ValidOrder ==
    ASSUME NEW b \in Blocks \ {Genesis}, Valid(b),
           NEW d \in Ancestors[b], NEW e \in Ancestors[b],
           NEW i \in DOMAIN Txs[d], NEW j \in DOMAIN Txs[e],
           OutsOf(Txs[d][i], Inputs(Txs[e][j])) # {}
    PROVE  /\ Height[d] < Height[e] \/ (d = e /\ i < j)
           /\ Tx[Txs[d][i]].kind # "plain" => Height[e] - Height[d] >= Maturity
<1> DEFINE s == Txs[d][i]
           t == Txs[e][j]
           S == Prefix(e, j - 1)
           c == CoinsAfter(S, e)
<1>1. e \in Blocks \ {Genesis} /\ d \in Blocks
  BY AncestorsSelf, BlockAssumption
<1>2. j \in 1 .. Len(Txs[e]) /\ s \in Txids /\ t \in Txids
  BY <1>1, BlockTxs
<1>3. Connectable(e, j)
  BY <1>1, <1>2, BlockTxs DEF Valid, ValidTo
<1>4. PICK o \in Inputs(t) : o[1] = s
  BY DEF OutsOf
<1>5. s \in S /\ o[2] \in Tx[s].outs /\ o \notin Spent(S) /\ o = <<s, o[2]>>
  BY <1>1, <1>2, <1>3, <1>4, ConnectableMeans, TxType
<1>6. j - 1 \in 0 .. Len(Txs[e]) /\ S \in SUBSET Txids /\ S \subseteq Confirmed[e]
  BY <1>1, <1>2, PrefixStep, PrefixType
<1>7. HeightIn(e, s) = Height[d] /\ d \in Ancestors[e]
  BY <1>5, <1>6, ValidHeight
<1>8. Height[d] < Height[e] \/ (d = e /\ i < j)
  <2>1. ~ Earlier(e, j, d, i)
    <3> SUFFICES ASSUME Earlier(e, j, d, i) PROVE FALSE
      OBVIOUS
    <3>1. d \in Blocks \ {Genesis}
      BY <1>1, BlockAssumption
    <3>2. t \in Prefix(d, i - 1)
      BY <3>1, EarlierInPrefix
    <3>3. Connectable(d, i) /\ i \in 1 .. Len(Txs[d])
      BY <3>1, <1>1, BlockTxs DEF Valid, ValidTo
    <3>4. s \notin Prefix(d, i - 1) /\ i - 1 \in 0 .. Len(Txs[d])
      BY <3>1, <3>3, ConnectableMeans, PrefixStep
    <3>5. SelfContained(Prefix(d, i - 1))
      BY <3>1, <3>4, ValidAncestors, ValidSelfContained
    <3> QED
      BY <1>4, <3>2, <3>4, <3>5 DEF SelfContained
  <2>2. ~ (d = e /\ i = j)
    <3> SUFFICES ASSUME d = e, i = j PROVE FALSE
      OBVIOUS
    <3> QED
      BY <1>2, <1>4, TxType
  <2>3. Earlier(d, i, e, j)
    BY <2>1, <2>2, EarlierTotal
  <2> QED
    BY <1>1, <2>3, AncestorsHeight DEF Earlier
<1>9. Tx[s].kind # "plain" => Height[e] - Height[d] >= Maturity
  <2> SUFFICES ASSUME Tx[s].kind # "plain" PROVE Height[e] - Height[d] >= Maturity
    OBVIOUS
  <2> HIDE DEF s, t, S
  <2>1. c[s] = Coin(S, s, Height[d])
    BY <1>2, <1>6, <1>7, CoinsAfterCoin
  <2>2. Left(S, s) # {}
    BY <1>5 DEF Left
  <2>3. /\ c[s].base = (Tx[s].kind = "coinbase") /\ c[s].stake = (Tx[s].kind = "coinstake")
        /\ c[s].height = Height[d]
    BY <1>5, <2>1, <2>2, CoinFields
  <2>4. Tx[s].kind \in {"coinbase", "coinstake", "plain"}
    BY <1>2, TransactionAssumption
  <2>5. c[s].base \/ c[s].stake
    BY <2>3, <2>4
  <2>6. Mature(c, t, Height[e])
    BY <1>3 DEF Connectable, CoinsTo, S, t
  <2>7. Height[e] - c[o[1]].height >= Maturity
    BY <1>4, <2>5, <2>6 DEF Mature
  <2> QED
    BY <1>4, <2>3, <2>7
<1> QED
  BY <1>8, <1>9

LEMMA ValidChain ==
    ASSUME NEW b \in Blocks \ {Genesis}, Valid(b),
           NEW d \in Ancestors[b], NEW e \in Ancestors[b],
           NEW i \in DOMAIN Txs[d], NEW j \in DOMAIN Txs[e], <<d, i>> # <<e, j>>
    PROVE  Txs[d][i] # Txs[e][j] /\ Inputs(Txs[d][i]) \cap Inputs(Txs[e][j]) = {}
<1>1. ~ (d = e /\ i = j)
  OBVIOUS
<1>2. Earlier(d, i, e, j) \/ Earlier(e, j, d, i)
  BY <1>1, EarlierTotal
<1> QED
  BY <1>2, ValidOnce

------------------------------------------------------------------------------
(* The invariant.                                                           *)

UndoType == UNION {[D -> Meta] : D \in SUBSET Outpoints}

JobType ==
    [op : {"idle", "connect", "disconnect", "verify", "reconnect"}, block : Blocks, pos : Nat,
     undo : UndoType, clean : BOOLEAN, level : Nat, low : Int]

\* u has what ConnectBlock has to remember of the first k transactions of b.
UndoFor(u, b, k) ==
    /\ u \in UndoType
    /\ \A i \in 1 .. k : \A o \in Inputs(Txs[b][i]) :
          o \in DOMAIN u /\ u[o] = SpendUndo(CoinsTo(b, i - 1), Txs[b][i])[o]

\* The rest of TypeOK.
RestOK ==
    /\ received \subseteq Blocks
    /\ DOMAIN stakeSpent \subseteq Outpoints
    /\ \A o \in DOMAIN stakeSpent : stakeSpent[o] \in Nat
    /\ top \in Nat /\ verifies \in Nat /\ restarts \in Nat

\* Blocks that were connected once are valid and have their undo data, their
\* ancestors too; the tip is one of them.
BlocksOK ==
    /\ tip \in {Genesis} \cup DOMAIN undo
    /\ DOMAIN undo \subseteq Blocks \ {Genesis}
    /\ \A d \in DOMAIN undo : /\ Valid(d) /\ UndoFor(undo[d], d, Len(Txs[d]))
                              /\ Ancestors[d] \ {Genesis} \subseteq DOMAIN undo

\* The coins are those of the tip, and the view is where the job says.
CoinsOK ==
    /\ coins = CoinsAfter(Confirmed[tip], tip)
    /\ job.op = "idle" => view = coins
    /\ job.op # "idle" => view = CoinsTo(job.block, job.pos)

\* What a job works on.
JobOK ==
    /\ job \in JobType /\ job.pos \in 0 .. Len(Txs[job.block]) /\ job.clean
    /\ job.op = "idle" => job = Idle
    /\ job.op # "idle" => job.block # Genesis
    /\ job.op = "connect" => Parent[job.block] = tip
    /\ job.op = "disconnect" => job.block = tip
    /\ job.op \in {"verify", "reconnect"} => job.block \in Ancestors[tip]
    /\ job.op \in {"connect", "reconnect"} =>
          ValidTo(job.block, job.pos) /\ UndoFor(job.undo, job.block, job.pos)
    /\ job.op \in {"disconnect", "verify"} => job.undo = undo[job.block]

Inv == RestOK /\ BlocksOK /\ CoinsOK /\ JobOK

------------------------------------------------------------------------------
(* Types.                                                                   *)

LEMMA CoinsAfterType ==
    ASSUME NEW b \in Blocks, NEW S \in SUBSET Confirmed[b]
    PROVE  CoinsAfter(S, b) \in [Txids -> CCoins]
<1>1. S \in SUBSET Txids
  BY ConfirmedType
<1>2. ASSUME NEW p \in Txids PROVE CoinsAfter(S, b)[p] \in CCoins
  <2>1. CoinsAfter(S, b)[p] = Coin(S, p, HeightIn(b, p))
    BY <1>1, CoinsAfterCoin
  <2>2. p \in S => HeightIn(b, p) \in Nat
    BY HeightInPositive
  <2>3. Left(S, p) \in SUBSET Nat
    BY TxType DEF Left
  <2> QED
    BY <2>1, <2>2, <2>3 DEF Coin, CCoins, NoCoins
<1>3. CoinsAfter(S, b) = [p \in Txids |-> CoinsAfter(S, b)[p]]
  BY CoinsAfterDomain
<1> HIDE DEF CoinsAfter
<1> QED
  BY <1>2, <1>3

LEMMA CoinsToType ==
    ASSUME NEW b \in Blocks \ {Genesis}, NEW k \in 0 .. Len(Txs[b])
    PROVE  CoinsTo(b, k) \in [Txids -> CCoins]
BY PrefixType, CoinsAfterType DEF CoinsTo

\* The coins between two blocks.
LEMMA CoinsToEnds ==
    ASSUME NEW b \in Blocks \ {Genesis}
    PROVE  /\ CoinsTo(b, 0) = CoinsAfter(Confirmed[Parent[b]], Parent[b])
           /\ CoinsTo(b, Len(Txs[b])) = CoinsAfter(Confirmed[b], b)
<1>1. Parent[b] \in Ancestors[b]
  BY ProperAncestor, AncestorsSelf, ParentOK
<1>2. CoinsAfter(Confirmed[Parent[b]], b) = CoinsAfter(Confirmed[Parent[b]], Parent[b])
  BY <1>1, CoinsStay
<1> QED
  BY <1>2, PrefixEnds DEF CoinsTo

LEMMA SpendUndoType ==
    ASSUME NEW c \in [Txids -> CCoins], NEW t \in Txids
    PROVE  \A o \in Inputs(t) : SpendUndo(c, t)[o] \in Meta
<1> TAKE o \in Inputs(t)
<1>1. c[o[1]] \in CCoins
  BY TxType
<1>2. MetaOf(c[o[1]]) \in Meta /\ NoMeta \in Meta
  BY <1>1 DEF MetaOf, NoMeta, Meta, CCoins
<1> HIDE DEF Inputs
<1>3. SpendUndo(c, t)[o] \in {MetaOf(c[o[1]]), NoMeta}
  BY DEF SpendUndo
<1> QED
  BY <1>2, <1>3

LEMMA UndoTypeIs ==
    ASSUME NEW D \in SUBSET Outpoints, NEW u \in [D -> Meta]
    PROVE  u \in UndoType
BY DEF UndoType

LEMMA UndoTypeMeans ==
    ASSUME NEW u \in UndoType
    PROVE  IsUndo(u)
BY DEF UndoType, IsUndo

LEMMA NoUndoType == NoUndo \in UndoType /\ \A b : UndoFor(NoUndo, b, 0)
<1>1. NoUndo \in [{} -> Meta]
  BY DEF NoUndo
<1>2. {} \in SUBSET Outpoints
  OBVIOUS
<1>3. NoUndo \in UndoType
  BY <1>1, <1>2, UndoTypeIs
<1>4. 1 .. 0 = {}
  OBVIOUS
<1> QED
  BY <1>3, <1>4 DEF UndoFor

\* One more transaction.
LEMMA UndoForStep ==
    ASSUME NEW b \in Blocks \ {Genesis}, NEW k \in 1 .. Len(Txs[b]), Connectable(b, k),
           NEW u, UndoFor(u, b, k - 1)
    PROVE  UndoFor([o \in DOMAIN u \cup Inputs(Txs[b][k]) |->
                       IF o \in Inputs(Txs[b][k]) THEN SpendUndo(CoinsTo(b, k - 1), Txs[b][k])[o]
                       ELSE u[o]], b, k)
<1> DEFINE t == Txs[b][k]
           I == Inputs(t)
           s == SpendUndo(CoinsTo(b, k - 1), t)
           v == [o \in DOMAIN u \cup I |-> IF o \in I THEN s[o] ELSE u[o]]
<1>1. t \in Txids /\ k - 1 \in 0 .. Len(Txs[b])
  BY PrefixStep
<1>2. \A o \in I : s[o] \in Meta
  BY <1>1, CoinsToType, SpendUndoType
<1>3. DOMAIN u \subseteq Outpoints /\ \A o \in DOMAIN u : u[o] \in Meta
  BY UndoTypeMeans DEF UndoFor, IsUndo
<1>4. I \subseteq Outpoints
  BY <1>1, TxType
<1>5. v \in UndoType
  <2> DEFINE D == DOMAIN u \cup I
  <2>1. D \in SUBSET Outpoints
    BY <1>3, <1>4
  <2> HIDE DEF s, I
  <2>2. v \in [D -> Meta]
    BY <1>2, <1>3
  <2> HIDE DEF D, v
  <2> QED
    BY <2>1, <2>2, UndoTypeIs
<1>6. \A o \in I : o \notin Spent(Prefix(b, k - 1))
  BY ConnectableMeans
<1>7. \A i \in 1 .. (k - 1) : Inputs(Txs[b][i]) \subseteq Spent(Prefix(b, k - 1))
  BY DEF Spent, Prefix
<1>8. ASSUME NEW i \in 1 .. k, NEW o \in Inputs(Txs[b][i])
      PROVE  o \in DOMAIN v /\ v[o] = SpendUndo(CoinsTo(b, i - 1), Txs[b][i])[o]
  <2>1. CASE i = k
    BY <2>1, <1>8
  <2>2. CASE i # k
    <3>1. i \in 1 .. (k - 1)
      BY <2>2
    <3>2. o \notin I
      BY <1>6, <1>7, <1>8, <3>1
    <3>3. o \in DOMAIN u /\ u[o] = SpendUndo(CoinsTo(b, i - 1), Txs[b][i])[o]
      BY <1>8, <3>1 DEF UndoFor
    <3> HIDE DEF s, I
    <3>4. o \in DOMAIN v /\ v[o] = u[o]
      BY <3>2, <3>3
    <3> QED
      BY <3>3, <3>4
  <2> QED
    BY <2>1, <2>2
<1> HIDE DEF v
<1>9. UndoFor(v, b, k)
  BY <1>5, <1>8 DEF UndoFor
<1> QED
  BY <1>9 DEF v

LEMMA IdleJob ==
    /\ Idle \in JobType /\ Idle.op = "idle" /\ Idle.block = Genesis /\ Idle.pos = 0 /\ Idle.clean
    /\ Idle.pos \in 0 .. Len(Txs[Idle.block])
<1>1. Idle \in JobType
  BY NoUndoType, BlockAssumption DEF Idle, JobType
<1>2. Idle.op = "idle" /\ Idle.block = Genesis /\ Idle.pos = 0 /\ Idle.clean
  BY DEF Idle
<1>3. 0 \in 0 .. Len(Txs[Genesis])
  BY BlockTxs, BlockAssumption
<1> QED
  BY <1>1, <1>2, <1>3

\* j is a job with nothing found wrong, at the k-th transaction of b with undo data u.
JobAt(j, op, b, k, u) ==
    /\ j \in JobType
    /\ j.op = op /\ j.block = b /\ j.pos = k /\ j.undo = u /\ j.clean

LEMMA JobStarts ==
    ASSUME NEW j \in JobType, j.clean, NEW b \in Blocks, NEW op \in {"connect", "reconnect"}
    PROVE  /\ JobAt([j EXCEPT !.block = b, !.pos = 0, !.undo = NoUndo], j.op, b, 0, NoUndo)
           /\ JobAt([[j EXCEPT !.block = b, !.pos = 0, !.undo = NoUndo] EXCEPT !.op = op],
                    op, b, 0, NoUndo)
<1> DEFINE s == [j EXCEPT !.block = b, !.pos = 0, !.undo = NoUndo]
<1>1. /\ s \in JobType /\ s.op = j.op /\ s.block = b /\ s.pos = 0 /\ s.undo = NoUndo
      /\ s.clean = j.clean
  BY NoUndoType DEF JobType
<1> DEFINE k == [s EXCEPT !.op = op]
<1> HIDE DEF s
<1>2. /\ k \in JobType /\ k.op = op /\ k.block = b /\ k.pos = 0 /\ k.undo = NoUndo
      /\ k.clean = s.clean
  BY <1>1 DEF JobType
<1>3. JobAt(s, j.op, b, 0, NoUndo)
  BY <1>1 DEF JobAt
<1>4. JobAt(k, op, b, 0, NoUndo)
  BY <1>1, <1>2 DEF JobAt
<1> QED
  BY <1>3, <1>4 DEF s

LEMMA JobEnds ==
    ASSUME NEW j \in JobType, j.clean, NEW b \in Blocks, NEW u \in UndoType
    PROVE  /\ JobAt([j EXCEPT !.block = b, !.pos = Len(Txs[b]), !.undo = u],
                    j.op, b, Len(Txs[b]), u)
           /\ JobAt([[j EXCEPT !.block = b, !.pos = Len(Txs[b]), !.undo = u]
                       EXCEPT !.op = "disconnect"], "disconnect", b, Len(Txs[b]), u)
<1> DEFINE n == Len(Txs[b])
           s == [j EXCEPT !.block = b, !.pos = n, !.undo = u]
<1>0. n \in Nat
  BY BlockTxs
<1> HIDE DEF n
<1>1. /\ s \in JobType /\ s.op = j.op /\ s.block = b /\ s.pos = n /\ s.undo = u
      /\ s.clean = j.clean
  BY <1>0 DEF JobType
<1> DEFINE k == [s EXCEPT !.op = "disconnect"]
<1> HIDE DEF s
<1>2. /\ k \in JobType /\ k.op = "disconnect" /\ k.block = b /\ k.pos = n /\ k.undo = u
      /\ k.clean = s.clean
  BY <1>1 DEF JobType
<1>3. JobAt(s, j.op, b, n, u)
  BY <1>1 DEF JobAt
<1>4. JobAt(k, "disconnect", b, n, u)
  BY <1>1, <1>2 DEF JobAt
<1> QED
  BY <1>3, <1>4 DEF s, n

LEMMA JobVerifies ==
    ASSUME NEW c \in Check, tip \in Blocks, undo[tip] \in UndoType
    PROVE  JobAt(VerifyDB(c), "verify", tip, Len(Txs[tip]), undo[tip])
<1> DEFINE n == Len(Txs[tip])
           v == VerifyDB(c)
<1>1. n \in Nat /\ Height[tip] \in Nat
  BY BlockTxs, HeightAssumption
<1>2. c.level \in Nat /\ c.depth \in Nat
  BY DEF Check
<1>3. Height[tip] - c.depth \in Int
  BY <1>1, <1>2
<1> DEFINE w == Height[tip] - c.depth
           l == c.level
           u == undo[tip]
<1>4. v = [Idle EXCEPT !.op = "verify", !.block = tip, !.pos = n, !.undo = u,
                       !.level = l, !.low = w]
  BY DEF VerifyDB
<1>5. w \in Int /\ l \in Nat /\ u \in UndoType
  BY <1>2, <1>3
<1> HIDE DEF v, n, w, l, u
<1>6. /\ v \in JobType /\ v.op = "verify" /\ v.block = tip /\ v.pos = n /\ v.undo = u
      /\ v.clean = Idle.clean
  BY <1>1, <1>4, <1>5, IdleJob DEF JobType
<1>7. JobAt(v, "verify", tip, n, undo[tip])
  BY <1>6, IdleJob DEF JobAt, u
<1> QED
  BY <1>7 DEF v, n

LEMMA JobConnects ==
    ASSUME NEW j \in JobType, j.clean, NEW u \in UndoType
    PROVE  JobAt([j EXCEPT !.pos = @ + 1, !.undo = u], j.op, j.block, j.pos + 1, u)
<1> DEFINE p == j.pos + 1
           k == [j EXCEPT !.pos = p, !.undo = u]
<1>1. p \in Nat
  BY DEF JobType
<1> HIDE DEF p
<1>2. /\ k \in JobType /\ k.op = j.op /\ k.block = j.block /\ k.pos = p /\ k.undo = u
      /\ k.clean = j.clean
  BY <1>1 DEF JobType
<1> HIDE DEF k
<1>3. JobAt(k, j.op, j.block, p, u)
  BY <1>2 DEF JobAt
<1> QED
  BY <1>3 DEF k, p

LEMMA JobDisconnects ==
    ASSUME NEW j \in JobType, j.clean, j.pos > 0, NEW ok \in BOOLEAN, ok
    PROVE  JobAt([j EXCEPT !.pos = @ - 1, !.clean = @ /\ ok], j.op, j.block, j.pos - 1, j.undo)
<1>1. j.pos - 1 \in Nat /\ j.clean \in BOOLEAN
  BY DEF JobType
<1> DEFINE p == j.pos - 1
           q == (j.clean /\ ok)
           k == [j EXCEPT !.pos = p, !.clean = q]
<1>2. q \in BOOLEAN /\ q
  OBVIOUS
<1>3. k = [j EXCEPT !.pos = @ - 1, !.clean = @ /\ ok]
  OBVIOUS
<1> HIDE DEF p, q
<1>4. /\ k \in JobType /\ k.op = j.op /\ k.block = j.block /\ k.pos = p /\ k.undo = j.undo
      /\ k.clean = q
  BY <1>1, <1>2 DEF JobType, p
<1> HIDE DEF k
<1>5. JobAt(k, j.op, j.block, p, j.undo)
  BY <1>2, <1>4 DEF JobAt
<1> QED
  BY <1>3, <1>5 DEF p

------------------------------------------------------------------------------
(* The invariant holds initially, and whatever ends with no job keeps it.   *)

\* The genesis block has no transactions to connect.
LEMMA GenesisCoins == CoinsAfter(Confirmed[Genesis], Genesis) = [t \in Txids |-> NoCoins]
BY ConfirmedEquation DEF CoinsAfter

LEMMA TipOK ==
    ASSUME BlocksOK
    PROVE  /\ tip \in Blocks
           /\ tip # Genesis => /\ Valid(tip) /\ UndoFor(undo[tip], tip, Len(Txs[tip]))
                               /\ undo[tip] \in UndoType
           /\ \A d \in Ancestors[tip] \ {Genesis} : d \in DOMAIN undo
BY BlockAssumption, AncestorsEquation DEF BlocksOK, UndoFor

\* The job is over.
LEMMA JobOver ==
    ASSUME job' = Idle
    PROVE  JobOK'
<1>1. job'.op = "idle" /\ job' \in JobType /\ job'.pos \in 0 .. Len(Txs[job'.block]) /\ job'.clean
  BY IdleJob
<1> QED
  BY <1>1 DEF JobOK

LEMMA InitInv == Init => Inv
<1> SUFFICES ASSUME Init PROVE Inv
  OBVIOUS
<1>1. RestOK
  BY BlockAssumption DEF Init, RestOK
<1>2. BlocksOK
  BY DEF Init, BlocksOK
<1>3. CoinsOK
  BY GenesisCoins, IdleJob DEF Init, CoinsOK
<1>4. JobOK
  BY IdleJob DEF Init, JobOK
<1> QED
  BY <1>1, <1>2, <1>3, <1>4 DEF Inv

------------------------------------------------------------------------------
(* One lemma for each action.                                               *)

\* The job goes on.
LEMMA JobGoesOn ==
    ASSUME NEW op \in {"connect", "disconnect", "verify", "reconnect"},
           NEW b \in Blocks \ {Genesis}, NEW k \in 0 .. Len(Txs[b]), NEW u,
           JobAt(job', op, b, k, u), view' = CoinsTo(b, k),
           coins' = CoinsAfter(Confirmed[tip'], tip'),
           op = "connect" => Parent[b] = tip',
           op = "disconnect" => b = tip',
           op \in {"verify", "reconnect"} => b \in Ancestors[tip'],
           op \in {"connect", "reconnect"} => ValidTo(b, k) /\ UndoFor(u, b, k),
           op \in {"disconnect", "verify"} => u = undo'[b]
    PROVE  CoinsOK' /\ JobOK'
<1>1. /\ job' \in JobType /\ job'.op = op /\ job'.block = b /\ job'.pos = k
      /\ job'.undo = u /\ job'.clean
  BY DEF JobAt
<1>2. op # "idle"
  OBVIOUS
<1>3. CoinsOK'
  BY <1>1, <1>2 DEF CoinsOK
<1>4. JobOK'
  BY <1>1, <1>2 DEF JobOK
<1> QED
  BY <1>3, <1>4

LEMMA ProcessNewBlockInv ==
    ASSUME Inv, NEW b \in Blocks \ {Genesis}, ProcessNewBlock(b)
    PROVE  Inv'
BY DEF Inv, RestOK, BlocksOK, CoinsOK, JobOK, ProcessNewBlock

\* Where a child of the tip starts.
LEMMA StartOK ==
    ASSUME NEW b \in Blocks \ {Genesis}, Parent[b] # Genesis => Valid(Parent[b])
    PROVE  /\ ValidTo(b, 0) /\ UndoFor(NoUndo, b, 0) /\ 0 \in 0 .. Len(Txs[b])
           /\ CoinsTo(b, 0) = CoinsAfter(Confirmed[Parent[b]], Parent[b])
<1>1. 0 \in 0 .. Len(Txs[b])
  BY BlockTxs
<1> QED
  BY <1>1, ValidStart, NoUndoType, CoinsToEnds

LEMMA ConnectTipInv ==
    ASSUME Inv, NEW b \in Blocks \ {Genesis}, ConnectTip(b)
    PROVE  Inv'
<1>1. /\ job = Idle /\ Parent[b] = tip /\ view' = coins
      /\ job' = [[job EXCEPT !.block = b, !.pos = 0, !.undo = NoUndo] EXCEPT !.op = "connect"]
      /\ UNCHANGED <<received, tip, coins, undo, stakeSpent, top, verifies, restarts>>
  BY DEF ConnectTip, AtStart
<1>2. RestOK' /\ BlocksOK'
  BY <1>1 DEF Inv, RestOK, BlocksOK
<1>3. Parent[b] # Genesis => Valid(Parent[b])
  BY <1>1, TipOK DEF Inv
<1>4. JobAt(job', "connect", b, 0, NoUndo)
  BY <1>1, IdleJob, JobStarts
<1>5. view' = CoinsTo(b, 0) /\ coins' = CoinsAfter(Confirmed[tip'], tip')
  BY <1>1, <1>3, StartOK DEF Inv, CoinsOK
<1>6. CoinsOK' /\ JobOK'
  BY <1>1, <1>3, <1>4, <1>5, StartOK, JobGoesOn
<1> QED
  BY <1>2, <1>6 DEF Inv

\* Where a block of the chain ends.
LEMMA EndOK ==
    ASSUME NEW b \in Blocks \ {Genesis}
    PROVE  /\ Len(Txs[b]) \in 0 .. Len(Txs[b])
           /\ CoinsTo(b, Len(Txs[b])) = CoinsAfter(Confirmed[b], b)
<1>1. Len(Txs[b]) \in 0 .. Len(Txs[b])
  BY BlockTxs
<1> QED
  BY <1>1, CoinsToEnds

LEMMA DisconnectTipInv ==
    ASSUME Inv, DisconnectTip
    PROVE  Inv'
<1>1. /\ job = Idle /\ tip # Genesis /\ view' = coins
      /\ job' = [[job EXCEPT !.block = tip, !.pos = Len(Txs[tip]), !.undo = undo[tip]]
                   EXCEPT !.op = "disconnect"]
      /\ UNCHANGED <<received, tip, coins, undo, stakeSpent, top, verifies, restarts>>
  BY DEF DisconnectTip, AtEnd
<1>2. RestOK' /\ BlocksOK'
  BY <1>1 DEF Inv, RestOK, BlocksOK
<1>3. tip \in Blocks \ {Genesis} /\ undo[tip] \in UndoType
  BY <1>1, TipOK DEF Inv
<1>4. JobAt(job', "disconnect", tip, Len(Txs[tip]), undo[tip])
  BY <1>1, <1>3, IdleJob, JobEnds
<1>5. view' = CoinsTo(tip, Len(Txs[tip])) /\ coins' = CoinsAfter(Confirmed[tip'], tip')
  BY <1>1, <1>3, EndOK DEF Inv, CoinsOK
<1>6. CoinsOK' /\ JobOK'
  BY <1>1, <1>3, <1>4, <1>5, EndOK, JobGoesOn
<1> QED
  BY <1>2, <1>6 DEF Inv

\* VerifyDB starts at the tip.
LEMMA VerifyStarts ==
    ASSUME Inv, tip # Genesis, NEW c \in Check, job' = VerifyDB(c), view' = coins,
           UNCHANGED <<tip, coins, undo>>
    PROVE  CoinsOK' /\ JobOK'
<1>1. tip \in Blocks \ {Genesis} /\ undo[tip] \in UndoType
  BY TipOK DEF Inv
<1>2. JobAt(job', "verify", tip, Len(Txs[tip]), undo[tip])
  BY <1>1, JobVerifies
<1>3. view' = CoinsTo(tip, Len(Txs[tip])) /\ coins' = CoinsAfter(Confirmed[tip'], tip')
  BY <1>1, EndOK DEF Inv, CoinsOK
<1>4. tip \in Ancestors[tip']
  BY <1>1, AncestorsSelf
<1> QED
  BY <1>1, <1>2, <1>3, <1>4, EndOK, JobGoesOn

LEMMA VerifyChainInv ==
    ASSUME Inv, VerifyChain
    PROVE  Inv'
<1>1. /\ tip # Genesis /\ view' = coins /\ verifies' = verifies + 1
      /\ UNCHANGED <<received, tip, coins, undo, stakeSpent, top, restarts>>
  BY DEF VerifyChain
<1>2. PICK c \in Check : job' = VerifyDB(c)
  BY BoundAssumption DEF VerifyChain
<1>3. RestOK' /\ BlocksOK'
  BY <1>1 DEF Inv, RestOK, BlocksOK
<1>4. CoinsOK' /\ JobOK'
  BY <1>1, <1>2, VerifyStarts
<1> QED
  BY <1>3, <1>4 DEF Inv

LEMMA RestartInv ==
    ASSUME Inv, Restart
    PROVE  Inv'
<1>1. /\ view' = coins /\ restarts' = restarts + 1 /\ top' = Height[tip]
      /\ stakeSpent' = [o \in {} |-> 0]
      /\ UNCHANGED <<received, tip, coins, undo, verifies>>
  BY DEF Restart
<1>2. RestOK'
  <2>1. Height[tip] \in Nat
    BY TipOK, HeightAssumption DEF Inv
  <2>2. DOMAIN stakeSpent' = {}
    BY <1>1
  <2> QED
    BY <1>1, <2>1, <2>2 DEF Inv, RestOK
<1>3. BlocksOK'
  BY <1>1 DEF Inv, BlocksOK
<1>4. CoinsOK' /\ JobOK'
  <2>1. CASE tip = Genesis \/ Startup.level < 3
    <3>1. job' = Idle
      BY <2>1 DEF Restart
    <3>2. JobOK'
      BY <3>1, JobOver
    <3> QED
      BY <1>1, <3>1, <3>2, IdleJob DEF Inv, CoinsOK
  <2>2. CASE ~ (tip = Genesis \/ Startup.level < 3)
    <3>1. job' = VerifyDB(Startup) /\ tip # Genesis
      BY <2>2 DEF Restart
    <3> QED
      BY <1>1, <3>1, BoundAssumption, VerifyStarts
  <2> QED
    BY <2>1, <2>2
<1> QED
  BY <1>2, <1>3, <1>4 DEF Inv

\* A job that has to connect or to disconnect something.
LEMMA AtWork ==
    ASSUME Inv, job.op # "idle"
    PROVE  /\ job \in JobType /\ job.clean /\ job.block \in Blocks \ {Genesis}
           /\ job.op \in {"connect", "disconnect", "verify", "reconnect"}
           /\ job.pos \in 0 .. Len(Txs[job.block]) /\ view = CoinsTo(job.block, job.pos)
           /\ coins = CoinsAfter(Confirmed[tip], tip)
<1>1. job \in JobType /\ job.clean /\ job.block # Genesis /\ job.pos \in 0 .. Len(Txs[job.block])
  BY DEF Inv, JobOK
<1>2. job.block \in Blocks /\ job.op \in {"connect", "disconnect", "verify", "reconnect"}
  BY <1>1 DEF JobType
<1> QED
  BY <1>1, <1>2 DEF Inv, CoinsOK

LEMMA ConnectTxInv ==
    ASSUME Inv, ConnectTx
    PROVE  Inv'
<1> DEFINE b == job.block
           k == job.pos + 1
           t == Txs[b][k]
           s == SpendUndo(view, t)
           v == [o \in DOMAIN job.undo \cup Inputs(t) |->
                    IF o \in Inputs(t) THEN s[o] ELSE job.undo[o]]
<1>1. /\ job.op \in {"connect", "reconnect"} /\ job.pos < Len(Txs[b])
      /\ HaveInputs(view, t) /\ Mature(view, t, Height[b])
      /\ view' = UpdateCoins(view, t, Height[b])
      /\ job' = [job EXCEPT !.pos = @ + 1, !.undo = v]
      /\ UNCHANGED <<received, tip, coins, undo, stakeSpent, top, verifies, restarts>>
  BY DEF ConnectTx, Connecting, Acceptable
<1>2. /\ job \in JobType /\ job.clean /\ b \in Blocks \ {Genesis}
      /\ job.pos \in 0 .. Len(Txs[b]) /\ view = CoinsTo(b, job.pos)
      /\ coins = CoinsAfter(Confirmed[tip], tip)
  BY <1>1, AtWork
<1>3. /\ job.op = "connect" => Parent[b] = tip
      /\ job.op = "reconnect" => b \in Ancestors[tip]
      /\ ValidTo(b, job.pos) /\ UndoFor(job.undo, b, job.pos)
  BY <1>1 DEF Inv, JobOK
<1>4. RestOK' /\ BlocksOK'
  BY <1>1 DEF Inv, RestOK, BlocksOK
<1> HIDE DEF b
<1>5. k \in 1 .. Len(Txs[b]) /\ k - 1 = job.pos
  <2>1. Len(Txs[b]) \in Nat
    BY <1>2, BlockTxs
  <2> QED
    BY <1>1, <1>2, <2>1
<1> HIDE DEF k
<1>6. view = CoinsTo(b, k - 1) /\ ValidTo(b, k - 1) /\ UndoFor(job.undo, b, k - 1)
  BY <1>2, <1>3, <1>5
<1>7. Connectable(b, k)
  BY <1>1, <1>6 DEF Connectable
<1>8. ValidTo(b, k)
  BY <1>2, <1>5, <1>6, <1>7, ValidSteps
<1>9. UndoFor(v, b, k)
  BY <1>2, <1>5, <1>6, <1>7, UndoForStep
<1>10. view' = CoinsTo(b, k)
  <2>1. t \notin Prefix(b, k - 1)
    BY <1>2, <1>5, <1>7, ConnectableMeans
  <2>2. k - 1 \in 0 .. Len(Txs[b])
    BY <1>2, <1>5
  <2>3. SelfContained(Prefix(b, k - 1))
    BY <1>2, <1>6, <2>2, ValidSelfContained
  <2> QED
    BY <1>1, <1>2, <1>5, <1>6, <2>1, <2>3, ConnectStep
<1> HIDE DEF v
<1>11. v \in UndoType
  BY <1>9 DEF UndoFor
<1>12. JobAt(job', job.op, b, k, v)
  BY <1>1, <1>2, <1>11, JobConnects DEF b, k
<1>13. k \in 0 .. Len(Txs[b])
  BY <1>2, <1>5, PrefixStep
<1>14. CoinsOK' /\ JobOK'
  BY <1>1, <1>2, <1>3, <1>8, <1>9, <1>10, <1>12, <1>13, JobGoesOn
<1> QED
  BY <1>4, <1>14 DEF Inv

LEMMA ConnectBlockFailsInv ==
    ASSUME Inv, ConnectBlockFails
    PROVE  Inv'
<1>1. /\ job' = Idle /\ view' = coins
      /\ UNCHANGED <<received, tip, coins, undo, stakeSpent, top, verifies, restarts>>
  BY DEF ConnectBlockFails
<1>2. RestOK' /\ BlocksOK'
  BY <1>1 DEF Inv, RestOK, BlocksOK
<1>3. CoinsOK'
  BY <1>1, IdleJob DEF Inv, CoinsOK
<1>4. JobOK'
  BY <1>1, JobOver
<1> QED
  BY <1>2, <1>3, <1>4 DEF Inv

\* The entries that ConnectBlock leaves in mapStakeSpent.
LEMMA ConnectStakeSpentOK ==
    ASSUME RestOK, NEW b \in Blocks
    PROVE  /\ DOMAIN ConnectStakeSpent(b) \subseteq Outpoints
           /\ \A o \in DOMAIN ConnectStakeSpent(b) : ConnectStakeSpent(b)[o] \in Nat
<1> DEFINE old == DOMAIN stakeSpent
           h == Height[b]
           all == [o \in old \cup StakeInputs(b) |-> IF o \in old THEN stakeSpent[o] ELSE h]
           D == {q \in DOMAIN all : all[q] >= h - MaxReorg}
<1>1. StakeInputs(b) \subseteq Outpoints
  BY BlockTxs, TxType DEF StakeInputs
<1>2. h \in Nat
  BY HeightAssumption
<1>3. ConnectStakeSpent(b) = [o \in D |-> all[o]]
  BY DEF ConnectStakeSpent
<1> HIDE DEF h
<1>4. DOMAIN all \subseteq Outpoints /\ \A o \in DOMAIN all : all[o] \in Nat
  BY <1>1, <1>2 DEF RestOK
<1> HIDE DEF all
<1> QED
  BY <1>3, <1>4

\* A block that has been connected is kept with its undo data.
LEMMA ConnectKeepsBlocks ==
    ASSUME BlocksOK, NEW b \in Blocks \ {Genesis}, NEW u, Valid(b), UndoFor(u, b, Len(Txs[b])),
           Parent[b] = tip \/ b \in DOMAIN undo,
           undo' = [d \in DOMAIN undo \cup {b} |-> IF d \in DOMAIN undo THEN undo[d] ELSE u],
           tip' \in {tip, b}
    PROVE  BlocksOK'
<1>1. DOMAIN undo' = DOMAIN undo \cup {b}
  OBVIOUS
<1>2. \A d \in DOMAIN undo : undo'[d] = undo[d]
  OBVIOUS
<1>3. b \notin DOMAIN undo => undo'[b] = u
  OBVIOUS
<1>4. tip' \in {Genesis} \cup DOMAIN undo' /\ DOMAIN undo' \subseteq Blocks \ {Genesis}
  BY <1>1 DEF BlocksOK
<1>5. ASSUME NEW d \in DOMAIN undo'
      PROVE  /\ Valid(d) /\ UndoFor(undo'[d], d, Len(Txs[d]))
             /\ Ancestors[d] \ {Genesis} \subseteq DOMAIN undo'
  <2>1. CASE d \in DOMAIN undo
    BY <1>1, <1>2, <2>1 DEF BlocksOK
  <2>2. CASE d \notin DOMAIN undo
    <3>1. d = b /\ Parent[b] = tip
      BY <1>1, <1>5, <2>2
    <3>2. Ancestors[b] = {b} \cup Ancestors[tip]
      BY <3>1, AncestorsEquation
    <3>3. Ancestors[b] \ {Genesis} \subseteq DOMAIN undo'
      BY <1>1, <3>2, TipOK
    <3> QED
      BY <1>3, <2>2, <3>1, <3>3
  <2> QED
    BY <2>1, <2>2
<1> QED
  BY <1>4, <1>5 DEF BlocksOK

LEMMA NextInChainIs ==
    ASSUME tip \in Blocks, NEW b \in Ancestors[tip] \ {tip}
    PROVE  NextInChain(b) \in Ancestors[tip] \ {Genesis} /\ Parent[NextInChain(b)] = b
<1>1. \E d \in Ancestors[tip] \ {Genesis} : Parent[d] = b
  BY ChildTowards
<1> QED
  BY <1>1 DEF NextInChain

LEMMA ConnectBlockInv ==
    ASSUME Inv, ConnectBlock
    PROVE  Inv'
<1> DEFINE b == job.block
           n == Len(Txs[b])
<1>1. /\ job.op \in {"connect", "reconnect"} /\ job.pos = n
      /\ undo' = [d \in DOMAIN undo \cup {b} |-> IF d \in DOMAIN undo THEN undo[d] ELSE job.undo]
      /\ stakeSpent' = ConnectStakeSpent(b)
      /\ UNCHANGED <<received, verifies, restarts>>
  BY DEF ConnectBlock, Connecting, WithUndo
<1>2. /\ job.op = "connect" =>
            /\ coins' = view /\ tip' = b
            /\ top' = IF Height[b] > top THEN Height[b] ELSE top
      /\ job.op # "connect" => UNCHANGED <<coins, tip, top>>
      /\ b = tip' => job' = Idle /\ view' = coins'
      /\ b # tip' => job' = AtStart(NextInChain(b)) /\ UNCHANGED view
  BY DEF ConnectBlock
<1>3. /\ job \in JobType /\ job.clean /\ b \in Blocks \ {Genesis} /\ view = CoinsTo(b, n)
      /\ coins = CoinsAfter(Confirmed[tip], tip)
  BY <1>1, AtWork
<1>4. /\ job.op = "connect" => Parent[b] = tip
      /\ job.op = "reconnect" => b \in Ancestors[tip]
      /\ Valid(b) /\ UndoFor(job.undo, b, n)
  BY <1>1 DEF Inv, JobOK, Valid
<1>5. Height[b] \in Nat /\ tip \in Blocks /\ view = CoinsAfter(Confirmed[b], b)
  BY <1>3, HeightAssumption, TipOK, EndOK DEF Inv
<1> HIDE DEF b, n
<1>6. RestOK'
  <2>1. /\ DOMAIN stakeSpent' \subseteq Outpoints
        /\ \A o \in DOMAIN stakeSpent' : stakeSpent'[o] \in Nat
    BY <1>1, <1>3, ConnectStakeSpentOK DEF Inv
  <2>2. top' \in Nat
    BY <1>2, <1>5 DEF Inv, RestOK
  <2> QED
    BY <1>1, <2>1, <2>2 DEF Inv, RestOK
<1>7. BlocksOK'
  <2>1. Parent[b] = tip \/ b \in DOMAIN undo
    BY <1>1, <1>3, <1>4, TipOK DEF Inv
  <2>2. tip' \in {tip, b}
    BY <1>2
  <2>3. UndoFor(job.undo, b, Len(Txs[b]))
    BY <1>4 DEF n
  <2> QED
    BY <1>1, <1>3, <1>4, <2>1, <2>2, <2>3, ConnectKeepsBlocks DEF Inv
<1>8. coins' = CoinsAfter(Confirmed[tip'], tip')
  BY <1>2, <1>3, <1>5
<1>9. CASE b = tip'
  <2>1. job' = Idle /\ view' = coins'
    BY <1>2, <1>9
  <2>2. CoinsOK'
    BY <1>8, <2>1, IdleJob DEF CoinsOK
  <2>3. JobOK'
    BY <2>1, JobOver
  <2> QED
    BY <1>6, <1>7, <2>2, <2>3 DEF Inv
<1>10. CASE b # tip'
  <2> DEFINE d == NextInChain(b)
  <2>1. /\ job.op = "reconnect" /\ tip' = tip /\ view' = view
        /\ job' = [job EXCEPT !.block = d, !.pos = 0, !.undo = NoUndo]
    BY <1>1, <1>2, <1>10 DEF AtStart
  <2>2. b \in Ancestors[tip] \ {tip}
    BY <1>4, <1>10, <2>1
  <2>3. d \in Ancestors[tip] \ {Genesis} /\ Parent[d] = b
    BY <1>5, <2>2, NextInChainIs
  <2> HIDE DEF d
  <2>4. d \in Blocks \ {Genesis}
    BY <1>5, <2>3, AncestorsSelf
  <2>5. JobAt(job', "reconnect", d, 0, NoUndo)
    BY <1>3, <2>1, <2>4, JobStarts
  <2>6. /\ ValidTo(d, 0) /\ UndoFor(NoUndo, d, 0) /\ 0 \in 0 .. Len(Txs[d])
        /\ CoinsTo(d, 0) = CoinsAfter(Confirmed[b], b)
    BY <1>4, <2>3, <2>4, StartOK
  <2>7. view' = CoinsTo(d, 0)
    BY <1>5, <2>1, <2>6
  <2>8. CoinsOK' /\ JobOK'
    BY <1>8, <2>1, <2>3, <2>4, <2>5, <2>6, <2>7, JobGoesOn
  <2> QED
    BY <1>6, <1>7, <2>8 DEF Inv
<1> QED
  BY <1>9, <1>10

\* The block that is being disconnected has been connected before.
LEMMA DisconnectingOK ==
    ASSUME Inv, job.op \in {"disconnect", "verify"}
    PROVE  /\ job.block \in Ancestors[tip] /\ Valid(job.block)
           /\ job.undo = undo[job.block] /\ UndoFor(job.undo, job.block, Len(Txs[job.block]))
           /\ \A k \in 0 .. Len(Txs[job.block]) : ValidTo(job.block, k)
<1>1. job.block \in Blocks \ {Genesis} /\ tip \in Blocks
  BY AtWork, TipOK DEF Inv
<1>2. job.block \in Ancestors[tip] /\ job.undo = undo[job.block]
  BY <1>1, AncestorsSelf DEF Inv, JobOK
<1>3. job.block \in DOMAIN undo
  BY <1>1, <1>2, TipOK DEF Inv
<1>4. Valid(job.block) /\ UndoFor(job.undo, job.block, Len(Txs[job.block]))
  BY <1>2, <1>3 DEF Inv, BlocksOK
<1>5. \A k \in 0 .. Len(Txs[job.block]) : ValidTo(job.block, k)
  BY <1>1, <1>4, AncestorsSelf, ValidAncestors
<1> QED
  BY <1>2, <1>4, <1>5

LEMMA DisconnectTxInv ==
    ASSUME StakesKeepOutput, Inv, DisconnectTx
    PROVE  Inv'
<1> DEFINE b == job.block
           k == job.pos
           t == Txs[b][k]
           ok == CleanTx(view, t, job.undo, Height[b])
<1>1. /\ job.op \in {"disconnect", "verify"} /\ k > 0
      /\ view' = UndoTx(view, t, job.undo, Height[b])
      /\ job' = [job EXCEPT !.pos = @ - 1, !.clean = @ /\ ok]
      /\ stakeSpent' = [o \in DOMAIN stakeSpent \ Inputs(t) |-> stakeSpent[o]]
      /\ UNCHANGED <<received, tip, coins, undo, top, verifies, restarts>>
  BY DEF DisconnectTx, Disconnecting
<1>2. /\ job \in JobType /\ job.clean /\ b \in Blocks \ {Genesis}
      /\ k \in 0 .. Len(Txs[b]) /\ view = CoinsTo(b, k)
      /\ coins = CoinsAfter(Confirmed[tip], tip)
  BY <1>1, AtWork
<1>3. /\ b \in Ancestors[tip] /\ job.undo = undo[b] /\ UndoFor(job.undo, b, Len(Txs[b]))
      /\ ValidTo(b, k) /\ (job.op = "disconnect" => b = tip)
  BY <1>1, <1>2, DisconnectingOK DEF Inv, JobOK
<1>4. BlocksOK'
  BY <1>1 DEF Inv, BlocksOK
<1>5. RestOK'
  <2>1. /\ DOMAIN stakeSpent' \subseteq DOMAIN stakeSpent
        /\ \A o \in DOMAIN stakeSpent' : stakeSpent'[o] = stakeSpent[o]
    BY <1>1
  <2> QED
    BY <1>1, <2>1 DEF Inv, RestOK
<1> HIDE DEF b, k
<1>6. k \in 1 .. Len(Txs[b]) /\ k - 1 \in 0 .. Len(Txs[b])
  <2>1. Len(Txs[b]) \in Nat
    BY <1>2, BlockTxs
  <2> QED
    BY <1>1, <1>2, <2>1
<1>7. \A o \in Inputs(t) : job.undo[o] = SpendUndo(CoinsTo(b, k - 1), t)[o]
  BY <1>3, <1>6 DEF UndoFor
<1>8. view' = CoinsTo(b, k - 1) /\ ok
  BY <1>1, <1>2, <1>3, <1>6, <1>7, DisconnectStep
<1>9. ok \in BOOLEAN
  BY DEF CleanTx
<1> HIDE DEF ok
<1>10. JobAt(job', job.op, b, k - 1, job.undo)
  BY <1>1, <1>2, <1>8, <1>9, JobDisconnects DEF b, k
<1>11. CoinsOK' /\ JobOK'
  BY <1>1, <1>2, <1>3, <1>6, <1>8, <1>10, JobGoesOn
<1> QED
  BY <1>4, <1>5, <1>11 DEF Inv

LEMMA DisconnectBlockInv ==
    ASSUME Inv, DisconnectBlock
    PROVE  Inv'
<1>1. /\ job.op = "disconnect" /\ job.pos = 0 /\ job' = Idle /\ view' = coins'
      /\ UNCHANGED <<received, undo, stakeSpent, top, verifies, restarts>>
  BY DEF DisconnectBlock
<1>2. job.block \in Blocks \ {Genesis} /\ view = CoinsTo(job.block, 0) /\ job.block = tip /\ job.clean
  BY <1>1, AtWork DEF Inv, JobOK
<1>3. coins' = view /\ tip' = Parent[tip]
  BY <1>2 DEF DisconnectBlock
<1>4. coins' = CoinsAfter(Confirmed[tip'], tip')
  BY <1>2, <1>3, CoinsToEnds
<1>5. CoinsOK' /\ JobOK'
  <2>1. CoinsOK'
    BY <1>1, <1>4, IdleJob DEF CoinsOK
  <2> QED
    BY <1>1, <2>1, JobOver
<1>6. BlocksOK'
  <2>1. Parent[tip] \in Ancestors[tip]
    BY <1>2, ParentOK, AncestorsEquation, AncestorsSelf
  <2>2. tip' \in {Genesis} \cup DOMAIN undo
    BY <1>3, <2>1, TipOK DEF Inv
  <2> QED
    BY <1>1, <2>2 DEF Inv, BlocksOK
<1>7. RestOK'
  BY <1>1 DEF Inv, RestOK
<1> QED
  BY <1>5, <1>6, <1>7 DEF Inv

LEMMA VerifyNextInv ==
    ASSUME Inv, VerifyNext
    PROVE  Inv'
<1> DEFINE b == job.block
           d == Parent[b]
<1>1. /\ job.op = "verify" /\ job.pos = 0
      /\ UNCHANGED <<received, tip, coins, undo, stakeSpent, top, verifies, restarts>>
  BY DEF VerifyNext
<1>2. \/ d # Genesis /\ job' = AtEnd(d) /\ view' = view
      \/ job' = [AtStart(b) EXCEPT !.op = "reconnect"] /\ view' = view
      \/ job' = Idle /\ view' = coins
  BY DEF VerifyNext
<1>3. /\ job \in JobType /\ job.clean /\ b \in Blocks \ {Genesis} /\ view = CoinsTo(b, 0)
      /\ coins' = CoinsAfter(Confirmed[tip'], tip')
  BY <1>1, AtWork
<1>4. b \in Ancestors[tip'] /\ Valid(b) /\ tip \in Blocks
  BY <1>1, DisconnectingOK, TipOK DEF Inv
<1>5. RestOK' /\ BlocksOK'
  BY <1>1 DEF Inv, RestOK, BlocksOK
<1>6. d \in Ancestors[tip] /\ d \in Blocks
  <2>1. d \in Blocks /\ d \in Ancestors[b]
    BY <1>3, ParentOK, AncestorsEquation, AncestorsSelf
  <2> QED
    BY <1>1, <1>4, <2>1, AncestorsTransitive
<1>7. CASE d # Genesis /\ job' = AtEnd(d) /\ view' = view
  <2>1. d \in Blocks \ {Genesis} /\ d \in DOMAIN undo
    BY <1>6, <1>7, TipOK DEF Inv
  <2>2. undo[d] \in UndoType
    BY <2>1 DEF Inv, BlocksOK, UndoFor
  <2>3. job' = [job EXCEPT !.block = d, !.pos = Len(Txs[d]), !.undo = undo[d]]
    BY <1>7 DEF AtEnd
  <2>4. JobAt(job', "verify", d, Len(Txs[d]), undo[d])
    BY <1>1, <1>3, <2>1, <2>2, <2>3, JobEnds
  <2>5. view' = CoinsTo(d, Len(Txs[d])) /\ Len(Txs[d]) \in 0 .. Len(Txs[d])
    BY <1>3, <1>7, <2>1, CoinsToEnds, EndOK
  <2> HIDE DEF d
  <2>6. CoinsOK' /\ JobOK'
    BY <1>1, <1>3, <1>6, <2>1, <2>4, <2>5, JobGoesOn
  <2> QED
    BY <1>5, <2>6 DEF Inv
<1>8. CASE job' = [AtStart(b) EXCEPT !.op = "reconnect"] /\ view' = view
  <2>1. job' = [[job EXCEPT !.block = b, !.pos = 0, !.undo = NoUndo] EXCEPT !.op = "reconnect"]
    BY <1>8 DEF AtStart
  <2> HIDE DEF b
  <2>2. JobAt(job', "reconnect", b, 0, NoUndo)
    BY <1>3, <2>1, JobStarts
  <2>3. 0 \in 0 .. Len(Txs[b]) /\ UndoFor(NoUndo, b, 0)
    BY <1>3, BlockTxs, NoUndoType
  <2>4. ValidTo(b, 0)
    BY <1>3, <1>4, <2>3, AncestorsSelf, ValidAncestors
  <2>5. CoinsOK' /\ JobOK'
    BY <1>3, <1>4, <1>8, <2>2, <2>3, <2>4, JobGoesOn
  <2> QED
    BY <1>5, <2>5 DEF Inv
<1>9. CASE job' = Idle /\ view' = coins
  <2>1. CoinsOK'
    BY <1>1, <1>3, <1>9, IdleJob DEF CoinsOK
  <2>2. JobOK'
    BY <1>9, JobOver
  <2> QED
    BY <1>5, <2>1, <2>2 DEF Inv
<1> QED
  BY <1>2, <1>7, <1>8, <1>9

LEMMA NextInv ==
    ASSUME StakesKeepOutput, Inv, [Next]_vars
    PROVE  Inv'
<1>1. CASE \E b \in Blocks \ {Genesis} : ProcessNewBlock(b) \/ ConnectTip(b)
  BY <1>1, ProcessNewBlockInv, ConnectTipInv
<1>2. CASE DisconnectTip
  BY <1>2, DisconnectTipInv
<1>3. CASE VerifyChain
  BY <1>3, VerifyChainInv
<1>4. CASE Restart
  BY <1>4, RestartInv
<1>5. CASE ConnectTx
  BY <1>5, ConnectTxInv
<1>6. CASE ConnectBlockFails
  BY <1>6, ConnectBlockFailsInv
<1>7. CASE ConnectBlock
  BY <1>7, ConnectBlockInv
<1>8. CASE DisconnectTx
  BY <1>8, DisconnectTxInv
<1>9. CASE DisconnectBlock
  BY <1>9, DisconnectBlockInv
<1>10. CASE VerifyNext
  BY <1>10, VerifyNextInv
<1>11. CASE UNCHANGED vars
  BY <1>11 DEF vars, Inv, RestOK, BlocksOK, CoinsOK, JobOK
<1> QED
  BY <1>1, <1>2, <1>3, <1>4, <1>5, <1>6, <1>7, <1>8, <1>9, <1>10, <1>11 DEF Next

\* The invariant, for any tree of blocks and any transactions, as long as no
\* coinstake is spent completely.
THEOREM SpecInv ==
    ASSUME StakesKeepOutput
    PROVE  Spec => []Inv
<1>1. Init => Inv
  BY InitInv
<1>2. Inv /\ [Next]_vars => Inv'
  BY NextInv
<1> QED
  BY <1>1, <1>2, PTL DEF Spec

------------------------------------------------------------------------------
(* What the invariant says.                                                 *)

LEMMA InvType == Inv => TypeOK
<1> SUFFICES ASSUME Inv PROVE TypeOK
  OBVIOUS
<1>1. tip \in Blocks
  BY TipOK DEF Inv
<1>2. coins \in [Txids -> CCoins]
  BY <1>1, CoinsAfterType DEF Inv, CoinsOK
<1>3. view \in [Txids -> CCoins]
  <2>1. CASE job.op = "idle"
    BY <1>2, <2>1 DEF Inv, CoinsOK
  <2>2. CASE job.op # "idle"
    BY <2>2, AtWork, CoinsToType
  <2> QED
    BY <2>1, <2>2
<1>4. DOMAIN undo \subseteq Blocks /\ \A b \in DOMAIN undo : IsUndo(undo[b])
  BY UndoTypeMeans DEF Inv, BlocksOK, UndoFor
<1>5. job \in JobType /\ job.pos \in 0 .. Len(Txs[job.block]) /\ job.clean
  BY DEF Inv, JobOK
<1>6. /\ job.op \in {"idle", "connect", "disconnect", "verify", "reconnect"}
      /\ job.block \in Blocks /\ job.undo \in UndoType /\ job.clean \in BOOLEAN
  BY <1>5 DEF JobType
<1>7. DOMAIN job = DOMAIN Idle
  BY <1>5 DEF JobType, Idle
<1>8. IsUndo(job.undo)
  BY <1>6, UndoTypeMeans
<1> QED
  BY <1>1, <1>2, <1>3, <1>4, <1>5, <1>6, <1>7, <1>8 DEF Inv, RestOK, TypeOK

LEMMA InvCoins == Inv => CoinsExact
<1> SUFFICES ASSUME Inv PROVE CoinsExact
  OBVIOUS
<1>1. TypeOK /\ job.clean /\ coins = CoinsAfter(Confirmed[tip], tip)
  BY InvType DEF Inv, CoinsOK, JobOK
<1>2. view = CoinsAfter(InView, IF job = Idle THEN tip ELSE job.block)
  <2>1. CASE job.op = "idle"
    <3>1. job = Idle /\ view = coins
      BY <2>1 DEF Inv, JobOK, CoinsOK
    <3> QED
      BY <1>1, <3>1 DEF InView
  <2>2. CASE job.op # "idle"
    <3>1. job # Idle
      BY <2>2, IdleJob
    <3>2. view = CoinsTo(job.block, job.pos)
      BY <2>2, AtWork
    <3> QED
      BY <3>1, <3>2 DEF InView, CoinsTo, Prefix
  <2> QED
    BY <2>1, <2>2
<1> QED
  BY <1>1, <1>2 DEF CoinsExact

LEMMA InvChain == Inv => ChainValid
<1> SUFFICES ASSUME Inv, NEW d \in Ancestors[tip], NEW e \in Ancestors[tip],
                    NEW i \in DOMAIN Txs[d], NEW j \in DOMAIN Txs[e]
             PROVE  /\ <<d, i>> # <<e, j>> =>
                          /\ Txs[d][i] # Txs[e][j]
                          /\ Inputs(Txs[d][i]) \cap Inputs(Txs[e][j]) = {}
                    /\ OutsOf(Txs[d][i], Inputs(Txs[e][j])) # {} =>
                          /\ Height[d] < Height[e] \/ (d = e /\ i < j)
                          /\ Tx[Txs[d][i]].kind # "plain" => Height[e] - Height[d] >= Maturity
  BY DEF ChainValid
<1>1. tip # Genesis
  <2> SUFFICES ASSUME tip = Genesis PROVE FALSE
    OBVIOUS
  <2>1. d = Genesis
    BY AncestorsEquation
  <2> QED
    BY <2>1, BlockAssumption
<1>2. tip \in Blocks \ {Genesis} /\ Valid(tip)
  BY <1>1, TipOK DEF Inv
<1>3. <<d, i>> # <<e, j>> => /\ Txs[d][i] # Txs[e][j]
                             /\ Inputs(Txs[d][i]) \cap Inputs(Txs[e][j]) = {}
  BY <1>2, ValidChain
<1>4. OutsOf(Txs[d][i], Inputs(Txs[e][j])) # {} =>
          /\ Height[d] < Height[e] \/ (d = e /\ i < j)
          /\ Tx[Txs[d][i]].kind # "plain" => Height[e] - Height[d] >= Maturity
  BY <1>2, ValidOrder
<1> QED
  BY <1>3, <1>4

\* CoinsExact: as long as no coinstake is spent completely, pcoinsTip is
\* always the unspent outputs of the active chain, and so is the view of
\* ConnectBlock or DisconnectBlock after every transaction; DisconnectBlock
\* never finds the coins or the undo files at odds with a block.
THEOREM SpecCoinsExact ==
    ASSUME StakesKeepOutput
    PROVE  Spec => []CoinsExact
BY SpecInv, InvCoins, PTL

\* ChainValid: the active chain spends no output twice, too early or before it
\* exists, whatever was connected, disconnected and verified before.
THEOREM SpecChainValid ==
    ASSUME StakesKeepOutput
    PROVE  Spec => []ChainValid
BY SpecInv, InvChain, PTL

------------------------------------------------------------------------------
(* mapStakeSpent.                                                           *)

\* Coinstakes have one input, as the wallet makes them (MCBlockUndoTwoInputs).
SingleStakes == \A b \in Blocks : IsProofOfStake(b) => Len(Tx[Txs[b][2]].ins) = 1

\* VerifyDB reconnects what it disconnects, at the start as far back as a
\* reorganisation goes, which are the defaults of AppInit2 (MCBlockUndoVerify).
VerifiesFully ==
    /\ Startup.level >= 4 /\ Startup.depth >= MaxReorg
    /\ \A c \in Verifications : c.level >= 3 => c.level >= 4

\* m has what the chain up to the k-th transaction of b spends in blocks of
\* height h or more, with these heights.
Complete(m, b, k, h) ==
    \A d \in Ancestors[b] \ {Genesis} : \A i \in DOMAIN Txs[d] :
        ((d = b => i <= k) /\ Height[d] >= h) =>
            \A o \in Inputs(Txs[d][i]) : o \in DOMAIN m /\ m[o] = Height[d]

\* Besides, it has only what that chain spends.
StakesTo(m, b, k, h) == DOMAIN m \subseteq Spent(Prefix(b, k)) /\ Complete(m, b, k, h)
StakesOf(m, b, h) == DOMAIN m \subseteq Spent(Confirmed[b]) /\ Complete(m, b, Len(Txs[b]), h)

\* The entries follow the view in which blocks are disconnected; a block that is
\* connected adds its own at the end.  After a restart there are none until
\* VerifyDB has gone back far enough.
StakeOK ==
    /\ top >= Height[tip]
    /\ job.op \in {"idle", "connect"} => StakesOf(stakeSpent, tip, top - MaxReorg)
    /\ job.op = "disconnect" => StakesTo(stakeSpent, job.block, job.pos, top - MaxReorg)
    /\ job.op = "verify" =>
          /\ DOMAIN stakeSpent \subseteq Spent(Prefix(job.block, job.pos))
          /\ \/ StakesTo(stakeSpent, job.block, job.pos, top - MaxReorg)
             \/ job.low <= top - MaxReorg
          /\ job.level >= 4
    /\ job.op = "reconnect" => StakesOf(stakeSpent, Parent[job.block], top - MaxReorg)

LEMMA StakesEnds ==
    ASSUME NEW b \in Blocks \ {Genesis}, NEW m, NEW h
    PROVE  /\ StakesTo(m, b, 0, h) <=> StakesOf(m, Parent[b], h)
           /\ StakesTo(m, b, Len(Txs[b]), h) <=> StakesOf(m, b, h)
<1>1. Ancestors[b] = {b} \cup Ancestors[Parent[b]] /\ b \notin Ancestors[Parent[b]]
  BY ProperAncestor
<1>2. \A i \in DOMAIN Txs[b] : ~ (i <= 0)
  BY BlockTxs
<1>3. Parent[b] \in Blocks
  BY ParentOK
<1>4. \A i \in DOMAIN Txs[Parent[b]] : i <= Len(Txs[Parent[b]])
  BY <1>3, BlockTxs
<1>5. Complete(m, b, 0, h) <=>
          \A d \in Ancestors[Parent[b]] \ {Genesis} : \A i \in DOMAIN Txs[d] :
              Height[d] >= h => \A o \in Inputs(Txs[d][i]) : o \in DOMAIN m /\ m[o] = Height[d]
  BY <1>1, <1>2 DEF Complete
<1>6. Complete(m, Parent[b], Len(Txs[Parent[b]]), h) <=>
          \A d \in Ancestors[Parent[b]] \ {Genesis} : \A i \in DOMAIN Txs[d] :
              Height[d] >= h => \A o \in Inputs(Txs[d][i]) : o \in DOMAIN m /\ m[o] = Height[d]
  BY <1>4 DEF Complete
<1>7. Prefix(b, 0) = Confirmed[Parent[b]] /\ Prefix(b, Len(Txs[b])) = Confirmed[b]
  BY PrefixEnds
<1> QED
  BY <1>5, <1>6, <1>7 DEF StakesTo, StakesOf

\* The converse of PrefixMember.
LEMMA InPrefix ==
    ASSUME NEW b \in Blocks \ {Genesis}, NEW k \in 0 .. Len(Txs[b]),
           NEW d \in Ancestors[b] \ {Genesis}, NEW i \in DOMAIN Txs[d], d = b => i <= k
    PROVE  Txs[d][i] \in Prefix(b, k)
<1>1. d \in Blocks \ {Genesis} /\ i \in 1 .. Len(Txs[d])
  BY AncestorsSelf, BlockTxs
<1>2. i \in 0 .. Len(Txs[d]) /\ Txs[d][i] \in Prefix(d, i)
  BY <1>1, PrefixStep
<1> QED
  BY <1>2, PrefixGrows

LEMMA SpentStep ==
    ASSUME NEW b \in Blocks \ {Genesis}, NEW k \in 1 .. Len(Txs[b])
    PROVE  Spent(Prefix(b, k)) = Spent(Prefix(b, k - 1)) \cup Inputs(Txs[b][k])
<1> DEFINE S == Prefix(b, k - 1)
           t == Txs[b][k]
<1>1. Prefix(b, k) = S \cup {t}
  BY PrefixStep
<1> HIDE DEF S, t
<1> QED
  BY <1>1 DEF Spent, S, t

\* Disconnecting a transaction erases its inputs and nothing else's.
LEMMA StakesBack ==
    ASSUME NEW b \in Blocks \ {Genesis}, NEW k \in 1 .. Len(Txs[b]), ValidTo(b, k), NEW m, NEW h
    PROVE  /\ DOMAIN m \subseteq Spent(Prefix(b, k)) =>
                 DOMAIN m \ Inputs(Txs[b][k]) \subseteq Spent(Prefix(b, k - 1))
           /\ StakesTo(m, b, k, h) =>
                 StakesTo([o \in DOMAIN m \ Inputs(Txs[b][k]) |-> m[o]], b, k - 1, h)
<1> DEFINE t == Txs[b][k]
           S == Prefix(b, k - 1)
           E == DOMAIN m \ Inputs(t)
           n == [o \in E |-> m[o]]
<1>1. DOMAIN m \subseteq Spent(Prefix(b, k)) => E \subseteq Spent(S)
  BY SpentStep
<1>2. Complete(m, b, k, h) => Complete(n, b, k - 1, h)
  <2> SUFFICES ASSUME Complete(m, b, k, h), NEW d \in Ancestors[b] \ {Genesis},
                      NEW i \in DOMAIN Txs[d], d = b => i <= k - 1, Height[d] >= h,
                      NEW o \in Inputs(Txs[d][i])
               PROVE  o \in DOMAIN n /\ n[o] = Height[d]
    BY DEF Complete
  <2>1. k - 1 \in 0 .. Len(Txs[b])
    BY PrefixStep
  <2>2. Txs[d][i] \in S
    BY <2>1, InPrefix
  <2>3. o \notin Inputs(t)
    BY <2>2, ValidSteps, ConnectableMeans DEF Spent
  <2>4. d = b => i <= k
    <3>1. d = b => i \in Nat
      BY BlockTxs
    <3> QED
      BY <3>1
  <2>5. o \in DOMAIN m /\ m[o] = Height[d]
    BY <2>4 DEF Complete
  <2> HIDE DEF t
  <2> QED
    BY <2>3, <2>5
<1>3. DOMAIN n = E
  OBVIOUS
<1> HIDE DEF n, E
<1>4. StakesTo(m, b, k, h) => StakesTo(n, b, k - 1, h)
  BY <1>1, <1>2, <1>3 DEF StakesTo
<1> QED
  BY <1>1, <1>4 DEF n, E

\* Connecting a block adds its inputs and keeps those of the last MaxReorg blocks.
LEMMA StakesForward ==
    ASSUME RestOK, NEW b \in Blocks \ {Genesis}, Valid(b), NEW h \in Int, NEW g \in Int,
           StakesOf(stakeSpent, Parent[b], h), h <= g, Height[b] - MaxReorg <= g
    PROVE  StakesOf(ConnectStakeSpent(b), b, g)
<1> DEFINE old == DOMAIN stakeSpent
           all == [o \in old \cup StakeInputs(b) |-> IF o \in old THEN stakeSpent[o] ELSE Height[b]]
           D == {q \in DOMAIN all : all[q] >= Height[b] - MaxReorg}
           n == [o \in D |-> all[o]]
<1>1. n = ConnectStakeSpent(b)
  BY DEF ConnectStakeSpent
<1>2. Height[b] \in Nat /\ MaxReorg \in Nat /\ Height[b] >= Height[b] - MaxReorg
  BY HeightAssumption, BoundAssumption
<1>3. old \subseteq Spent(Confirmed[Parent[b]]) /\ Confirmed[Parent[b]] = Prefix(b, 0)
  BY PrefixEnds DEF StakesOf
<1>4. DOMAIN n \subseteq Spent(Confirmed[b])
  <2>1. StakeInputs(b) \subseteq Spent(Confirmed[b]) /\ Confirmed[Parent[b]] \subseteq Confirmed[b]
    BY ConfirmedEquation DEF StakeInputs, Spent
  <2>2. Spent(Confirmed[Parent[b]]) \subseteq Spent(Confirmed[b])
    BY <2>1 DEF Spent
  <2>3. DOMAIN n \subseteq old \cup StakeInputs(b)
    OBVIOUS
  <2> HIDE DEF n, old
  <2> QED
    BY <1>3, <2>1, <2>2, <2>3
<1>5. ASSUME NEW d \in Ancestors[b] \ {Genesis}, NEW i \in DOMAIN Txs[d], Height[d] >= g,
             NEW o \in Inputs(Txs[d][i])
      PROVE  o \in DOMAIN n /\ n[o] = Height[d]
  <2>1. d \in Blocks /\ Height[d] \in Nat
    BY AncestorsSelf, HeightAssumption
  <2>2. CASE d = b
    <3>1. i \in 1 .. Len(Txs[b])
      BY <2>2, BlockTxs
    <3>2. Connectable(b, i) /\ i - 1 \in 0 .. Len(Txs[b])
      BY <1>5, <2>2, <3>1, PrefixStep, BlockTxs, AncestorsSelf DEF Valid, ValidTo
    <3>3. o \notin Spent(Prefix(b, i - 1))
      BY <1>5, <2>2, <3>1, <3>2, ConnectableMeans
    <3>4. Confirmed[Parent[b]] \subseteq Prefix(b, i - 1)
      BY <3>2, PrefixType
    <3>5. o \notin old
      BY <1>3, <3>3, <3>4 DEF Spent
    <3>6. o \in StakeInputs(b)
      BY <1>5, <2>2 DEF StakeInputs, Elements
    <3>7. o \in DOMAIN all /\ all[o] = Height[b]
      BY <3>5, <3>6
    <3> HIDE DEF all
    <3> QED
      BY <1>2, <2>2, <3>7
  <2>3. CASE d # b
    <3>1. d \in Ancestors[Parent[b]] \ {Genesis}
      BY <2>3, ProperAncestor
    <3>2. d = Parent[b] => i <= Len(Txs[Parent[b]])
      BY <2>1, BlockTxs
    <3>3. Height[d] >= h /\ Height[d] >= Height[b] - MaxReorg
      BY <1>2, <1>5, <2>1
    <3>4. o \in old /\ stakeSpent[o] = Height[d]
      BY <3>1, <3>2, <3>3, <1>5 DEF StakesOf, Complete
    <3>5. o \in DOMAIN all /\ all[o] = Height[d]
      BY <3>4
    <3> HIDE DEF all
    <3> QED
      BY <3>3, <3>5
  <2> QED
    BY <2>2, <2>3
<1> HIDE DEF n
<1>6. Complete(n, b, Len(Txs[b]), g)
  BY <1>5 DEF Complete
<1>7. StakesOf(n, b, g)
  BY <1>4, <1>6 DEF StakesOf
<1> QED
  BY <1>1, <1>7

\* Which parts of a job a step leaves alone.
LEMMA JobLimits ==
    ASSUME NEW j \in JobType, NEW b, NEW k, NEW u, NEW op, NEW ok
    PROVE  /\ [j EXCEPT !.block = b, !.pos = k, !.undo = u].low = j.low
           /\ [j EXCEPT !.block = b, !.pos = k, !.undo = u].level = j.level
           /\ [j EXCEPT !.pos = k, !.clean = ok].low = j.low
           /\ [j EXCEPT !.pos = k, !.clean = ok].level = j.level
BY DEF JobType

LEMMA VerifyLimits ==
    ASSUME NEW c \in Check
    PROVE  VerifyDB(c).level = c.level /\ VerifyDB(c).low = Height[tip] - c.depth
BY DEF VerifyDB, Idle

\* Without a job, or with one that only starts to connect.
LEMMA StakeRests ==
    ASSUME job'.op \in {"idle", "connect"}, top' >= Height[tip'],
           StakesOf(stakeSpent', tip', top' - MaxReorg)
    PROVE  StakeOK'
BY DEF StakeOK

LEMMA HeightsOK ==
    ASSUME Inv
    PROVE  /\ top \in Nat /\ MaxReorg \in Nat /\ top - MaxReorg \in Int
           /\ tip \in Blocks /\ Height[tip] \in Nat
<1>1. top \in Nat /\ MaxReorg \in Nat
  BY BoundAssumption DEF Inv, RestOK
<1>2. tip \in Blocks
  BY TipOK DEF Inv
<1> QED
  BY <1>1, <1>2, HeightAssumption

LEMMA StakeInit == Init => StakeOK
<1> SUFFICES ASSUME Init PROVE StakeOK
  OBVIOUS
<1>1. Height[Genesis] = 0 /\ Ancestors[Genesis] = {Genesis}
  BY HeightAssumption, AncestorsEquation
<1>2. DOMAIN stakeSpent = {}
  BY DEF Init
<1>3. StakesOf(stakeSpent, Genesis, top - MaxReorg)
  BY <1>1, <1>2 DEF StakesOf, Complete
<1> QED
  BY <1>1, <1>3, IdleJob DEF Init, StakeOK

LEMMA ProcessNewBlockStake ==
    ASSUME Inv, StakeOK, NEW b \in Blocks \ {Genesis}, ProcessNewBlock(b)
    PROVE  StakeOK'
BY DEF StakeOK, ProcessNewBlock

LEMMA ConnectTipStake ==
    ASSUME Inv, StakeOK, NEW b \in Blocks \ {Genesis}, ConnectTip(b)
    PROVE  StakeOK'
<1>1. /\ job = Idle
      /\ job' = [[job EXCEPT !.block = b, !.pos = 0, !.undo = NoUndo] EXCEPT !.op = "connect"]
      /\ UNCHANGED <<tip, stakeSpent, top>>
  BY DEF ConnectTip, AtStart
<1>2. JobAt(job', "connect", b, 0, NoUndo)
  BY <1>1, IdleJob, JobStarts
<1>3. job'.op = "connect"
  BY <1>2 DEF JobAt
<1> QED
  BY <1>1, <1>3, IdleJob, StakeRests DEF StakeOK

LEMMA DisconnectTipStake ==
    ASSUME Inv, StakeOK, DisconnectTip
    PROVE  StakeOK'
<1>1. /\ job = Idle /\ tip # Genesis
      /\ job' = [[job EXCEPT !.block = tip, !.pos = Len(Txs[tip]), !.undo = undo[tip]]
                   EXCEPT !.op = "disconnect"]
      /\ UNCHANGED <<tip, stakeSpent, top>>
  BY DEF DisconnectTip, AtEnd
<1>2. tip \in Blocks \ {Genesis} /\ undo[tip] \in UndoType
  BY <1>1, TipOK DEF Inv
<1>3. job'.op = "disconnect" /\ job'.block = tip /\ job'.pos = Len(Txs[tip])
  <2>1. JobAt(job', "disconnect", tip, Len(Txs[tip]), undo[tip])
    BY <1>1, <1>2, IdleJob, JobEnds
  <2> QED
    BY <2>1 DEF JobAt
<1>4. StakesTo(stakeSpent, tip, Len(Txs[tip]), top - MaxReorg)
  BY <1>1, <1>2, IdleJob, StakesEnds DEF StakeOK
<1> QED
  BY <1>1, <1>3, <1>4 DEF StakeOK

LEMMA VerifyChainStake ==
    ASSUME VerifiesFully, Inv, StakeOK, VerifyChain
    PROVE  StakeOK'
<1>1. job = Idle /\ tip # Genesis /\ UNCHANGED <<tip, stakeSpent, top>>
  BY DEF VerifyChain
<1>2. PICK c \in Check : c.level >= 4 /\ job' = VerifyDB(c)
  BY BoundAssumption DEF VerifyChain, VerifiesFully
<1>3. tip \in Blocks \ {Genesis} /\ undo[tip] \in UndoType
  BY <1>1, TipOK DEF Inv
<1>4. job'.op = "verify" /\ job'.block = tip /\ job'.pos = Len(Txs[tip]) /\ job'.level >= 4
  <2>1. JobAt(job', "verify", tip, Len(Txs[tip]), undo[tip])
    BY <1>2, <1>3, JobVerifies
  <2>2. job'.level = c.level
    BY <1>2, VerifyLimits
  <2> QED
    BY <1>2, <2>1, <2>2 DEF JobAt
<1>5. StakesTo(stakeSpent, tip, Len(Txs[tip]), top - MaxReorg)
  BY <1>1, <1>3, IdleJob, StakesEnds DEF StakeOK
<1>6. DOMAIN stakeSpent \subseteq Spent(Prefix(tip, Len(Txs[tip])))
  BY <1>5 DEF StakesTo
<1> QED
  BY <1>1, <1>4, <1>5, <1>6 DEF StakeOK

LEMMA RestartStake ==
    ASSUME VerifiesFully, Inv, StakeOK, Restart
    PROVE  StakeOK'
<1>1. top' = Height[tip] /\ tip' = tip /\ DOMAIN stakeSpent' = {}
  BY DEF Restart
<1>2. tip \in Blocks /\ Height[tip] \in Nat
  BY HeightsOK
<1>3. CASE tip = Genesis
  <2>1. job' = Idle
    BY <1>3 DEF Restart
  <2>2. StakesOf(stakeSpent', tip', top' - MaxReorg)
    BY <1>1, <1>3, AncestorsEquation DEF StakesOf, Complete
  <2> QED
    BY <1>1, <1>2, <2>1, <2>2, IdleJob, StakeRests
<1>4. CASE tip # Genesis
  <2>1. Startup \in Check /\ Startup.level >= 4 /\ Startup.depth >= MaxReorg /\ MaxReorg \in Nat
    BY BoundAssumption DEF VerifiesFully
  <2>2. Startup.level \in Nat /\ Startup.depth \in Nat
    BY <2>1 DEF Check
  <2>3. ~ (Startup.level < 3)
    BY <2>1, <2>2
  <2>4. job' = VerifyDB(Startup)
    BY <1>4, <2>3 DEF Restart
  <2>5. undo[tip] \in UndoType
    BY <1>4, TipOK DEF Inv
  <2>6. job'.op = "verify" /\ job'.level >= 4 /\ job'.low = Height[tip] - Startup.depth
    <3>1. JobAt(job', "verify", tip, Len(Txs[tip]), undo[tip])
      BY <1>2, <2>1, <2>4, <2>5, JobVerifies
    <3>2. job'.level = Startup.level /\ job'.low = Height[tip] - Startup.depth
      BY <2>1, <2>4, VerifyLimits
    <3> QED
      BY <2>1, <3>1, <3>2 DEF JobAt
  <2>7. job'.low <= top' - MaxReorg
    BY <1>1, <1>2, <2>1, <2>2, <2>6
  <2> QED
    BY <1>1, <1>2, <2>6, <2>7 DEF StakeOK
<1> QED
  BY <1>3, <1>4

LEMMA ConnectTxStake ==
    ASSUME Inv, StakeOK, ConnectTx
    PROVE  StakeOK'
<1>1. job.op \in {"connect", "reconnect"} /\ UNCHANGED <<tip, stakeSpent, top>> /\ job \in JobType
  BY DEF ConnectTx, Connecting, Inv, JobOK
<1>2. job'.op = job.op /\ job'.block = job.block
  BY <1>1 DEF ConnectTx, JobType
<1> QED
  BY <1>1, <1>2 DEF StakeOK

\* VerifyDB can connect again what it has disconnected.
LEMMA ConnectBlockFailsStake ==
    ASSUME Inv, StakeOK, ConnectBlockFails
    PROVE  StakeOK'
<1> DEFINE b == job.block
           k == job.pos + 1
<1>1. /\ job.op \in {"connect", "reconnect"} /\ job.pos < Len(Txs[b])
      /\ ~ (HaveInputs(view, Txs[b][k]) /\ Mature(view, Txs[b][k], Height[b]))
      /\ job' = Idle /\ UNCHANGED <<tip, stakeSpent, top>>
  BY DEF ConnectBlockFails, Connecting, Acceptable
<1>2. /\ b \in Blocks \ {Genesis} /\ job.pos \in 0 .. Len(Txs[b])
      /\ view = CoinsTo(b, job.pos)
  BY <1>1, AtWork
<1> HIDE DEF b
<1>3. k \in 1 .. Len(Txs[b]) /\ k - 1 = job.pos
  <2>1. Len(Txs[b]) \in Nat
    BY <1>2, BlockTxs
  <2> QED
    BY <1>1, <1>2, <2>1
<1> HIDE DEF k
<1>4. ~ Connectable(b, k)
  BY <1>1, <1>2, <1>3 DEF Connectable
<1>5. job.op # "reconnect"
  <2> SUFFICES ASSUME job.op = "reconnect" PROVE FALSE
    OBVIOUS
  <2>1. b \in Ancestors[tip]
    BY DEF Inv, JobOK, b
  <2>2. tip \in Blocks \ {Genesis} /\ Valid(tip)
    <3>1. tip \in Blocks
      BY TipOK DEF Inv
    <3>2. tip # Genesis
      BY <1>2, <2>1, AncestorsEquation
    <3> QED
      BY <3>1, <3>2, TipOK DEF Inv
  <2>3. k \in 0 .. Len(Txs[b])
    BY <1>2, <1>3, PrefixStep
  <2>4. ValidTo(b, k)
    BY <1>2, <2>1, <2>2, <2>3, ValidAncestors
  <2> QED
    BY <1>2, <1>3, <1>4, <2>4, ValidSteps
<1> QED
  BY <1>1, <1>5, IdleJob, StakeRests DEF StakeOK

LEMMA ConnectBlockStake ==
    ASSUME Inv, StakeOK, ConnectBlock
    PROVE  StakeOK'
<1> DEFINE b == job.block
<1>1. job.op \in {"connect", "reconnect"} /\ stakeSpent' = ConnectStakeSpent(b)
  BY DEF ConnectBlock, Connecting
<1>2. /\ job.op = "connect" =>
            tip' = b /\ top' = IF Height[b] > top THEN Height[b] ELSE top
      /\ job.op # "connect" => UNCHANGED <<tip, top>>
      /\ b = tip' => job' = Idle
      /\ b # tip' => job' = AtStart(NextInChain(b))
  BY DEF ConnectBlock
<1>3. job \in JobType /\ job.clean /\ b \in Blocks \ {Genesis}
  BY <1>1, AtWork
<1>4. /\ job.op = "connect" => Parent[b] = tip
      /\ job.op = "reconnect" => b \in Ancestors[tip]
  BY DEF Inv, JobOK
<1>5. Valid(b)
  <2>1. ValidTo(b, job.pos) /\ job.pos = Len(Txs[b])
    BY <1>1 DEF ConnectBlock, Inv, JobOK
  <2> QED
    BY <2>1 DEF Valid
<1>6. /\ top \in Nat /\ MaxReorg \in Nat /\ tip \in Blocks /\ Height[tip] \in Nat
      /\ Height[b] \in Nat /\ top >= Height[tip]
  BY <1>3, HeightsOK, HeightAssumption DEF StakeOK
<1> HIDE DEF b
<1>7. top' \in Nat /\ top <= top' /\ Height[b] <= top' /\ top' >= Height[tip']
  <2>1. CASE job.op = "connect"
    BY <1>2, <1>6, <2>1
  <2>2. CASE job.op = "reconnect"
    <3>1. b = tip \/ Height[b] < Height[tip]
      BY <1>4, <1>6, <2>2, AncestorsHeight
    <3> QED
      BY <1>2, <1>6, <2>2, <3>1
  <2> QED
    BY <1>1, <2>1, <2>2
<1>8. StakesOf(stakeSpent', b, top' - MaxReorg)
  <2>1. StakesOf(stakeSpent, Parent[b], top - MaxReorg)
    BY <1>1, <1>4 DEF StakeOK, b
  <2>2. /\ top - MaxReorg \in Int /\ top' - MaxReorg \in Int /\ top - MaxReorg <= top' - MaxReorg
        /\ Height[b] - MaxReorg <= top' - MaxReorg
    <3>1. \A x, y, r \in Nat : x - r \in Int /\ (x <= y => x - r <= y - r)
      OBVIOUS
    <3> QED
      BY <1>6, <1>7, <3>1
  <2> QED
    BY <1>1, <1>3, <1>5, <2>1, <2>2, StakesForward DEF Inv
<1>9. CASE b = tip'
  BY <1>2, <1>7, <1>8, <1>9, IdleJob, StakeRests
<1>10. CASE b # tip'
  <2> DEFINE d == NextInChain(b)
  <2>1. /\ job.op = "reconnect" /\ tip' = tip
        /\ job' = [job EXCEPT !.block = d, !.pos = 0, !.undo = NoUndo]
    BY <1>1, <1>2, <1>10 DEF AtStart
  <2>2. d \in Ancestors[tip] \ {Genesis} /\ Parent[d] = b
    BY <1>4, <1>6, <1>10, <2>1, NextInChainIs
  <2> HIDE DEF d
  <2>3. d \in Blocks
    BY <1>6, <2>2, AncestorsSelf
  <2>4. job'.op = "reconnect" /\ job'.block = d
    <3>1. JobAt(job', "reconnect", d, 0, NoUndo)
      BY <1>3, <2>1, <2>3, JobStarts
    <3> QED
      BY <3>1 DEF JobAt
  <2> QED
    BY <1>7, <1>8, <2>2, <2>4 DEF StakeOK
<1> QED
  BY <1>9, <1>10

LEMMA DisconnectTxStake ==
    ASSUME Inv, StakeOK, DisconnectTx
    PROVE  StakeOK'
<1> DEFINE b == job.block
           k == job.pos
           t == Txs[b][k]
           ok == (job.clean /\ CleanTx(view, t, job.undo, Height[b]))
           p == job.pos - 1
           h == top - MaxReorg
<1>1. /\ job.op \in {"disconnect", "verify"} /\ k > 0
      /\ job' = [job EXCEPT !.pos = p, !.clean = ok]
      /\ stakeSpent' = [o \in DOMAIN stakeSpent \ Inputs(t) |-> stakeSpent[o]]
      /\ UNCHANGED <<tip, top>>
  BY DEF DisconnectTx, Disconnecting
<1>2. job \in JobType /\ b \in Blocks \ {Genesis} /\ k \in 0 .. Len(Txs[b])
  BY <1>1, AtWork
<1>3. ValidTo(b, k)
  BY <1>1, <1>2, DisconnectingOK
<1> HIDE DEF ok
<1>4. /\ job'.op = job.op /\ job'.block = b /\ job'.pos = k - 1
      /\ job'.low = job.low /\ job'.level = job.level
  BY <1>1, <1>2 DEF JobType
<1>5. k \in 1 .. Len(Txs[b])
  <2>1. Len(Txs[b]) \in Nat
    BY <1>2, BlockTxs
  <2> HIDE DEF b, k
  <2> QED
    BY <1>1, <1>2, <2>1
<1>6. DOMAIN stakeSpent' = DOMAIN stakeSpent \ Inputs(t)
  BY <1>1
<1>7. /\ DOMAIN stakeSpent \subseteq Spent(Prefix(b, k)) =>
            DOMAIN stakeSpent' \subseteq Spent(Prefix(b, k - 1))
      /\ StakesTo(stakeSpent, b, k, h) => StakesTo(stakeSpent', b, k - 1, h)
  BY <1>1, <1>2, <1>3, <1>5, <1>6, StakesBack
<1> QED
  BY <1>1, <1>4, <1>7 DEF StakeOK

LEMMA DisconnectBlockStake ==
    ASSUME Inv, StakeOK, DisconnectBlock
    PROVE  StakeOK'
<1>1. job.op = "disconnect" /\ job.pos = 0 /\ job' = Idle /\ UNCHANGED <<stakeSpent, top>>
  BY DEF DisconnectBlock
<1>2. job.block \in Blocks \ {Genesis} /\ job.block = tip /\ job.clean
  BY <1>1, AtWork DEF Inv, JobOK
<1>3. tip' = Parent[tip]
  BY <1>2 DEF DisconnectBlock
<1>4. StakesOf(stakeSpent, Parent[tip], top - MaxReorg)
  BY <1>1, <1>2, StakesEnds DEF StakeOK
<1>5. top >= Height[Parent[tip]]
  <2>1. Height[tip] = Height[Parent[tip]] + 1 /\ Height[Parent[tip]] \in Nat /\ top \in Nat
    BY <1>2, ParentOK, HeightsOK
  <2>2. top >= Height[tip]
    BY DEF StakeOK
  <2> QED
    BY <2>1, <2>2
<1> QED
  BY <1>1, <1>3, <1>4, <1>5, IdleJob, StakeRests

LEMMA VerifyNextStake ==
    ASSUME Inv, StakeOK, VerifyNext
    PROVE  StakeOK'
<1> DEFINE b == job.block
           d == Parent[b]
           h == top - MaxReorg
<1>1. job.op = "verify" /\ job.pos = 0 /\ UNCHANGED <<tip, stakeSpent, top>>
  BY DEF VerifyNext
<1>2. job \in JobType /\ job.clean /\ b \in Blocks \ {Genesis} /\ d \in Blocks
  BY <1>1, AtWork, ParentOK
<1>3. /\ job.level >= 4 /\ DOMAIN stakeSpent \subseteq Spent(Prefix(b, 0))
      /\ StakesTo(stakeSpent, b, 0, h) \/ job.low <= h
  BY <1>1 DEF StakeOK
<1>4. \/ d # Genesis /\ job' = AtEnd(d)
      \/ (d = Genesis \/ Height[d] < job.low) /\ job' = [AtStart(b) EXCEPT !.op = "reconnect"]
  BY <1>2, <1>3 DEF VerifyNext
<1>5. Prefix(b, 0) = Confirmed[d]
  BY <1>2, PrefixEnds
<1>6. CASE d # Genesis /\ job' = AtEnd(d)
  <2>1. d \in Blocks \ {Genesis}
    BY <1>2, <1>6
  <2>2. undo[d] \in UndoType
    <3>1. b \in Ancestors[tip] /\ d \in Ancestors[b] /\ tip \in Blocks
      BY <1>1, <1>2, DisconnectingOK, AncestorsEquation, AncestorsSelf, HeightsOK
    <3>2. d \in DOMAIN undo
      BY <2>1, <3>1, AncestorsTransitive, TipOK DEF Inv
    <3> QED
      BY <3>2 DEF Inv, BlocksOK, UndoFor
  <2>3. job' = [job EXCEPT !.block = d, !.pos = Len(Txs[d]), !.undo = undo[d]]
    BY <1>6 DEF AtEnd
  <2>4. job'.op = "verify" /\ job'.block = d /\ job'.pos = Len(Txs[d])
    <3>1. JobAt(job', "verify", d, Len(Txs[d]), undo[d])
      BY <1>1, <1>2, <2>1, <2>2, <2>3, JobEnds
    <3> QED
      BY <3>1 DEF JobAt
  <2>5. job'.low = job.low /\ job'.level = job.level
    BY <1>2, <2>3, JobLimits
  <2>6. Prefix(d, Len(Txs[d])) = Confirmed[d]
    BY <2>1, PrefixEnds
  <2>7. StakesTo(stakeSpent, b, 0, h) => StakesTo(stakeSpent, d, Len(Txs[d]), h)
    BY <1>2, <2>1, StakesEnds
  <2> HIDE DEF d, b
  <2> QED
    BY <1>1, <1>3, <1>5, <2>4, <2>5, <2>6, <2>7 DEF StakeOK
<1>7. CASE /\ d = Genesis \/ Height[d] < job.low
           /\ job' = [AtStart(b) EXCEPT !.op = "reconnect"]
  <2>1. job' = [[job EXCEPT !.block = b, !.pos = 0, !.undo = NoUndo] EXCEPT !.op = "reconnect"]
    BY <1>7 DEF AtStart
  <2>2. job'.op = "reconnect" /\ job'.block = b
    <3>1. JobAt(job', "reconnect", b, 0, NoUndo)
      BY <1>2, <2>1, JobStarts
    <3> QED
      BY <3>1 DEF JobAt
  <2>3. StakesOf(stakeSpent, d, h)
    <3>1. CASE StakesTo(stakeSpent, b, 0, h)
      BY <1>2, <3>1, StakesEnds
    <3>2. CASE job.low <= h
      <4>1. h \in Int /\ job.low \in Int
        BY <1>2, HeightsOK DEF JobType
      <4>2. ASSUME NEW e \in Ancestors[d] \ {Genesis} PROVE ~ (Height[e] >= h)
        <5>1. d # Genesis
          BY <4>2, AncestorsEquation
        <5>2. Height[d] < job.low /\ Height[d] \in Nat /\ Height[e] \in Nat
              /\ (e = d \/ Height[e] < Height[d])
          BY <1>2, <1>7, <5>1, AncestorsHeight
        <5> HIDE DEF h, d
        <5> QED
          BY <3>2, <4>1, <5>2
      <4> HIDE DEF h
      <4> QED
        BY <1>3, <1>5, <4>2 DEF StakesOf, Complete
    <3> QED
      BY <1>3, <3>1, <3>2
  <2> QED
    BY <1>1, <2>2, <2>3 DEF StakeOK
<1> QED
  BY <1>4, <1>6, <1>7

LEMMA NextStake ==
    ASSUME VerifiesFully, Inv, StakeOK, [Next]_vars
    PROVE  StakeOK'
<1>1. CASE \E b \in Blocks \ {Genesis} : ProcessNewBlock(b) \/ ConnectTip(b)
  BY <1>1, ProcessNewBlockStake, ConnectTipStake
<1>2. CASE DisconnectTip
  BY <1>2, DisconnectTipStake
<1>3. CASE VerifyChain
  BY <1>3, VerifyChainStake
<1>4. CASE Restart
  BY <1>4, RestartStake
<1>5. CASE ConnectTx
  BY <1>5, ConnectTxStake
<1>6. CASE ConnectBlockFails
  BY <1>6, ConnectBlockFailsStake
<1>7. CASE ConnectBlock
  BY <1>7, ConnectBlockStake
<1>8. CASE DisconnectTx
  BY <1>8, DisconnectTxStake
<1>9. CASE DisconnectBlock
  BY <1>9, DisconnectBlockStake
<1>10. CASE VerifyNext
  BY <1>10, VerifyNextStake
<1>11. CASE UNCHANGED vars
  BY <1>11 DEF vars, StakeOK
<1> QED
  BY <1>1, <1>2, <1>3, <1>4, <1>5, <1>6, <1>7, <1>8, <1>9, <1>10, <1>11 DEF Next

\* An output that the chain of b has spent and the chain of d has not is
\* spent after the place where they part.
LEMMA SpentAfterFork ==
    ASSUME NEW b \in Blocks, NEW d \in Blocks, NEW a \in Ancestors[b] \cap Ancestors[d],
           NEW o \in Spent(Confirmed[b]), o \notin Spent(Confirmed[d])
    PROVE  \E e \in Ancestors[b] \ {Genesis} :
               Height[e] > Height[a] /\ \E i \in DOMAIN Txs[e] : o \in Inputs(Txs[e][i])
<1>1. PICK s \in Confirmed[b] : o \in Inputs(s)
  BY DEF Spent
<1>2. PICK e \in Ancestors[b] : s \in Elements(Txs[e])
  BY <1>1, ConfirmedIs
<1>3. PICK i \in DOMAIN Txs[e] : s = Txs[e][i]
  BY <1>2 DEF Elements
<1>4. e # Genesis
  BY <1>3, BlockAssumption
<1>5. e \notin Ancestors[a]
  <2> SUFFICES ASSUME e \in Ancestors[a] PROVE FALSE
    OBVIOUS
  <2>1. e \in Ancestors[d]
    BY AncestorsTransitive
  <2>2. s \in Confirmed[d]
    BY <1>2, <2>1, ConfirmedIs
  <2> QED
    BY <1>1, <2>2 DEF Spent
<1>6. a \in Ancestors[e] /\ a # e
  <2>1. a \in Blocks
    BY AncestorsSelf
  <2> QED
    BY <1>5, <2>1, AncestorsTotal, AncestorsSelf
<1>7. Height[a] < Height[e] /\ Height[a] \in Nat /\ Height[e] \in Nat
  BY <1>6, AncestorsSelf, AncestorsHeight
<1>8. Height[e] > Height[a]
  BY <1>7
<1> QED
  BY <1>1, <1>3, <1>4, <1>8

LEMMA StakeFound ==
    ASSUME SingleStakes, Inv, StakeOK
    PROVE  ForkStakeAdmitted
<1> SUFFICES ASSUME job = Idle, NEW b \in Blocks \ {Genesis}, StakeKnown(b),
                    NEW a \in Ancestors[tip] \cap Ancestors[Parent[b]], Height[a] >= top - MaxReorg
             PROVE  StakeAdmitted(b)
  BY DEF ForkStakeAdmitted
<1> DEFINE t == Txs[b][2]
           o == Tx[t].ins[1]
<1>1. IsProofOfStake(b) /\ Len(Tx[t].ins) = 1 /\ 2 \in 1 .. Len(Txs[b])
  <2>1. Len(Txs[b]) \in Nat
    BY BlockTxs
  <2>2. IsProofOfStake(b) /\ Len(Tx[t].ins) = 1
    BY DEF StakeKnown, SingleStakes
  <2> QED
    BY <2>1, <2>2 DEF IsProofOfStake
<1>2. t \in Txids
  BY <1>1, BlockTxs
<1>3. Inputs(t) = {o} /\ o \in Outpoints
  <2>1. Tx[t].ins \in Seq(Outpoints)
    BY <1>2, TxType
  <2>2. DOMAIN Tx[t].ins = {1} /\ o \in Outpoints
    BY <1>1, <2>1
  <2> QED
    BY <2>2 DEF Inputs, Elements
<1> HIDE DEF o, t
<1>4. /\ IsAvailable(CoinsAfter(Confirmed[Parent[b]], Parent[b]), o)
      /\ o[1] \in Confirmed[tip]
  BY <1>3 DEF StakeKnown, t
<1>5. Parent[b] \in Blocks /\ tip \in Blocks /\ top - MaxReorg \in Int
  BY ParentOK, HeightsOK
<1>6. o[1] \in Confirmed[Parent[b]] /\ o[2] \in Tx[o[1]].outs /\ o \notin Spent(Confirmed[Parent[b]])
  BY <1>2, <1>3, <1>4, <1>5, ConfirmedType, Available, TxType
<1>7. CASE o \notin Spent(Confirmed[tip])
  <2>1. IsAvailable(CoinsAfter(Confirmed[tip], tip), o)
    BY <1>2, <1>3, <1>4, <1>5, <1>6, <1>7, ConfirmedType, Available, TxType
  <2>2. HaveInputs(coins, t)
    BY <1>3, <2>1 DEF HaveInputs, Inv, CoinsOK
  <2> QED
    BY <2>2 DEF StakeAdmitted, t
<1>8. CASE o \in Spent(Confirmed[tip])
  <2>1. PICK e \in Ancestors[tip] \ {Genesis} :
            Height[e] > Height[a] /\ \E i \in DOMAIN Txs[e] : o \in Inputs(Txs[e][i])
    BY <1>5, <1>6, <1>8, SpentAfterFork
  <2>2. PICK i \in DOMAIN Txs[e] : o \in Inputs(Txs[e][i])
    BY <2>1
  <2>3. e \in Blocks /\ a \in Blocks
    BY <1>5, AncestorsSelf
  <2>4. Height[e] \in Nat /\ Height[a] \in Nat
    BY <2>3, HeightAssumption
  <2>5. Height[e] >= top - MaxReorg
    BY <1>5, <2>1, <2>4
  <2>6. e = tip => i <= Len(Txs[tip])
    BY <2>3, BlockTxs
  <2>7. StakesOf(stakeSpent, tip, top - MaxReorg)
    BY IdleJob DEF StakeOK
  <2>8. o \in DOMAIN stakeSpent
    BY <2>2, <2>5, <2>6, <2>7 DEF StakesOf, Complete
  <2> QED
    BY <2>8 DEF StakeAdmitted, o, t
<1> QED
  BY <1>7, <1>8

\* ForkStakeAdmitted: mapStakeSpent always has the stake of a fork block that
\* the active chain has spent, if coinstakes have one input, no coinstake is
\* spent completely, and VerifyDB reconnects what it disconnects, after a
\* restart as far back as a reorganisation goes.
THEOREM SpecForkStakeAdmitted ==
    ASSUME StakesKeepOutput, SingleStakes, VerifiesFully
    PROVE  Spec => []ForkStakeAdmitted
<1>1. Init => StakeOK
  BY StakeInit
<1>2. Inv /\ StakeOK /\ [Next]_vars => StakeOK'
  BY NextStake
<1>3. Inv /\ StakeOK => ForkStakeAdmitted
  BY StakeFound
<1> QED
  BY <1>1, <1>2, <1>3, SpecInv, PTL DEF Spec

=============================================================================
