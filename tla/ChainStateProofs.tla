--------------------------- MODULE ChainStateProofs ---------------------------
(***************************************************************************)
(* The invariants of ChainState, for every finite tree of blocks, every    *)
(* set of verdicts and every bound.  Inv holds whatever happens and gives  *)
(* LinksExact, CandidatesGoodEnough and DiskConsistent.  Clean, Cause and  *)
(* Best add to it what holds when certain operations do not occur; the     *)
(* hypotheses of their theorems are the limits that the counterexamples of *)
(* MCChainRestart, MCChainReconsider and MCChainStuck show.                *)
(***************************************************************************)
EXTENDS ChainState, WellFoundedInduction, FiniteSetTheorems, TLAPS

------------------------------------------------------------------------------
(* Induction over the natural numbers, for sets of numbers.                 *)

\* A set of numbers that is not empty has a least element.
LEMMA LeastNatural ==
    ASSUME NEW S \in SUBSET Nat, S # {}
    PROVE  \E m \in S : \A k \in S : m <= k
<1> DEFINE R == {ss \in Nat \X Nat : ss[1] < ss[2]}
<1>1. IsWellFoundedOn(R, Nat)
  BY NatLessThanWellFounded DEF OpToRel
<1>2. \A j, k \in Nat : j < k => <<j, k>> \in R
  OBVIOUS
<1> HIDE DEF R
<1>3. PICK m \in S : \A k \in S : ~ (<<k, m>> \in R)
  BY <1>1, WFMin
<1>4. \A k \in S : ~ (k < m)
  BY <1>2, <1>3
<1> QED
  BY <1>3, <1>4

\* Complete induction: a set that has a number whenever it has all smaller ones.
LEMMA CompleteInduction ==
    ASSUME NEW S, \A n \in Nat : (\A k \in Nat : k < n => k \in S) => n \in S
    PROVE  Nat \subseteq S
<1> DEFINE T == Nat \ S
<1> SUFFICES ASSUME T # {} PROVE FALSE
  OBVIOUS
<1>1. PICK m \in T : \A k \in T : m <= k
  <2> HIDE DEF T
  <2>1. T \in SUBSET Nat
    BY DEF T
  <2> QED
    BY <2>1, LeastNatural
<1>2. \A k \in Nat : k < m => k \in S
  BY <1>1
<1> QED
  BY <1>1, <1>2

\* Induction from each number to the next, up to N.
LEMMA UpToInduction ==
    ASSUME NEW N \in Nat, NEW S, 0 \in S, \A n \in 1 .. N : n - 1 \in S => n \in S
    PROVE  0 .. N \subseteq S
<1> DEFINE T == {n \in 0 .. N : n \notin S}
<1> SUFFICES ASSUME T # {} PROVE FALSE
  OBVIOUS
<1>1. PICK m \in T : \A k \in T : m <= k
  <2>1. T \in SUBSET Nat
    OBVIOUS
  <2> HIDE DEF T
  <2> QED
    BY <2>1, LeastNatural
<1>2. m \in 1 .. N /\ m \notin S
  BY <1>1
<1>3. m - 1 \in S
  BY <1>1, <1>2
<1> QED
  BY <1>2, <1>3

------------------------------------------------------------------------------
(* The tree.                                                                *)

\* The sets of blocks that contain the parents of their blocks.
ParentClosed == {S \in SUBSET Blocks : \A b \in S \ {Genesis} : Parent[b] \in S}

\* The least of them that contains b.
Least(b) == {a \in Blocks : \A S \in ParentClosed : b \in S => a \in S}

LEMMA LeastClosed == \A b \in Blocks : Least(b) \in ParentClosed /\ b \in Least(b)
BY TreeAssumption DEF Least, ParentClosed

LEMMA LeastEquation ==
    \A b \in Blocks : Least(b) = IF b = Genesis THEN {b} ELSE {b} \cup Least(Parent[b])
<1> TAKE b \in Blocks
<1>1. CASE b = Genesis
  <2>1. {Genesis} \in ParentClosed
    BY TreeAssumption DEF ParentClosed
  <2> QED
    BY <1>1, <2>1, LeastClosed DEF Least
<1>2. CASE b # Genesis
  <2>1. Parent[b] \in Blocks
    BY <1>2, TreeAssumption
  <2>2. {b} \cup Least(Parent[b]) \in ParentClosed
    BY <2>1, <1>2, LeastClosed DEF ParentClosed
  <2>3. Least(b) \subseteq {b} \cup Least(Parent[b])
    BY <2>2 DEF Least
  <2>4. ASSUME NEW a \in Least(Parent[b]) PROVE a \in Least(b)
    BY <2>4, <1>2, TreeAssumption DEF Least, ParentClosed
  <2> QED
    BY <1>2, <2>3, <2>4, LeastClosed
<1> QED
  BY <1>1, <1>2

\* The equation that defines Ancestors has a solution, so Ancestors solves it.
LEMMA AncestorsEquation ==
    /\ Ancestors[Genesis] = {Genesis}
    /\ \A b \in Blocks \ {Genesis} : Ancestors[b] = {b} \cup Ancestors[Parent[b]]
<1> DEFINE E(f) == f = [b \in Blocks |-> IF b = Genesis THEN {b} ELSE {b} \cup f[Parent[b]]]
<1>1. E([b \in Blocks |-> Least(b)])
  <2> DEFINE L == [b \in Blocks |-> Least(b)]
  <2>1. ASSUME NEW b \in Blocks
        PROVE  L[b] = IF b = Genesis THEN {b} ELSE {b} \cup L[Parent[b]]
    BY LeastEquation, TreeAssumption
  <2> QED
    BY <2>1
<1>2. Ancestors = CHOOSE f : E(f)
  BY DEF Ancestors
<1>3. \E f : E(f)
  <2> HIDE DEF E
  <2> QED
    BY <1>1
<1>4. E(Ancestors)
  <2> HIDE DEF E
  <2> QED
    BY <1>2, <1>3
<1> QED
  BY <1>4, TreeAssumption

\* Induction from parents to their children.
LEMMA TreeInduction ==
    ASSUME NEW S, Genesis \in S, \A b \in Blocks \ {Genesis} : Parent[b] \in S => b \in S
    PROVE  Blocks \subseteq S
<1> DEFINE T == {n \in Nat : \A b \in Blocks : Work[b] = n => b \in S}
<1>1. Nat \subseteq T
  <2>1. ASSUME NEW n \in Nat, \A k \in Nat : k < n => k \in T
        PROVE  n \in T
    <3> SUFFICES ASSUME NEW b \in Blocks \ {Genesis}, Work[b] = n PROVE b \in S
      OBVIOUS
    <3>1. Parent[b] \in Blocks /\ Work[Parent[b]] \in Nat /\ Work[Parent[b]] < n
      BY TreeAssumption
    <3> QED
      BY <2>1, <3>1
  <2> HIDE DEF T
  <2> QED
    BY <2>1, CompleteInduction
<1> QED
  BY <1>1, TreeAssumption

LEMMA AncestorsSelf ==
    \A b \in Blocks : Ancestors[b] \subseteq Blocks /\ b \in Ancestors[b] /\ Genesis \in Ancestors[b]
<1> DEFINE S == {b \in Blocks : /\ Ancestors[b] \subseteq Blocks /\ b \in Ancestors[b]
                                /\ Genesis \in Ancestors[b]}
<1>1. Genesis \in S
  BY AncestorsEquation, TreeAssumption
<1>2. ASSUME NEW b \in Blocks \ {Genesis}, Parent[b] \in S PROVE b \in S
  BY <1>2, AncestorsEquation
<1>3. Blocks \subseteq S
  <2> HIDE DEF S
  <2> QED
    BY <1>1, <1>2, TreeInduction
<1> QED
  BY <1>3

LEMMA AncestorsTransitive ==
    \A b \in Blocks : \A a \in Ancestors[b] : Ancestors[a] \subseteq Ancestors[b]
<1> DEFINE S == {b \in Blocks : \A a \in Ancestors[b] : Ancestors[a] \subseteq Ancestors[b]}
<1>1. Genesis \in S
  BY AncestorsEquation, TreeAssumption
<1>2. ASSUME NEW b \in Blocks \ {Genesis}, Parent[b] \in S PROVE b \in S
  BY <1>2, AncestorsEquation
<1>3. Blocks \subseteq S
  <2> HIDE DEF S
  <2> QED
    BY <1>1, <1>2, TreeInduction
<1> QED
  BY <1>3

LEMMA AncestorsWork ==
    \A b \in Blocks : \A a \in Ancestors[b] : a = b \/ Work[a] < Work[b]
<1> DEFINE S == {b \in Blocks : \A a \in Ancestors[b] : a = b \/ Work[a] < Work[b]}
<1>1. Genesis \in S
  BY AncestorsEquation, TreeAssumption
<1>2. ASSUME NEW b \in Blocks \ {Genesis}, Parent[b] \in S PROVE b \in S
  <2> SUFFICES ASSUME NEW a \in Ancestors[Parent[b]] PROVE Work[a] < Work[b]
    BY AncestorsEquation
  <2>1. Parent[b] \in Blocks /\ a \in Blocks /\ Work[b] \in Nat /\ Work[a] \in Nat
        /\ Work[Parent[b]] \in Nat /\ Work[Parent[b]] < Work[b]
    BY TreeAssumption, AncestorsSelf
  <2>2. a = Parent[b] \/ Work[a] < Work[Parent[b]]
    BY <1>2
  <2> QED
    BY <2>1, <2>2
<1>3. Blocks \subseteq S
  <2> HIDE DEF S
  <2> QED
    BY <1>1, <1>2, TreeInduction
<1> QED
  BY <1>3

\* Two blocks of one chain: one is before the other.
LEMMA AncestorsTotal ==
    \A d \in Blocks : \A a, b \in Ancestors[d] : a \in Ancestors[b] \/ b \in Ancestors[a]
<1> DEFINE S == {d \in Blocks :
                    \A a, b \in Ancestors[d] : a \in Ancestors[b] \/ b \in Ancestors[a]}
<1>1. Genesis \in S
  BY AncestorsEquation, TreeAssumption
<1>2. ASSUME NEW d \in Blocks \ {Genesis}, Parent[d] \in S PROVE d \in S
  BY <1>2, AncestorsEquation
<1>3. Blocks \subseteq S
  <2> HIDE DEF S
  <2> QED
    BY <1>1, <1>2, TreeInduction
<1> QED
  BY <1>3

\* Between a block and an ancestor there is a child of the ancestor.
LEMMA ChildTowards ==
    \A b \in Blocks : \A a \in Ancestors[b] \ {b} :
        \E c \in Ancestors[b] \ {Genesis} : Parent[c] = a
<1> DEFINE S == {b \in Blocks : \A a \in Ancestors[b] \ {b} :
                                   \E c \in Ancestors[b] \ {Genesis} : Parent[c] = a}
<1>1. Genesis \in S
  BY AncestorsEquation, TreeAssumption
<1>2. ASSUME NEW b \in Blocks \ {Genesis}, Parent[b] \in S PROVE b \in S
  BY <1>2, AncestorsEquation, AncestorsSelf
<1>3. Blocks \subseteq S
  <2> HIDE DEF S
  <2> QED
    BY <1>1, <1>2, TreeInduction
<1> QED
  BY <1>3

\* A block is its parent's chain and itself.
LEMMA AncestorsOfChild ==
    ASSUME NEW b \in Blocks \ {Genesis}
    PROVE  /\ Parent[b] \in Blocks /\ Ancestors[b] = {b} \cup Ancestors[Parent[b]]
           /\ b \notin Ancestors[Parent[b]] /\ Work[Parent[b]] < Work[b]
<1>1. /\ Parent[b] \in Blocks /\ Ancestors[b] = {b} \cup Ancestors[Parent[b]]
      /\ Work[Parent[b]] < Work[b] /\ Work[b] \in Nat /\ Work[Parent[b]] \in Nat
  BY AncestorsEquation, TreeAssumption
<1>2. ASSUME b \in Ancestors[Parent[b]] PROVE FALSE
  <2>1. b = Parent[b] \/ Work[b] < Work[Parent[b]]
    BY <1>1, <1>2, AncestorsWork
  <2> QED
    BY <1>1, <2>1
<1> QED
  BY <1>1, <1>2

------------------------------------------------------------------------------
(* The order of CBlockIndexWorkComparator.                                  *)

LEMMA WorseIsStrict ==
    ASSUME NEW sq \in [Blocks -> Nat], NEW ad \in [Blocks -> Nat]
    PROVE  /\ \A a \in Blocks : ~ WorseIn(sq, ad, a, a)
           /\ \A a, b \in Blocks : WorseIn(sq, ad, a, b) => ~ WorseIn(sq, ad, b, a)
           /\ \A a, b, c \in Blocks :
                 WorseIn(sq, ad, a, b) /\ WorseIn(sq, ad, b, c) => WorseIn(sq, ad, a, c)
           /\ \A a, b, c \in Blocks :
                 ~ WorseIn(sq, ad, a, b) /\ ~ WorseIn(sq, ad, b, c) => ~ WorseIn(sq, ad, a, c)
<1>1. \A a \in Blocks : Work[a] \in Nat /\ sq[a] \in Nat /\ ad[a] \in Nat
  BY TreeAssumption
<1> QED
  BY <1>1, SMTT(30) DEF WorseIn

LEMMA WorseIsTotal ==
    ASSUME NEW sq \in [Blocks -> Nat], NEW ad \in AddressOrders
    PROVE  \A a, b \in Blocks : a = b \/ WorseIn(sq, ad, a, b) \/ WorseIn(sq, ad, b, a)
<1>1. \A a \in Blocks : Work[a] \in Nat /\ sq[a] \in Nat /\ ad[a] \in Nat
  BY TreeAssumption, VerdictAssumption
<1>2. \A a, b \in Blocks : ad[a] = ad[b] => a = b
  BY VerdictAssumption
<1> QED
  BY <1>1, <1>2 DEF WorseIn

\* A set of blocks that is not empty has a best one.
LEMMA BestExists ==
    ASSUME NEW sq \in [Blocks -> Nat], NEW ad \in AddressOrders,
           NEW U \in SUBSET Blocks, U # {}
    PROVE  \E c \in U : \A d \in U : d # c => WorseIn(sq, ad, d, c)
<1> DEFINE HasBest(V) == \E c \in V : \A d \in V : d # c => WorseIn(sq, ad, d, c)
           S == {n \in Nat : \A V \in SUBSET U : Cardinality(V) = n /\ V # {} => HasBest(V)}
<1>a. ad \in [Blocks -> Nat]
  BY VerdictAssumption
<1>b. ASSUME NEW V \in SUBSET U PROVE IsFiniteSet(V) /\ Cardinality(V) \in Nat
  BY FS_Subset, FS_CardinalityType, TreeAssumption
<1>1. 0 \in S
  BY <1>b, FS_EmptySet
<1>2. ASSUME NEW n \in Nat \ {0}, n - 1 \in S PROVE n \in S
  <2> SUFFICES ASSUME NEW V \in SUBSET U, Cardinality(V) = n, V # {} PROVE HasBest(V)
    BY <1>2
  <2>1. PICK x \in V : TRUE
    OBVIOUS
  <2>2. Cardinality(V \ {x}) = n - 1
    BY <2>1, <1>b, FS_RemoveElement
  <2>3. CASE V \ {x} = {}
    BY <2>1, <2>3
  <2>4. CASE V \ {x} # {}
    <3>1. HasBest(V \ {x})
      BY <2>2, <2>4, <1>2
    <3>2. PICK c \in V \ {x} : \A d \in V \ {x} : d # c => WorseIn(sq, ad, d, c)
      BY <3>1
    <3>3. x \in Blocks /\ c \in Blocks /\ V \subseteq Blocks
      BY <2>1, <3>2
    <3>4. CASE WorseIn(sq, ad, x, c)
      BY <3>2, <3>4
    <3>5. CASE WorseIn(sq, ad, c, x)
      <4>1. \A d \in V : d # x => WorseIn(sq, ad, d, x)
        BY <3>2, <3>3, <3>5, <1>a, WorseIsStrict
      <4> QED
        BY <4>1, <2>1
    <3> QED
      BY <3>2, <3>3, <3>4, <3>5, WorseIsTotal
  <2> QED
    BY <2>3, <2>4
<1>3. Cardinality(U) \in S
  <2>1. Cardinality(U) \in Nat /\ 0 .. Cardinality(U) \subseteq S
    <3> HIDE DEF S
    <3>1. Cardinality(U) \in Nat
      BY <1>b
    <3>2. \A n \in 1 .. Cardinality(U) : n - 1 \in S => n \in S
      BY <1>2
    <3> QED
      BY <1>1, <3>1, <3>2, UpToInduction
  <2> QED
    BY <2>1
<1> QED
  BY <1>3

------------------------------------------------------------------------------
(* The records of the index.                                                *)

IndexType == [Fields -> SUBSET Blocks]

LEMMA AddFields ==
    ASSUME NEW idx \in IndexType, NEW field \in Fields, NEW S \in SUBSET Blocks
    PROVE  /\ Add(idx, field, S) \in IndexType
           /\ Add(idx, field, S)[field] = idx[field] \cup S
           /\ \A f \in Fields \ {field} : Add(idx, field, S)[f] = idx[f]
BY DEF IndexType, Add

LEMMA DropFields ==
    ASSUME NEW idx \in IndexType, NEW field \in Fields, NEW S \in SUBSET Blocks
    PROVE  /\ Drop(idx, field, S) \in IndexType
           /\ Drop(idx, field, S)[field] = idx[field] \ S
           /\ \A f \in Fields \ {field} : Drop(idx, field, S)[f] = idx[f]
BY DEF IndexType, Drop

LEMMA WriteFields ==
    ASSUME NEW old \in IndexType, NEW idx \in IndexType, NEW S \in SUBSET Blocks
    PROVE  /\ WriteRecords(old, idx, S) \in IndexType
           /\ \A f \in Fields : WriteRecords(old, idx, S)[f] = (old[f] \ S) \cup (idx[f] \cap S)
BY DEF IndexType, WriteRecords

------------------------------------------------------------------------------
(* The inductive invariant that holds whatever operations occur.            *)

\* The fields that nothing ever clears.
Kept == {"known", "data", "scripts"}

\* What the call that holds cs_main knows.  The blocks it still has to connect
\* are not failed, and it disconnects no block of its goal's chain.
JobOK ==
    /\ job.op = "idle" => job = Idle
    /\ job.op = "activate" =>
          /\ job.target \in linked
          /\ job.from \in Blocks
          /\ job.phase \in {"run", "connect", "disconnect"}
          /\ (Ancestors[job.target] \ Ancestors[job.from]) \cap Failed(index) = {}
          /\ Ancestors[job.target] \cap Ancestors[job.from] \subseteq Ancestors[tip]
          /\ job.phase = "connect" => coinsTip \in Ancestors[job.target]
          /\ job.phase = "disconnect" => tip \notin Ancestors[job.target]
    /\ job.op = "invalidate" =>
          /\ job.target \in index["failedValid"] \ {Genesis}
          /\ job.phase \in {"run", "disconnect"}
    /\ job.op = "reprocess" => job.phase \in {"run", "disconnect"}
    /\ job.op = "flush" => job.phase = "flush"

\* Between the two halves of FlushStateToDisk the block index is on disk and
\* the coins are one block away from chainActive.
PhaseOK ==
    /\ job.phase \in {"run", "flush"} => coinsTip = tip
    /\ job.phase = "disconnect" => tip # Genesis /\ coinsTip = Parent[tip]
    /\ job.phase = "connect" => coinsTip # Genesis /\ tip = Parent[coinsTip]
    /\ job.phase # "run" => dirty = {}

\* mapBlockIndex and the active chain.
IndexOK ==
    /\ Genesis \in index["data"]
    /\ index["data"] \subseteq index["known"]
    /\ index["scripts"] \subseteq index["data"]
    /\ \A b \in index["known"] : Ancestors[b] \subseteq index["known"]
    /\ \A b \in index["scripts"] : Ancestors[b] \ {Genesis} \subseteq index["scripts"]
    /\ {tip, coinsTip} \ {Genesis} \subseteq index["scripts"]
    /\ (index["scripts"] \ {Genesis}) \cap Invalid = {}

\* nChainTx, the candidates and mapBlocksUnlinked.
LinksOK ==
    /\ linked = {b \in index["known"] : Ancestors[b] \subseteq index["data"]}
    /\ candidates \subseteq linked
    /\ unlinked = index["data"] \ linked

\* What is on disk is in memory, what is not on disk is dirty, and only blocks
\* of the active chain can lack their script flag on disk.
DiskOK ==
    /\ \A f \in Kept : diskIndex[f] \subseteq index[f] /\ index[f] \ dirty \subseteq diskIndex[f]
    /\ Genesis \in diskIndex["data"]
    /\ diskIndex["data"] \subseteq diskIndex["known"]
    /\ diskIndex["scripts"] \subseteq diskIndex["data"]
    /\ \A b \in diskIndex["known"] : Ancestors[b] \subseteq diskIndex["known"]
    /\ \A b \in diskIndex["scripts"] : Ancestors[b] \ {Genesis} \subseteq diskIndex["scripts"]
    /\ {tip, coinsTip} \subseteq diskIndex["known"]
    /\ diskBest \in diskIndex["scripts"] \cup {Genesis}
    /\ diskBest \in Ancestors[tip]
    /\ index["scripts"] \ diskIndex["scripts"] \subseteq Ancestors[tip]

\* No candidate is worse than the tip, even while cs_main is held.
CandidatesOK == \A c \in candidates : ~ Worse(c, tip)

Inv == TypeOK /\ JobOK /\ PhaseOK /\ IndexOK /\ LinksOK /\ DiskOK /\ CandidatesOK

LEMMA FieldNames ==
    /\ {"known", "data", "scripts", "failedValid", "failedChild"} = Fields
    /\ Kept \subseteq Fields /\ "failedValid" \notin Kept /\ "failedChild" \notin Kept
BY DEF Fields, Kept

LEMMA FlagFields ==
    ASSUME NEW idx, NEW idx2, idx \in IndexType, NEW S \in SUBSET Blocks,
           idx2 \in {Add(idx, "failedValid", S), Add(idx, "failedChild", S),
                     Drop(Drop(idx, "failedValid", S), "failedChild", S)}
    PROVE  idx2 \in IndexType /\ \A f \in Kept : idx2[f] = idx[f]
<1>1. "failedValid" \in Fields /\ "failedChild" \in Fields
  BY FieldNames
<1>2. CASE idx2 = Add(idx, "failedValid", S)
  BY <1>1, <1>2, AddFields, FieldNames
<1>3. CASE idx2 = Add(idx, "failedChild", S)
  BY <1>1, <1>3, AddFields, FieldNames
<1>4. CASE idx2 = Drop(Drop(idx, "failedValid", S), "failedChild", S)
  <2>1. Drop(idx, "failedValid", S) \in IndexType /\ \A f \in Kept : Drop(idx, "failedValid", S)[f] = idx[f]
    BY <1>1, DropFields, FieldNames
  <2>2. idx2 \in IndexType /\ \A f \in Kept : idx2[f] = Drop(idx, "failedValid", S)[f]
    BY <1>1, <1>4, <2>1, DropFields, FieldNames
  <2> QED
    BY <2>1, <2>2
<1> QED
  BY <1>2, <1>3, <1>4

LEMMA InitInv == Init => Inv
<1> SUFFICES ASSUME Init PROVE Inv
  OBVIOUS
<1>0. Genesis \in Blocks /\ Ancestors[Genesis] = {Genesis}
  BY TreeAssumption, AncestorsEquation
<1>1. index \in IndexType /\ index["known"] = {Genesis} /\ index["data"] = {Genesis}
      /\ index["scripts"] = {} /\ index["failedValid"] = {} /\ index["failedChild"] = {}
  BY <1>0 DEF Init, IndexType, Fields
<1>2. TypeOK
  <2>1. job \in [op : {"idle", "activate", "invalidate", "reprocess", "flush"},
                target : Blocks \cup {None}, from : Blocks \cup {None}, left : Nat,
                phase : {"run", "connect", "disconnect", "flush"}]
    BY DEF Init, Idle
  <2>2. reprocessing \in [rejected : SUBSET Blocks, tips : Nat]
    BY DEF Init, NotReprocessing
  <2> QED
    BY <1>0, <1>1, <2>1, <2>2 DEF Init, TypeOK, IndexType
<1>3. JobOK /\ PhaseOK
  BY DEF Init, JobOK, PhaseOK, Idle
<1>4. IndexOK /\ LinksOK
  BY <1>0, <1>1 DEF Init, IndexOK, LinksOK
<1>5. DiskOK
  BY <1>0, <1>1 DEF Init, DiskOK, Kept
<1>6. CandidatesOK
  <2>1. seq \in [Blocks -> Nat] /\ addr \in [Blocks -> Nat]
    BY <1>2, VerdictAssumption DEF TypeOK
  <2> QED
    BY <1>0, <2>1, WorseIsStrict DEF Init, CandidatesOK, Worse
<1> QED
  BY <1>2, <1>3, <1>4, <1>5, <1>6 DEF Inv

\* A step that changes nothing of the index but failure flags, and keeps the
\* disk and the active chain.
LEMMA FlagsStep ==
    ASSUME Inv, \A f \in Kept : index'[f] = index[f],
           UNCHANGED <<linked, unlinked, diskIndex, diskBest, tip, coinsTip>>,
           dirty \subseteq dirty', candidates' \subseteq linked
    PROVE  IndexOK' /\ LinksOK' /\ DiskOK'
<1>1. /\ index'["known"] = index["known"] /\ index'["data"] = index["data"]
      /\ index'["scripts"] = index["scripts"]
  BY DEF Kept
<1>2. IndexOK'
  BY <1>1 DEF Inv, IndexOK
<1>3. LinksOK'
  BY <1>1 DEF Inv, LinksOK
<1>4. DiskOK'
  BY <1>1 DEF Inv, DiskOK
<1> QED
  BY <1>2, <1>3, <1>4

LEMMA IdleStep ==
    ASSUME job' = Idle, coinsTip' = tip'
    PROVE  JobOK' /\ PhaseOK'
BY DEF JobOK, PhaseOK, Idle

\* What Inv says of a state in which no call holds cs_main.
LEMMA IdleFacts ==
    ASSUME Inv, job = Idle
    PROVE  coinsTip = tip /\ index \in IndexType /\ dirty \subseteq Blocks
           /\ index["known"] \subseteq Blocks /\ linked \subseteq Blocks
           /\ candidates \subseteq Blocks /\ tip \in Blocks
BY DEF Inv, PhaseOK, Idle, TypeOK, IndexType, Fields

\* A header is added, or a block is refused: its record is new or changes, its
\* data is not stored.
LEMMA RecordStep ==
    ASSUME Inv, NEW b \in Blocks \ {Genesis}, b \notin index["data"],
           Parent[b] \in index["known"], index' \in IndexType,
           index'["known"] = index["known"] \cup {b}, index'["data"] = index["data"],
           index'["scripts"] = index["scripts"], dirty' = dirty \cup {b},
           UNCHANGED <<linked, unlinked, candidates, diskIndex, diskBest, tip, coinsTip>>
    PROVE  IndexOK' /\ LinksOK' /\ DiskOK'
<1>1. Ancestors[b] = {b} \cup Ancestors[Parent[b]]
  BY AncestorsOfChild
<1>2. IndexOK'
  BY <1>1 DEF Inv, IndexOK
<1>3. LinksOK'
  BY <1>1 DEF Inv, LinksOK
<1>4. DiskOK'
  BY DEF Inv, DiskOK, Kept
<1> QED
  BY <1>2, <1>3, <1>4

LEMMA AcceptBlockHeaderInv ==
    ASSUME Inv, NEW b \in Blocks \ {Genesis}, AcceptBlockHeader(b)
    PROVE  Inv'
<1>1. index' \in IndexType /\ index'["known"] = index["known"] \cup {b}
      /\ index'["data"] = index["data"] /\ index'["scripts"] = index["scripts"]
  BY IdleFacts, AddFields, FieldNames DEF AcceptBlockHeader, AddToBlockIndex
<1>2. b \notin index["data"]
  BY DEF AcceptBlockHeader, Inv, IndexOK
<1>3. IndexOK' /\ LinksOK' /\ DiskOK'
  BY <1>1, <1>2, RecordStep DEF AcceptBlockHeader, diskVars
<1>4. TypeOK'
  BY <1>1 DEF Inv, TypeOK, IndexType, AcceptBlockHeader, diskVars
<1>5. JobOK' /\ PhaseOK'
  BY IdleFacts, IdleStep DEF AcceptBlockHeader
<1>6. CandidatesOK'
  BY DEF Inv, CandidatesOK, Worse, AcceptBlockHeader
<1> QED
  BY <1>3, <1>4, <1>5, <1>6 DEF Inv

LEMMA RejectBlockInv ==
    ASSUME Inv, NEW b \in Blocks \ {Genesis}, RejectBlock(b)
    PROVE  Inv'
<1>1. index' \in IndexType /\ index'["known"] = index["known"] \cup {b}
      /\ index'["data"] = index["data"] /\ index'["scripts"] = index["scripts"]
  <2>1. AddToBlockIndex(b) \in IndexType /\ AddToBlockIndex(b)["known"] = index["known"] \cup {b}
        /\ AddToBlockIndex(b)["data"] = index["data"]
        /\ AddToBlockIndex(b)["scripts"] = index["scripts"]
    BY IdleFacts, AddFields, FieldNames DEF RejectBlock, AddToBlockIndex
  <2>2. index' = Add(AddToBlockIndex(b), "failedValid", {b})
    BY DEF RejectBlock
  <2> QED
    BY <2>1, <2>2, AddFields, FieldNames
<1>2. b \notin index["data"]
  BY DEF RejectBlock
<1>3. IndexOK' /\ LinksOK' /\ DiskOK'
  BY <1>1, <1>2, RecordStep DEF RejectBlock, diskVars
<1>4. TypeOK'
  BY <1>1 DEF Inv, TypeOK, IndexType, RejectBlock, diskVars
<1>5. JobOK' /\ PhaseOK'
  BY IdleFacts, IdleStep DEF RejectBlock
<1>6. CandidatesOK'
  BY DEF Inv, CandidatesOK, Worse, RejectBlock
<1> QED
  BY <1>3, <1>4, <1>5, <1>6 DEF Inv

\* The blocks that get their nChainTx with b are those that have all data now.
LEMMA LinkedByExact ==
    ASSUME Inv, NEW b \in Blocks \ {Genesis}, b \notin index["data"],
           Parent[b] \in linked
    PROVE  /\ linked \cup LinkedBy(b) = {d \in index["known"] \cup {b} :
                                          Ancestors[d] \subseteq index["data"] \cup {b}}
           /\ LinkedBy(b) \cap linked = {}
           /\ unlinked \ LinkedBy(b) = (index["data"] \cup {b}) \ (linked \cup LinkedBy(b))
<1> DEFINE D == index["data"]
           Goal == {d \in index["known"] \cup {b} : Ancestors[d] \subseteq D \cup {b}}
<1>0. /\ Ancestors[b] = {b} \cup Ancestors[Parent[b]] /\ b \notin Ancestors[Parent[b]]
      /\ Ancestors[Parent[b]] \subseteq D /\ b \in Ancestors[b]
      /\ index["known"] \subseteq Blocks /\ D \subseteq index["known"] /\ b \notin D
      /\ linked = {d \in index["known"] : Ancestors[d] \subseteq D} /\ unlinked = D \ linked
  BY AncestorsOfChild, AncestorsSelf DEF Inv, TypeOK, IndexOK, LinksOK, Fields
<1>1. LinkedBy(b) \cap linked = {}
  BY <1>0 DEF LinkedBy
<1>2. ASSUME NEW d \in LinkedBy(b) PROVE d \in Goal
  <2>1. CASE d = b
    BY <1>0, <2>1
  <2>2. CASE d # b
    BY <1>0, <2>2 DEF LinkedBy
  <2> QED
    BY <2>1, <2>2
<1>3. ASSUME NEW d \in Goal, d \notin linked, d # b PROVE d \in LinkedBy(b)
  <2>1. d \in index["known"] /\ d \in Blocks /\ d \in Ancestors[d]
    BY <1>0, <1>3, AncestorsSelf
  <2>2. b \in Ancestors[d]
    BY <1>0, <1>3, <2>1
  <2>3. d \in unlinked
    BY <1>0, <1>3, <2>1
  <2>4. ASSUME NEW x \in Ancestors[d] \ Ancestors[b] PROVE x \in unlinked
    <3>1. x \in D
      BY <1>0, <1>3
    <3>2. b \in Ancestors[x]
      BY <2>1, <2>2, AncestorsTotal
    <3> QED
      BY <1>0, <3>1, <3>2
  <2> QED
    BY <2>2, <2>3, <2>4 DEF LinkedBy
<1>4. b \in LinkedBy(b)
  BY DEF LinkedBy
<1>5. linked \subseteq Goal
  BY <1>0
<1>6. linked \cup LinkedBy(b) = Goal
  <2> HIDE DEF Goal
  <2>1. Goal \subseteq linked \cup LinkedBy(b)
    BY <1>3, <1>4
  <2> QED
    BY <1>2, <1>5, <2>1
<1>7. unlinked \ LinkedBy(b) = (D \cup {b}) \ (linked \cup LinkedBy(b))
  BY <1>0, <1>4
<1> QED
  BY <1>1, <1>6, <1>7

\* What AcceptBlock does to the bookkeeping when the parent is linked.
LEMMA LinkingStep ==
    ASSUME Inv, NEW b \in Blocks \ {Genesis}, Parent[b] \in linked,
           ReceivedBlockTransactions(b)
    PROVE  /\ seq' \in [Blocks -> Nat] /\ nextSeq' \in Nat
           /\ LinkedBy(b) \subseteq Blocks
           /\ linked' = linked \cup LinkedBy(b) /\ unlinked' = unlinked \ LinkedBy(b)
           /\ \A d \in Blocks \ LinkedBy(b) : seq'[d] = seq[d]
           /\ candidates' = candidates \cup
                 {d \in LinkedBy(b) : ~ WorseIn(seq', addr, d, tip)}
<1>0. /\ seq \in [Blocks -> Nat] /\ nextSeq \in Nat /\ LinkedBy(b) \subseteq Blocks
  BY DEF Inv, TypeOK, LinkedBy
<1>1. IsFiniteSet(LinkedBy(b)) /\ Cardinality(LinkedBy(b)) \in Nat
  BY <1>0, TreeAssumption, FS_Subset, FS_CardinalityType
<1>2. PICK f \in Numberings(LinkedBy(b)) :
        /\ seq' = [d \in Blocks |-> IF d \in LinkedBy(b) THEN f[d] ELSE seq[d]]
        /\ nextSeq' = nextSeq + Cardinality(LinkedBy(b))
        /\ linked' = linked \cup LinkedBy(b)
        /\ unlinked' = unlinked \ LinkedBy(b)
        /\ candidates' = candidates \cup
              {d \in LinkedBy(b) :
                  ~ WorseIn([e \in Blocks |-> IF e \in LinkedBy(b) THEN f[e] ELSE seq[e]],
                            addr, d, tip)}
  BY DEF ReceivedBlockTransactions
<1>3. f \in [LinkedBy(b) -> nextSeq .. nextSeq + Cardinality(LinkedBy(b)) - 1]
  BY DEF Numberings
<1>4. \A d \in LinkedBy(b) : f[d] \in Nat
  BY <1>0, <1>1, <1>3
<1> QED
  BY <1>0, <1>1, <1>2, <1>4

\* Blocks whose numbers do not change compare as before.
LEMMA WorseUnchanged ==
    ASSUME NEW a, NEW b, seq'[a] = seq[a], seq'[b] = seq[b], addr' = addr
    PROVE  Worse(a, b)' <=> Worse(a, b)
BY DEF Worse, WorseIn

LEMMA AcceptBlockInv ==
    ASSUME Inv, NEW b \in Blocks \ {Genesis}, AcceptBlock(b)
    PROVE  Inv'
<1>0. job = Idle /\ job' = Idle /\ Parent[b] \in index["known"] /\ b \notin index["data"]
      /\ dirty' = dirty \cup {b} /\ ReceivedBlockTransactions(b)
      /\ UNCHANGED <<addr, tip, coinsTip, diskIndex, diskBest>>
  BY DEF AcceptBlock, diskVars
<1>1. index' \in IndexType /\ index'["known"] = index["known"] \cup {b}
      /\ index'["data"] = index["data"] \cup {b} /\ index'["scripts"] = index["scripts"]
  <2>1. AddToBlockIndex(b) \in IndexType /\ AddToBlockIndex(b)["known"] = index["known"] \cup {b}
        /\ AddToBlockIndex(b)["data"] = index["data"]
        /\ AddToBlockIndex(b)["scripts"] = index["scripts"]
    BY <1>0, IdleFacts, AddFields, FieldNames DEF AddToBlockIndex
  <2>2. index' = Add(AddToBlockIndex(b), "data", {b})
    BY DEF AcceptBlock
  <2> QED
    BY <2>1, <2>2, AddFields, FieldNames
<1>2. Ancestors[b] = {b} \cup Ancestors[Parent[b]] /\ b \notin Ancestors[Parent[b]]
  BY AncestorsOfChild
<1>3. IndexOK'
  BY <1>0, <1>1, <1>2 DEF Inv, IndexOK
<1>4. DiskOK'
  BY <1>0, <1>1 DEF Inv, DiskOK, Kept
<1>5. JobOK' /\ PhaseOK'
  BY <1>0, IdleFacts, IdleStep
<1>6. CASE Parent[b] \in linked
  <2>1. LinksOK'
    <3>1. candidates' \subseteq linked'
      BY <1>6, <1>0, LinkingStep DEF Inv, LinksOK
    <3> QED
      BY <1>0, <1>1, <1>6, <3>1, LinkingStep, LinkedByExact DEF LinksOK
  <2>2. TypeOK'
    <3>1. seq' \in [Blocks -> Nat] /\ nextSeq' \in Nat /\ linked' \subseteq Blocks
          /\ unlinked' \subseteq Blocks /\ candidates' \subseteq Blocks
      BY <1>6, <1>0, LinkingStep DEF Inv, TypeOK
    <3> QED
      BY <1>0, <1>1, <3>1 DEF Inv, TypeOK, IndexType, AcceptBlock
  <2>3. CandidatesOK'
    <3>1. tip \in linked /\ linked \subseteq Blocks
      <4>1. Ancestors[tip] \subseteq index["data"] /\ tip \in index["known"]
        BY <1>0, IdleFacts, AncestorsEquation, AncestorsSelf DEF Inv, IndexOK
      <4> QED
        BY <4>1 DEF Inv, LinksOK, TypeOK
    <3>2. ASSUME NEW c \in candidates PROVE ~ Worse(c, tip)'
      <4>1. seq'[c] = seq[c] /\ seq'[tip] = seq[tip]
        BY <1>0, <1>6, <3>1, LinkingStep, LinkedByExact DEF Inv, LinksOK
      <4>2. ~ Worse(c, tip)
        BY DEF Inv, CandidatesOK
      <4> QED
        BY <1>0, <4>1, <4>2, WorseUnchanged
    <3>3. ASSUME NEW c \in candidates', c \notin candidates PROVE ~ Worse(c, tip)'
      BY <1>0, <1>6, <3>3, LinkingStep DEF Worse
    <3> QED
      BY <3>2, <3>3 DEF CandidatesOK
  <2> QED
    BY <1>3, <1>4, <1>5, <2>1, <2>2, <2>3 DEF Inv
<1>7. CASE Parent[b] \notin linked
  <2>0. unlinked' = unlinked \cup {b} /\ UNCHANGED <<linked, seq, nextSeq, candidates>>
    BY <1>0, <1>7 DEF ReceivedBlockTransactions
  <2>1. LinksOK'
    <3>1. ASSUME NEW d \in index["known"] \cup {b}, Ancestors[d] \subseteq index["data"] \cup {b}
          PROVE  b \notin Ancestors[d]
      <4>0. d \in Blocks
        BY DEF Inv, TypeOK, Fields
      <4>1. SUFFICES ASSUME b \in Ancestors[d] PROVE FALSE
        OBVIOUS
      <4>2. Ancestors[Parent[b]] \subseteq index["data"]
        BY <1>2, <3>1, <4>0, <4>1, AncestorsTransitive
      <4> QED
        BY <1>0, <1>7, <4>2 DEF Inv, LinksOK
    <3>2. linked = {d \in index["known"] \cup {b} : Ancestors[d] \subseteq index["data"] \cup {b}}
      <4>1. b \in Ancestors[b]
        BY <1>2
      <4> QED
        BY <3>1, <4>1 DEF Inv, LinksOK
    <3>3. b \notin linked
      BY <1>0, <1>2 DEF Inv, LinksOK
    <3> QED
      BY <1>1, <2>0, <3>2, <3>3 DEF Inv, LinksOK
  <2>2. TypeOK'
    BY <1>0, <1>1, <2>0 DEF Inv, TypeOK, IndexType, AcceptBlock
  <2>3. CandidatesOK'
    BY <1>0, <2>0 DEF Inv, CandidatesOK, Worse
  <2> QED
    BY <1>3, <1>4, <1>5, <2>1, <2>2, <2>3 DEF Inv
<1> QED
  BY <1>6, <1>7

LEMMA AcceptKnownBlockInv ==
    ASSUME Inv, NEW b \in Blocks \ {Genesis}, AcceptKnownBlock(b)
    PROVE  Inv'
<1>1. IndexOK' /\ LinksOK' /\ DiskOK'
  BY FlagsStep DEF AcceptKnownBlock, treeVars, diskVars, Inv, LinksOK
<1>2. TypeOK'
  BY DEF Inv, TypeOK, AcceptKnownBlock, treeVars, diskVars
<1>3. JobOK' /\ PhaseOK'
  BY IdleFacts, IdleStep DEF AcceptKnownBlock
<1>4. CandidatesOK'
  BY DEF Inv, CandidatesOK, Worse, AcceptKnownBlock, treeVars
<1> QED
  BY <1>1, <1>2, <1>3, <1>4 DEF Inv

\* What ReconsiderBlock does to the index and the candidates.
LEMMA ReconsiderStep ==
    ASSUME Inv, job = Idle, job' = Idle, NEW b \in Blocks, ReconsiderBlock(b),
           UNCHANGED <<tip, coinsTip, diskVars, restarts>>,
           pending' \in BOOLEAN, reprocessing' \in [rejected : SUBSET Blocks, tips : Nat],
           calls' \in Nat
    PROVE  Inv'
<1> DEFINE cleared == Reconsidered(b) \cup (Ancestors[b] \cap Failed(index))
<1>1. cleared \in SUBSET Blocks
  BY IdleFacts, AncestorsSelf DEF Reconsidered
<1>2. /\ index' = Drop(Drop(index, "failedValid", cleared), "failedChild", cleared)
      /\ dirty' = dirty \cup cleared
      /\ candidates' = candidates \cup
            {d \in Reconsidered(b) \cap index["data"] \cap linked : Worse(tip, d)}
      /\ UNCHANGED <<linked, seq, nextSeq, addr, unlinked>>
  BY DEF ReconsiderBlock
<1>3. index' \in IndexType /\ \A f \in Kept : index'[f] = index[f]
  <2> HIDE DEF cleared
  <2> QED
    BY <1>1, <1>2, IdleFacts, FlagFields
<1>4. candidates' \subseteq linked
  BY <1>2 DEF Inv, LinksOK
<1>5. IndexOK' /\ LinksOK' /\ DiskOK'
  BY <1>2, <1>3, <1>4, FlagsStep DEF diskVars
<1>6. TypeOK'
  <2> HIDE DEF cleared
  <2>1. dirty' \subseteq Blocks
    BY <1>1, <1>2, IdleFacts
  <2> QED
    BY <1>2, <1>3, <1>4, <2>1 DEF Inv, TypeOK, IndexType, diskVars
<1>7. JobOK' /\ PhaseOK'
  BY IdleFacts, IdleStep
<1>8. CandidatesOK'
  <2>1. seq \in [Blocks -> Nat] /\ addr \in [Blocks -> Nat] /\ tip \in Blocks
    BY VerdictAssumption DEF Inv, TypeOK
  <2>2. \A d \in Blocks : Worse(tip, d) => ~ Worse(d, tip)
    BY <2>1, WorseIsStrict DEF Worse
  <2>3. \A c \in candidates' : ~ Worse(c, tip)
    BY <1>2, <2>2, IdleFacts DEF Inv, CandidatesOK
  <2> QED
    BY <1>2, <2>3 DEF CandidatesOK, Worse
<1> QED
  BY <1>5, <1>6, <1>7, <1>8 DEF Inv

LEMMA ReconsiderInv ==
    ASSUME Inv, NEW b \in Blocks,
           \/ RpcReconsiderBlock(b)
           \/ b # Genesis /\ ReconsiderCheckpoint(b)
           \/ ReconsiderRejected(b)
    PROVE  Inv'
<1>0. pending \in BOOLEAN /\ reprocessing \in [rejected : SUBSET Blocks, tips : Nat]
      /\ calls \in Nat /\ calls + 1 \in Nat
  BY DEF Inv, TypeOK
<1>1. CASE RpcReconsiderBlock(b)
  BY <1>0, <1>1, ReconsiderStep DEF RpcReconsiderBlock
<1>2. CASE b # Genesis /\ ReconsiderCheckpoint(b)
  <2>1. Parent[b] \in Blocks
    BY <1>2, TreeAssumption
  <2> QED
    BY <1>0, <1>2, <2>1, ReconsiderStep DEF ReconsiderCheckpoint
<1>3. CASE ReconsiderRejected(b)
  <2>1. reprocessing' \in [rejected : SUBSET Blocks, tips : Nat]
    BY <1>0, <1>3 DEF ReconsiderRejected
  <2> QED
    BY <1>0, <1>3, <2>1, ReconsiderStep DEF ReconsiderRejected
<1> QED
  BY <1>1, <1>2, <1>3

JobType == [op : {"idle", "activate", "invalidate", "reprocess", "flush"},
            target : Blocks \cup {None}, from : Blocks \cup {None}, left : Nat,
            phase : {"run", "connect", "disconnect", "flush"}]

LEMMA InvalidateBlockInv ==
    ASSUME Inv, NEW b \in Blocks, InvalidateBlock(b)
    PROVE  Inv'
<1>0. job = Idle /\ b # Genesis
  BY DEF InvalidateBlock
<1>1. index' \in IndexType /\ (\A f \in Kept : index'[f] = index[f]) /\ b \in index'["failedValid"]
  <2>1. index' = Add(index, "failedValid", {b})
    BY DEF InvalidateBlock
  <2> QED
    BY <1>0, <2>1, IdleFacts, FlagFields, AddFields, FieldNames
<1>2. job' \in JobType /\ job'.op = "invalidate" /\ job'.target = b /\ job'.phase = "run"
  BY DEF InvalidateBlock, Idle, JobType
<1>3. IndexOK' /\ LinksOK' /\ DiskOK'
  BY <1>1, FlagsStep DEF InvalidateBlock, diskVars, Inv, LinksOK
<1>4. TypeOK'
  <2>1. calls' \in Nat /\ b \in Blocks /\ dirty' \subseteq Blocks /\ candidates' \subseteq Blocks
        /\ UNCHANGED <<linked, seq, nextSeq, addr, unlinked, tip, coinsTip, diskIndex, diskBest,
                       pending, reprocessing, restarts>>
    BY DEF Inv, TypeOK, InvalidateBlock, diskVars
  <2> QED
    BY <1>1, <1>2, <2>1 DEF Inv, TypeOK, IndexType, JobType
<1>5. JobOK' /\ PhaseOK'
  BY <1>0, <1>1, <1>2, IdleFacts DEF JobOK, PhaseOK, InvalidateBlock
<1>6. CandidatesOK'
  BY DEF Inv, CandidatesOK, Worse, InvalidateBlock
<1> QED
  BY <1>3, <1>4, <1>5, <1>6 DEF Inv

LEMMA InvalidateReturnInv ==
    ASSUME Inv, InvalidateReturn
    PROVE  Inv'
<1>1. IndexOK' /\ LinksOK' /\ DiskOK'
  BY FlagsStep DEF InvalidateReturn, diskVars, Inv, LinksOK, InvalidateCandidates
<1>2. TypeOK'
  BY <1>1, IdleStep DEF Inv, TypeOK, InvalidateReturn, diskVars, Idle, InvalidateCandidates
<1>3. JobOK' /\ PhaseOK'
  BY IdleStep DEF InvalidateReturn, Inv, PhaseOK
<1>4. CandidatesOK'
  BY DEF Inv, CandidatesOK, Worse, InvalidateReturn, InvalidateCandidates
<1> QED
  BY <1>1, <1>2, <1>3, <1>4 DEF Inv

\* A step that only changes what threads are about to do.
LEMMA ControlStep ==
    ASSUME Inv, UNCHANGED <<treeVars, tip, coinsTip, diskVars, restarts>>,
           job' \in JobType, pending' \in BOOLEAN,
           reprocessing' \in [rejected : SUBSET Blocks, tips : Nat], calls' \in Nat,
           JobOK', PhaseOK'
    PROVE  Inv'
<1>1. IndexOK' /\ LinksOK' /\ DiskOK'
  BY FlagsStep DEF treeVars, diskVars, Inv, LinksOK
<1>2. TypeOK'
  BY DEF Inv, TypeOK, treeVars, diskVars, JobType
<1>3. CandidatesOK'
  BY DEF Inv, CandidatesOK, Worse, treeVars
<1> QED
  BY <1>1, <1>2, <1>3 DEF Inv

LEMMA ReprocessBlocksInv ==
    ASSUME Inv, NEW R \in SUBSET Contested, NEW n \in 1 .. MaxDisconnect, ReprocessBlocks(R, n)
    PROVE  Inv'
<1>1. JobOK' /\ PhaseOK'
  BY IdleFacts, IdleStep DEF ReprocessBlocks
<1>2. reprocessing' \in [rejected : SUBSET Blocks, tips : Nat]
  <2>1. R \in SUBSET Blocks /\ n \in Nat
    BY VerdictAssumption
  <2> QED
    BY <2>1 DEF ReprocessBlocks
<1>3. job' \in JobType /\ pending' \in BOOLEAN /\ calls' \in Nat
  BY DEF Inv, TypeOK, JobType, ReprocessBlocks
<1> QED
  BY <1>1, <1>2, <1>3, ControlStep DEF ReprocessBlocks

LEMMA DisconnectBlocksAndReprocessInv ==
    ASSUME Inv, DisconnectBlocksAndReprocess
    PROVE  Inv'
<1>1. reprocessing.tips \in Nat
  BY DEF Inv, TypeOK
<1>2. job' \in JobType /\ job'.op = "reprocess" /\ job'.phase = "run"
  BY <1>1 DEF DisconnectBlocksAndReprocess, Idle, JobType
<1>3. JobOK' /\ PhaseOK'
  BY <1>2, IdleFacts DEF JobOK, PhaseOK, DisconnectBlocksAndReprocess
<1>4. reprocessing' \in [rejected : SUBSET Blocks, tips : Nat]
  BY DEF DisconnectBlocksAndReprocess, NotReprocessing
<1>5. pending' \in BOOLEAN /\ calls' \in Nat
  BY DEF Inv, TypeOK, DisconnectBlocksAndReprocess
<1> QED
  BY <1>2, <1>3, <1>4, <1>5, ControlStep DEF DisconnectBlocksAndReprocess

LEMMA ReturnInv ==
    ASSUME Inv, ReprocessReturn \/ ActivateReturn
    PROVE  Inv'
<1>1. job' = Idle /\ job' \in JobType /\ pending' \in BOOLEAN
      /\ UNCHANGED <<treeVars, tip, coinsTip, diskVars, reprocessing, calls, restarts>>
  <2>1. job' = Idle /\ pending' \in BOOLEAN
        /\ UNCHANGED <<treeVars, tip, coinsTip, diskVars, reprocessing, calls, restarts>>
    BY DEF ReprocessReturn, ActivateReturn
  <2>2. Idle \in JobType
    BY DEF Idle, JobType
  <2> QED
    BY <2>1, <2>2
<1>2. JobOK' /\ PhaseOK'
  BY <1>1, IdleStep DEF Inv, PhaseOK, ReprocessReturn, ActivateReturn
<1> QED
  BY <1>1, <1>2, ControlStep DEF Inv, TypeOK

------------------------------------------------------------------------------
(* FindMostWorkChain.                                                       *)

LEMMA MostWorkIsBest ==
    ASSUME TypeOK
    PROVE  \/ MostWork = None /\ candidates \ Unusable = {}
           \/ /\ MostWork \in candidates \ Unusable
              /\ MostWork # None
              /\ \A d \in candidates \ Unusable : d # MostWork => Worse(d, MostWork)
<1> DEFINE U == candidates \ Unusable
           Is(c) == c \in U /\ \A d \in U : d # c => Worse(d, c)
<1>1. CASE U = {}
  BY <1>1 DEF MostWork
<1>2. CASE U # {}
  <2>1. \E c \in U : \A d \in U : d # c => WorseIn(seq, addr, d, c)
    BY <1>2, BestExists DEF TypeOK
  <2>2. \E c : Is(c)
    BY <2>1 DEF Worse
  <2>3. MostWork = CHOOSE c : Is(c)
    BY <1>2 DEF MostWork
  <2>4. Is(MostWork)
    <3> HIDE DEF Is
    <3> QED
      BY <2>2, <2>3
  <2> QED
    BY <2>4, TreeAssumption DEF TypeOK
<1> QED
  BY <1>1, <1>2

\* A block that FindMostWorkChain marks has, in its own branch, a failed block
\* before it.
LEMMA DoomedByFailure ==
    ASSUME TypeOK, NEW d \in Doomed
    PROVE  /\ d \in Blocks /\ d \notin Ancestors[tip]
           /\ \E f \in Failed(index) : f \in Ancestors[d] /\ f \notin Ancestors[tip]
<1>1. PICK c \in PassedOver : d \in UpToFailure(c)
  BY DEF Doomed
<1>2. c \in Blocks /\ Branch(c) \cap Failed(index) # {}
  BY DEF PassedOver, Unusable, TypeOK
<1>3. PICK f \in Branch(c) : f \in Failed(index)
  BY <1>2
<1>4. d \in Ancestors[c] /\ f \in Ancestors[c] /\ d \notin Ancestors[tip] /\ f \notin Ancestors[tip]
  BY <1>1, <1>3 DEF UpToFailure, Branch
<1>5. d \in Blocks
  BY <1>2, <1>4, AncestorsSelf
<1>6. f \in Ancestors[d]
  <2>1. CASE d = f
    BY <1>5, <2>1, AncestorsSelf
  <2>2. CASE d # f
    <3>1. d \notin Ancestors[f]
      BY <1>1, <1>3, <2>2 DEF UpToFailure
    <3> QED
      BY <1>2, <1>4, <3>1, AncestorsTotal
  <2> QED
    BY <2>1, <2>2
<1> QED
  BY <1>3, <1>4, <1>5, <1>6

\* The failure flags after FindMostWorkChain.
LEMMA MarkDoomed ==
    ASSUME Inv, index' = Add(index, "failedChild", Doomed \ Failed(index))
    PROVE  /\ index' \in IndexType /\ \A f \in Kept : index'[f] = index[f]
           /\ index'["failedValid"] = index["failedValid"]
           /\ Failed(index') = Failed(index) \cup Doomed
<1>1. Doomed \ Failed(index) \in SUBSET Blocks
  BY DoomedByFailure DEF Inv
<1>2. index \in IndexType
  BY DEF Inv, TypeOK, IndexType
<1>3. index' \in IndexType /\ (\A f \in Kept : index'[f] = index[f])
  BY <1>1, <1>2, FlagFields
<1>4. /\ index'["failedValid"] = index["failedValid"]
      /\ index'["failedChild"] = index["failedChild"] \cup (Doomed \ Failed(index))
  BY <1>1, <1>2, AddFields, FieldNames
<1> QED
  BY <1>3, <1>4 DEF Failed

\* The goal's branch stays free of failures.
LEMMA GoalNotDoomed ==
    ASSUME TypeOK, NEW c \in Blocks, Branch(c) \cap Failed(index) = {}
    PROVE  Branch(c) \cap Doomed = {}
<1> SUFFICES ASSUME NEW d \in Branch(c), d \in Doomed PROVE FALSE
  OBVIOUS
<1>1. PICK f \in Failed(index) : f \in Ancestors[d] /\ f \notin Ancestors[tip]
  BY DoomedByFailure
<1>2. f \in Ancestors[c]
  BY <1>1, AncestorsTransitive DEF Branch
<1> QED
  BY <1>1, <1>2 DEF Branch

LEMMA FindMostWorkChainInv ==
    ASSUME Inv, FindMostWorkChain
    PROVE  Inv'
<1>0. TypeOK /\ job = Idle /\ coinsTip = tip /\ tip \in Blocks /\ candidates \subseteq linked
      /\ linked \subseteq Blocks
  BY IdleFacts DEF FindMostWorkChain, Inv, LinksOK
<1>1. index' \in IndexType /\ (\A f \in Kept : index'[f] = index[f])
      /\ Failed(index') = Failed(index) \cup Doomed
  BY MarkDoomed DEF FindMostWorkChain
<1>2. candidates' = candidates \ Doomed /\ dirty' = dirty
      /\ UNCHANGED <<linked, seq, nextSeq, addr, unlinked, tip, coinsTip, diskIndex, diskBest,
                     reprocessing, calls, restarts>>
  BY DEF FindMostWorkChain, diskVars
<1>3. IndexOK' /\ LinksOK' /\ DiskOK'
  BY <1>0, <1>1, <1>2, FlagsStep
<1>4. CandidatesOK'
  BY <1>2 DEF Inv, CandidatesOK, Worse
<1>5. CASE MostWork \in {None, tip}
  <2>1. job' = Idle /\ pending' = FALSE
    BY <1>5 DEF FindMostWorkChain
  <2>2. JobOK' /\ PhaseOK'
    BY <1>0, <1>2, <2>1, IdleStep
  <2>3. Idle \in JobType
    BY DEF Idle, JobType
  <2>4. TypeOK'
    BY <1>0, <1>1, <1>2, <2>1, <2>3 DEF TypeOK, IndexType, JobType
  <2> QED
    BY <1>3, <1>4, <2>2, <2>4 DEF Inv
<1>6. CASE MostWork \notin {None, tip}
  <2>0. job' = [Idle EXCEPT !.op = "activate", !.target = MostWork, !.from = tip]
        /\ pending' = pending
    BY <1>6 DEF FindMostWorkChain
  <2>1. MostWork \in candidates \ Unusable
    BY <1>0, <1>6, MostWorkIsBest
  <2>2. job' \in JobType /\ job'.op = "activate" /\ job'.target = MostWork /\ job'.from = tip
        /\ job'.phase = "run"
    <3>1. MostWork \in Blocks
      BY <1>0, <2>1
    <3> QED
      BY <1>0, <2>0, <3>1 DEF Idle, JobType
  <2>3. Branch(MostWork) \cap Failed(index') = {}
    <3>1. Branch(MostWork) \cap Failed(index) = {}
      BY <2>1 DEF Unusable
    <3>2. Branch(MostWork) \cap Doomed = {}
      BY <1>0, <2>1, <3>1, GoalNotDoomed
    <3> QED
      BY <1>1, <3>1, <3>2
  <2>4. JobOK'
    <3>1. MostWork \in linked'
      BY <1>0, <1>2, <2>1
    <3>2. (Ancestors[MostWork] \ Ancestors[tip]) \cap Failed(index') = {}
      BY <2>3 DEF Branch
    <3>3. (Failed(index))' = Failed(index')
      BY DEF Failed
    <3> QED
      BY <1>0, <1>2, <2>2, <3>1, <3>2, <3>3 DEF JobOK
  <2>5. PhaseOK'
    BY <1>0, <1>2, <2>2 DEF PhaseOK
  <2>6. TypeOK'
    BY <1>0, <1>1, <1>2, <2>0, <2>2 DEF TypeOK, IndexType, JobType
  <2> QED
    BY <1>3, <1>4, <2>4, <2>5, <2>6 DEF Inv
<1> QED
  BY <1>5, <1>6

------------------------------------------------------------------------------
(* Writing to disk, connecting and disconnecting.                           *)

\* Writing every dirty record makes the disk agree with memory on what is kept.
LEMMA WriteAll ==
    ASSUME NEW old \in IndexType, NEW idx \in IndexType, NEW S \in SUBSET Blocks,
           \A f \in Kept : old[f] \subseteq idx[f] /\ idx[f] \ S \subseteq old[f]
    PROVE  /\ WriteRecords(old, idx, S) \in IndexType
           /\ \A f \in Kept : WriteRecords(old, idx, S)[f] = idx[f]
<1>1. WriteRecords(old, idx, S) \in IndexType
  BY WriteFields
<1>2. ASSUME NEW f \in Kept PROVE WriteRecords(old, idx, S)[f] = idx[f]
  <2>1. WriteRecords(old, idx, S)[f] = (old[f] \ S) \cup (idx[f] \cap S)
    BY WriteFields, FieldNames
  <2> QED
    BY <2>1
<1> QED
  BY <1>1, <1>2

\* The block index on disk is the one in memory.
LEMMA DiskAgrees ==
    ASSUME IndexOK', tip' \in Blocks, \A f \in Kept : diskIndex'[f] = index'[f],
           diskBest' \in Ancestors[tip']
    PROVE  DiskOK'
<1>1. /\ diskIndex'["known"] = index'["known"] /\ diskIndex'["data"] = index'["data"]
      /\ diskIndex'["scripts"] = index'["scripts"]
  BY DEF Kept
<1>2. Ancestors[tip'] \ {Genesis} \subseteq index'["scripts"]
  <2>1. CASE tip' = Genesis
    BY <2>1, AncestorsEquation
  <2>2. CASE tip' # Genesis
    BY <2>2 DEF IndexOK
  <2> QED
    BY <2>1, <2>2
<1> QED
  BY <1>1, <1>2 DEF DiskOK, IndexOK, Kept

LEMMA FlushStateToDiskInv ==
    ASSUME Inv, FlushStateToDisk
    PROVE  Inv'
<1>0. job = Idle /\ coinsTip = tip /\ tip \in Blocks /\ index \in IndexType /\ dirty \subseteq Blocks
      /\ diskIndex \in IndexType
  BY IdleFacts DEF FlushStateToDisk, Inv, TypeOK, IndexType
<1>1. diskIndex' \in IndexType /\ \A f \in Kept : diskIndex'[f] = index[f]
  <2>1. diskIndex' = WriteRecords(diskIndex, index, dirty)
    BY DEF FlushStateToDisk
  <2>2. \A f \in Kept : diskIndex[f] \subseteq index[f] /\ index[f] \ dirty \subseteq diskIndex[f]
    BY DEF Inv, DiskOK
  <2> QED
    BY <1>0, <2>1, <2>2, WriteAll
<1>2. dirty' = {} /\ UNCHANGED <<index, linked, seq, nextSeq, addr, candidates, unlinked, tip,
                                coinsTip, diskBest, pending, reprocessing, calls, restarts>>
  BY DEF FlushStateToDisk
<1>3. job' \in JobType /\ job'.op = "flush" /\ job'.phase = "flush"
  BY DEF FlushStateToDisk, Idle, JobType
<1>4. TypeOK'
  BY <1>1, <1>2, <1>3 DEF Inv, TypeOK, IndexType, JobType
<1>5. JobOK' /\ PhaseOK'
  BY <1>0, <1>2, <1>3 DEF JobOK, PhaseOK
<1>6. IndexOK' /\ LinksOK' /\ CandidatesOK'
  BY <1>2 DEF Inv, IndexOK, LinksOK, CandidatesOK, Worse
<1>7. DiskOK'
  <2>1. diskBest' \in Ancestors[tip']
    BY <1>2 DEF Inv, DiskOK
  <2> QED
    BY <1>0, <1>1, <1>2, <1>6, <2>1, DiskAgrees
<1> QED
  BY <1>4, <1>5, <1>6, <1>7 DEF Inv

\* The blocks of the active chain but the genesis block have their scripts
\* checked and are linked.
LEMMA TipChain ==
    ASSUME Inv
    PROVE  /\ Ancestors[tip] \ {Genesis} \subseteq index["scripts"]
           /\ Ancestors[tip] \subseteq index["data"] /\ tip \in linked /\ tip \in Blocks
<1>1. Ancestors[tip] \ {Genesis} \subseteq index["scripts"]
  <2>1. CASE tip = Genesis
    BY <2>1, AncestorsEquation
  <2>2. CASE tip # Genesis
    BY <2>2 DEF Inv, IndexOK
  <2> QED
    BY <2>1, <2>2
<1>2. Ancestors[tip] \subseteq index["data"] /\ tip \in Blocks
  BY <1>1 DEF Inv, IndexOK, TypeOK
<1>3. tip \in index["known"]
  BY <1>2, AncestorsSelf DEF Inv, IndexOK
<1> QED
  BY <1>1, <1>2, <1>3 DEF Inv, LinksOK

LEMMA MustDisconnectNotGenesis ==
    ASSUME Inv, MustDisconnect, job.phase = "run"
    PROVE  /\ tip \in Blocks \ {Genesis}
           /\ job.op \in {"activate", "invalidate", "reprocess"}
           /\ job.op = "activate" => tip \notin Ancestors[job.target]
<1>1. tip \in Blocks /\ linked \subseteq Blocks /\ index["failedValid"] \subseteq Blocks
  BY DEF Inv, TypeOK, Fields
<1>2. CASE job.op = "activate" /\ tip \notin Ancestors[job.target]
  <2>1. Genesis \in Ancestors[job.target]
    BY <1>1, <1>2, AncestorsSelf DEF Inv, JobOK
  <2> QED
    BY <1>1, <1>2, <2>1
<1>3. CASE job.op = "invalidate" /\ job.target \in Ancestors[tip]
  <2>1. job.target # Genesis
    BY <1>3 DEF Inv, JobOK
  <2> QED
    BY <1>1, <1>3, <2>1, AncestorsEquation
<1>4. CASE job.op = "reprocess" /\ job.left > 0 /\ tip # Genesis
  BY <1>1, <1>4
<1> QED
  BY <1>2, <1>3, <1>4 DEF MustDisconnect

LEMMA DisconnectJob ==
    ASSUME Inv, DisconnectTip
    PROVE  /\ job' \in JobType /\ job'.op = job.op /\ job'.target = job.target
           /\ job'.from = job.from /\ job'.phase = "disconnect"
<1>1. job \in JobType
  BY DEF Inv, TypeOK, JobType
<1>2. job' = [job EXCEPT !.phase = "disconnect",
                         !.left = IF job.op = "reprocess" THEN @ - 1 ELSE @]
  BY DEF DisconnectTip
<1>3. ASSUME NEW k \in Nat, NEW j, j = [job EXCEPT !.phase = "disconnect", !.left = k]
      PROVE  /\ j \in JobType /\ j.op = job.op /\ j.target = job.target
             /\ j.from = job.from /\ j.phase = "disconnect"
  BY <1>1, <1>3 DEF JobType
<1>4. CASE job.op = "reprocess"
  <2>1. job.left \in Nat /\ job.left > 0
    BY <1>1, <1>4 DEF JobType, DisconnectTip, MustDisconnect
  <2>2. job.left - 1 \in Nat
    BY <2>1
  <2>3. job' = [job EXCEPT !.phase = "disconnect", !.left = job.left - 1]
    BY <1>1, <1>2, <1>4 DEF JobType
  <2> QED
    BY <1>3, <2>2, <2>3
<1>5. CASE job.op # "reprocess"
  <2>1. job.left \in Nat
    BY <1>1 DEF JobType
  <2>2. job' = [job EXCEPT !.phase = "disconnect", !.left = job.left]
    BY <1>1, <1>2, <1>5 DEF JobType
  <2> QED
    BY <1>3, <2>1, <2>2
<1> QED
  BY <1>4, <1>5

LEMMA DisconnectTipInv ==
    ASSUME Inv, DisconnectTip
    PROVE  Inv'
<1> DEFINE idx == IF job.op = "invalidate" THEN Add(index, "failedChild", {tip}) ELSE index
           toWrite == IF job.op = "invalidate" THEN dirty \cup {tip} ELSE dirty
<1>0. /\ tip \in Blocks \ {Genesis} /\ job.op \in {"activate", "invalidate", "reprocess"}
      /\ job.op = "activate" => tip \notin Ancestors[job.target]
  BY MustDisconnectNotGenesis DEF DisconnectTip
<1>1. /\ index' = idx
      /\ candidates' = IF job.op = "invalidate" THEN candidates \ {tip} ELSE candidates
      /\ diskIndex' = WriteRecords(diskIndex, idx, toWrite) /\ dirty' = {} /\ coinsTip' = Parent[tip]
      /\ UNCHANGED <<linked, seq, nextSeq, addr, unlinked, tip, diskBest, pending, reprocessing,
                     calls, restarts>>
  BY DEF DisconnectTip
<1>2. index \in IndexType /\ diskIndex \in IndexType /\ dirty \subseteq Blocks /\ toWrite \in SUBSET Blocks
  BY <1>0 DEF Inv, TypeOK, IndexType
<1>3. idx \in IndexType /\ (\A f \in Kept : idx[f] = index[f]) /\ idx["failedValid"] = index["failedValid"]
  <2>1. CASE job.op = "invalidate"
    BY <1>0, <1>2, <2>1, FlagFields, AddFields, FieldNames
  <2>2. CASE job.op # "invalidate"
    BY <1>2, <2>2
  <2> QED
    BY <2>1, <2>2
<1>4. diskIndex' \in IndexType /\ \A f \in Kept : diskIndex'[f] = index'[f]
  <2>1. \A f \in Kept : diskIndex[f] \subseteq idx[f] /\ idx[f] \ toWrite \subseteq diskIndex[f]
    <3>1. dirty \subseteq toWrite
      OBVIOUS
    <3> HIDE DEF idx, toWrite
    <3> QED
      BY <1>3, <3>1 DEF Inv, DiskOK
  <2> HIDE DEF idx, toWrite
  <2> QED
    BY <1>1, <1>2, <1>3, <2>1, WriteAll
<1>5. /\ Parent[tip] \in Blocks /\ Parent[tip] \in Ancestors[tip]
      /\ Ancestors[tip] = {tip} \cup Ancestors[Parent[tip]]
  BY <1>0, AncestorsOfChild, AncestorsSelf
<1>6. /\ index'["known"] = index["known"] /\ index'["data"] = index["data"]
      /\ index'["scripts"] = index["scripts"] /\ index' \in IndexType
      /\ index'["failedValid"] = index["failedValid"]
  <2> HIDE DEF idx
  <2> QED
    BY <1>1, <1>3 DEF Kept
<1>7. TypeOK'
  <2>1. candidates' \subseteq Blocks
    BY <1>1 DEF Inv, TypeOK
  <2> HIDE DEF idx, toWrite
  <2> QED
    BY <1>1, <1>4, <1>5, <1>6, <2>1, DisconnectJob DEF Inv, TypeOK, IndexType, JobType
<1>8. JobOK'
  <2>1. CASE job.op = "activate"
    <3>1. index' = index
      BY <1>1, <2>1
    <3> HIDE DEF idx, toWrite
    <3> QED
      BY <1>0, <1>1, <2>1, <3>1, DisconnectJob DEF Inv, JobOK, Failed
  <2>2. CASE job.op # "activate"
    <3> HIDE DEF idx, toWrite
    <3> QED
      BY <1>0, <1>6, <2>2, DisconnectJob DEF Inv, JobOK
  <2> QED
    BY <2>1, <2>2
<1>9. PhaseOK'
  <2> HIDE DEF idx, toWrite
  <2> QED
    BY <1>0, <1>1, DisconnectJob DEF PhaseOK
<1>10. IndexOK'
  <2> HIDE DEF idx, toWrite
  <2>1. {tip, Parent[tip]} \ {Genesis} \subseteq index["scripts"]
    BY <1>5, TipChain, AncestorsSelf
  <2> QED
    BY <1>1, <1>6, <2>1 DEF Inv, IndexOK
<1>11. LinksOK' /\ CandidatesOK'
  <2>1. candidates' \subseteq candidates
    BY <1>1
  <2> HIDE DEF idx, toWrite
  <2> QED
    BY <1>1, <1>6, <2>1 DEF Inv, LinksOK, CandidatesOK, Worse
<1>12. DiskOK'
  <2> HIDE DEF idx, toWrite
  <2>1. diskBest' \in Ancestors[tip'] /\ tip' \in Blocks
    BY <1>0, <1>1 DEF Inv, DiskOK
  <2> QED
    BY <1>4, <1>10, <2>1, DiskAgrees
<1> QED
  BY <1>7, <1>8, <1>9, <1>10, <1>11, <1>12 DEF Inv

\* The block that ConnectTip connects.
LEMMA NextBlock ==
    ASSUME Inv, MayConnect, NEW b, b = NextToConnect
    PROVE  /\ b \in Blocks \ {Genesis} /\ Parent[b] = tip /\ tip \in Blocks
           /\ b \in Ancestors[job.target] /\ b \notin Ancestors[tip]
           /\ Ancestors[b] = {b} \cup Ancestors[tip]
           /\ b \in linked /\ Ancestors[b] \subseteq index["data"] /\ b \in index["known"]
           /\ b \notin Failed(index) /\ coinsTip = tip
           /\ job.op = "activate" /\ job.phase = "run"
<1> DEFINE Is(c) == c \in Ancestors[job.target] \ {Genesis} /\ Parent[c] = tip
<1>1. /\ job.op = "activate" /\ job.phase = "run" /\ tip \in Ancestors[job.target]
      /\ tip # job.target /\ job.target \in linked /\ job.target \in Blocks
      /\ Ancestors[job.target] \subseteq index["data"]
  BY DEF Inv, MayConnect, StepComplete, JobOK, TypeOK, LinksOK
<1>2. \E c : Is(c)
  BY <1>1, ChildTowards
<1>3. NextToConnect = CHOOSE c : Is(c)
  BY DEF NextToConnect
<1>4. Is(NextToConnect)
  <2> HIDE DEF Is
  <2> QED
    BY <1>2, <1>3
<1>5. b \in Blocks \ {Genesis} /\ Parent[b] = tip /\ b \in Ancestors[job.target]
  BY <1>1, <1>4, AncestorsSelf
<1>6. Ancestors[b] = {b} \cup Ancestors[tip] /\ b \notin Ancestors[tip] /\ tip \in Blocks
  BY <1>5, AncestorsOfChild
<1>7. Ancestors[b] \subseteq index["data"] /\ b \in index["known"]
  BY <1>1, <1>5, <1>6, AncestorsTransitive DEF Inv, IndexOK
<1>8. b \in linked
  BY <1>7 DEF Inv, LinksOK
<1>9. b \notin Failed(index)
  BY <1>1, <1>5, <1>6 DEF Inv, JobOK
<1>10. coinsTip = tip
  BY <1>1 DEF Inv, PhaseOK
<1> QED
  BY <1>1, <1>5, <1>6, <1>7, <1>8, <1>9, <1>10

\* What is in memory once the scripts of b have been checked.
LEMMA ScriptsChecked ==
    ASSUME Inv, MayConnect, NEW b, b = NextToConnect, b \notin Invalid,
           index' = Add(index, "scripts", {b}), coinsTip' = b, tip' \in {tip, b},
           UNCHANGED <<linked, unlinked>>, candidates' \subseteq candidates
    PROVE  /\ index' \in IndexType /\ index'["known"] = index["known"]
           /\ index'["data"] = index["data"] /\ index'["scripts"] = index["scripts"] \cup {b}
           /\ index'["failedValid"] = index["failedValid"]
           /\ index'["failedChild"] = index["failedChild"]
           /\ IndexOK' /\ LinksOK'
<1>1. /\ b \in Blocks \ {Genesis} /\ Ancestors[b] = {b} \cup Ancestors[tip]
      /\ Ancestors[b] \subseteq index["data"] /\ b \in Ancestors[b]
  BY NextBlock
<1>2. /\ index' \in IndexType /\ index'["known"] = index["known"]
      /\ index'["data"] = index["data"] /\ index'["scripts"] = index["scripts"] \cup {b}
      /\ index'["failedValid"] = index["failedValid"]
      /\ index'["failedChild"] = index["failedChild"]
  BY <1>1, AddFields, FieldNames DEF Inv, TypeOK, IndexType
<1>3. IndexOK'
  <2>1. Ancestors[b] \ {Genesis} \subseteq index'["scripts"]
    BY <1>1, <1>2, TipChain
  <2>2. {tip', coinsTip'} \ {Genesis} \subseteq index'["scripts"]
    BY <1>2 DEF Inv, IndexOK
  <2> QED
    BY <1>1, <1>2, <2>1, <2>2 DEF Inv, IndexOK
<1>4. LinksOK'
  BY <1>2 DEF Inv, LinksOK
<1> QED
  BY <1>2, <1>3, <1>4

\* What ConnectBlock's own write of the record of b changes on disk.
LEMMA WriteNext ==
    ASSUME Inv, MayConnect, NEW b, b = NextToConnect, NEW disk,
           disk = WriteRecords(diskIndex, index, {b})
    PROVE  /\ disk \in IndexType /\ disk["known"] = diskIndex["known"] \cup {b}
           /\ disk["data"] = diskIndex["data"] \cup {b}
           /\ disk["scripts"] = diskIndex["scripts"]
           /\ disk["failedValid"] = diskIndex["failedValid"] \ {b}
           /\ disk["failedChild"] = diskIndex["failedChild"] \ {b}
<1>1. /\ b \in Blocks \ {Genesis} /\ b \in index["data"] /\ b \in index["known"]
      /\ b \notin Ancestors[tip] /\ b \notin Failed(index)
  BY NextBlock
<1>2. b \in index["scripts"] <=> b \in diskIndex["scripts"]
  BY <1>1 DEF Inv, DiskOK, Kept
<1>3. index \in IndexType /\ diskIndex \in IndexType
  BY DEF Inv, TypeOK, IndexType
<1>4. disk \in IndexType /\ \A f \in Fields : disk[f] = (diskIndex[f] \ {b}) \cup (index[f] \cap {b})
  BY <1>1, <1>3, WriteFields
<1>5. /\ disk["known"] = diskIndex["known"] \cup {b}
      /\ disk["data"] = diskIndex["data"] \cup {b}
  <2>1. /\ disk["known"] = (diskIndex["known"] \ {b}) \cup (index["known"] \cap {b})
        /\ disk["data"] = (diskIndex["data"] \ {b}) \cup (index["data"] \cap {b})
    BY <1>4, FieldNames
  <2> QED
    BY <1>1, <2>1
<1>6. disk["scripts"] = diskIndex["scripts"]
  <2>1. disk["scripts"] = (diskIndex["scripts"] \ {b}) \cup (index["scripts"] \cap {b})
    BY <1>4, FieldNames
  <2> QED
    BY <1>2, <2>1
<1>7. /\ disk["failedValid"] = diskIndex["failedValid"] \ {b}
      /\ disk["failedChild"] = diskIndex["failedChild"] \ {b}
  <2>1. b \notin index["failedValid"] /\ b \notin index["failedChild"]
    BY <1>1 DEF Failed
  <2>2. /\ disk["failedValid"] = (diskIndex["failedValid"] \ {b}) \cup (index["failedValid"] \cap {b})
        /\ disk["failedChild"] = (diskIndex["failedChild"] \ {b}) \cup (index["failedChild"] \cap {b})
    BY <1>4, FieldNames
  <2> QED
    BY <2>1, <2>2
<1> QED
  BY <1>4, <1>5, <1>6, <1>7

LEMMA ConnectTipInv ==
    ASSUME Inv, ConnectTip
    PROVE  Inv'
<1> DEFINE b == NextToConnect
<1>0. /\ MayConnect /\ b \notin Invalid /\ diskIndex' = WriteRecords(diskIndex, index, {b})
      /\ index' = Add(index, "scripts", {b})
      /\ dirty' = IF b \in index["scripts"] THEN dirty ELSE dirty \cup {b}
      /\ coinsTip' = b /\ tip' = b /\ candidates' = PruneBlockIndexCandidates(b)
      /\ UNCHANGED <<linked, seq, nextSeq, addr, unlinked, diskBest, job, pending, reprocessing,
                     calls, restarts>>
  BY DEF ConnectTip
<1> HIDE DEF b
<1>1. /\ b \in Blocks \ {Genesis} /\ tip \in Blocks
      /\ b \in Ancestors[job.target] /\ b \notin Ancestors[tip]
      /\ Ancestors[b] = {b} \cup Ancestors[tip] /\ b \in index["known"] /\ b \in index["data"]
      /\ job.op = "activate" /\ job.phase = "run"
  BY <1>0, NextBlock DEF b
<1>2. candidates' \subseteq candidates
  BY <1>0 DEF PruneBlockIndexCandidates
<1>3. /\ index' \in IndexType /\ index'["known"] = index["known"]
      /\ index'["data"] = index["data"] /\ index'["scripts"] = index["scripts"] \cup {b}
      /\ index'["failedValid"] = index["failedValid"]
      /\ index'["failedChild"] = index["failedChild"]
      /\ IndexOK' /\ LinksOK'
  BY <1>0, <1>2, ScriptsChecked DEF b
<1>4. /\ diskIndex' \in IndexType /\ diskIndex'["known"] = diskIndex["known"] \cup {b}
      /\ diskIndex'["data"] = diskIndex["data"] \cup {b}
      /\ diskIndex'["scripts"] = diskIndex["scripts"]
  BY <1>0, WriteNext DEF b
<1>5. TypeOK'
  <2>1. dirty' \subseteq Blocks
    BY <1>0, <1>1 DEF Inv, TypeOK
  <2> QED
    BY <1>0, <1>1, <1>2, <1>3, <1>4, <2>1 DEF Inv, TypeOK, IndexType
<1>6. JobOK'
  <2>1. Failed(index)' = Failed(index)
    BY <1>3 DEF Failed
  <2> QED
    BY <1>0, <1>1, <2>1 DEF Inv, JobOK
<1>7. PhaseOK'
  BY <1>0, <1>1 DEF PhaseOK
<1>8. DiskOK'
  <2>1. dirty \subseteq dirty' /\ (b \in index["scripts"] \/ b \in dirty')
    BY <1>0
  <2>2. ASSUME NEW f \in Kept
        PROVE  diskIndex'[f] \subseteq index'[f] /\ index'[f] \ dirty' \subseteq diskIndex'[f]
    <3>1. CASE f \in {"known", "data"}
      BY <1>1, <1>3, <1>4, <2>1, <3>1 DEF Inv, DiskOK, Kept
    <3>2. CASE f = "scripts"
      <4>1. b \in index["scripts"] => b \in diskIndex["scripts"]
        BY <1>1 DEF Inv, DiskOK
      <4>2. /\ diskIndex["scripts"] \subseteq index["scripts"]
            /\ index["scripts"] \ dirty \subseteq diskIndex["scripts"]
        BY DEF Inv, DiskOK, Kept
      <4> QED
        BY <1>3, <1>4, <2>1, <3>2, <4>1, <4>2
    <3> QED
      BY <3>1, <3>2 DEF Kept
  <2>3. \A c \in diskIndex'["known"] : Ancestors[c] \subseteq diskIndex'["known"]
    BY <1>1, <1>4 DEF Inv, DiskOK
  <2>4. /\ Genesis \in diskIndex'["data"] /\ diskIndex'["data"] \subseteq diskIndex'["known"]
        /\ diskIndex'["scripts"] \subseteq diskIndex'["data"]
        /\ \A c \in diskIndex'["scripts"] : Ancestors[c] \ {Genesis} \subseteq diskIndex'["scripts"]
    BY <1>4 DEF Inv, DiskOK
  <2>5. /\ {tip', coinsTip'} \subseteq diskIndex'["known"]
        /\ diskBest' \in diskIndex'["scripts"] \cup {Genesis} /\ diskBest' \in Ancestors[tip']
        /\ index'["scripts"] \ diskIndex'["scripts"] \subseteq Ancestors[tip']
    BY <1>0, <1>1, <1>3, <1>4 DEF Inv, DiskOK
  <2> QED
    BY <2>2, <2>3, <2>4, <2>5 DEF DiskOK
<1>9. CandidatesOK'
  BY <1>0 DEF PruneBlockIndexCandidates, CandidatesOK, Worse
<1> QED
  BY <1>3, <1>5, <1>6, <1>7, <1>8, <1>9 DEF Inv

LEMMA ConnectTipAndFlushInv ==
    ASSUME Inv, ConnectTipAndFlush
    PROVE  Inv'
<1> DEFINE b == NextToConnect
<1>0. /\ MayConnect /\ b \notin Invalid /\ index' = Add(index, "scripts", {b})
      /\ diskIndex' = WriteRecords(diskIndex, index', dirty \cup {b})
      /\ dirty' = {} /\ coinsTip' = b /\ job' = [job EXCEPT !.phase = "connect"]
      /\ UNCHANGED <<linked, seq, nextSeq, addr, candidates, unlinked, tip, diskBest,
                     pending, reprocessing, calls, restarts>>
  BY DEF ConnectTipAndFlush
<1> HIDE DEF b
<1>1. /\ b \in Blocks \ {Genesis} /\ Parent[b] = tip /\ tip \in Blocks
      /\ b \in Ancestors[job.target] /\ job.op = "activate" /\ job.phase = "run"
  BY <1>0, NextBlock DEF b
<1>2. /\ index' \in IndexType /\ index'["known"] = index["known"]
      /\ index'["data"] = index["data"] /\ index'["scripts"] = index["scripts"] \cup {b}
      /\ index'["failedValid"] = index["failedValid"]
      /\ index'["failedChild"] = index["failedChild"]
      /\ IndexOK' /\ LinksOK'
  BY <1>0, ScriptsChecked DEF b
<1>3. diskIndex' \in IndexType /\ \A f \in Kept : diskIndex'[f] = index'[f]
  <2>1. ASSUME NEW f \in Kept
        PROVE  diskIndex[f] \subseteq index'[f] /\ index'[f] \ (dirty \cup {b}) \subseteq diskIndex[f]
    <3>1. index'[f] = index[f] \/ index'[f] = index[f] \cup {b}
      BY <1>2 DEF Kept
    <3> QED
      BY <3>1 DEF Inv, DiskOK
  <2>2. diskIndex \in IndexType /\ dirty \cup {b} \in SUBSET Blocks
    BY <1>1 DEF Inv, TypeOK, IndexType
  <2>3. /\ WriteRecords(diskIndex, index', dirty \cup {b}) \in IndexType
        /\ \A f \in Kept : WriteRecords(diskIndex, index', dirty \cup {b})[f] = index'[f]
    BY <1>2, <2>1, <2>2, WriteAll
  <2> QED
    BY <1>0, <2>3
<1>4. /\ job' \in JobType /\ job'.op = "activate" /\ job'.target = job.target
      /\ job'.from = job.from /\ job'.phase = "connect"
  <2>1. job \in JobType
    BY DEF Inv, TypeOK, JobType
  <2> QED
    BY <1>0, <1>1, <2>1 DEF JobType
<1>5. TypeOK'
  BY <1>0, <1>1, <1>2, <1>3, <1>4 DEF Inv, TypeOK, IndexType, JobType
<1>6. JobOK'
  <2>1. Failed(index)' = Failed(index)
    BY <1>2 DEF Failed
  <2> QED
    BY <1>0, <1>1, <1>4, <2>1 DEF Inv, JobOK
<1>7. PhaseOK'
  BY <1>0, <1>1, <1>4 DEF PhaseOK
<1>8. DiskOK'
  <2>1. diskBest' \in Ancestors[tip'] /\ tip' \in Blocks
    BY <1>0, <1>1 DEF Inv, DiskOK
  <2> QED
    BY <1>2, <1>3, <2>1, DiskAgrees
<1>9. CandidatesOK'
  BY <1>0 DEF Inv, CandidatesOK, Worse
<1> QED
  BY <1>2, <1>5, <1>6, <1>7, <1>8, <1>9 DEF Inv

LEMMA ConnectTipFailsInv ==
    ASSUME Inv, ConnectTipFails
    PROVE  Inv'
<1> DEFINE b == NextToConnect
<1>0. /\ MayConnect /\ diskIndex' \in {diskIndex, WriteRecords(diskIndex, index, {b})}
      /\ index' = Add(index, "failedValid", {b}) /\ dirty' = dirty \cup {b}
      /\ candidates' = candidates \ {b} /\ job' = Idle
      /\ UNCHANGED <<linked, seq, nextSeq, addr, unlinked, tip, coinsTip, diskBest,
                     pending, reprocessing, calls, restarts>>
  BY DEF ConnectTipFails, InvalidBlockFound
<1> HIDE DEF b
<1>1. /\ b \in Blocks \ {Genesis} /\ tip \in Blocks /\ coinsTip = tip
      /\ Ancestors[b] = {b} \cup Ancestors[tip] /\ b \in index["known"] /\ b \in index["data"]
  BY <1>0, NextBlock DEF b
<1>2. index' \in IndexType /\ \A f \in Kept : index'[f] = index[f]
  <2>1. index \in IndexType /\ {b} \in SUBSET Blocks
    BY <1>1 DEF Inv, TypeOK, IndexType
  <2> QED
    BY <1>0, <2>1, FlagFields
<1>3. /\ index'["known"] = index["known"] /\ index'["data"] = index["data"]
      /\ index'["scripts"] = index["scripts"]
  BY <1>2 DEF Kept
<1>4. IndexOK' /\ LinksOK'
  BY <1>0, <1>3 DEF Inv, IndexOK, LinksOK
<1>5. /\ diskIndex' \in IndexType /\ diskIndex'["scripts"] = diskIndex["scripts"]
      /\ \/ diskIndex'["known"] = diskIndex["known"] /\ diskIndex'["data"] = diskIndex["data"]
         \/ /\ diskIndex'["known"] = diskIndex["known"] \cup {b}
            /\ diskIndex'["data"] = diskIndex["data"] \cup {b}
  <2>1. CASE diskIndex' = diskIndex
    BY <2>1 DEF Inv, TypeOK, IndexType
  <2>2. CASE diskIndex' = WriteRecords(diskIndex, index, {b})
    BY <1>0, <2>2, WriteNext DEF b
  <2> QED
    BY <1>0, <2>1, <2>2
<1>6. DiskOK'
  <2>1. ASSUME NEW f \in Kept
        PROVE  diskIndex'[f] \subseteq index'[f] /\ index'[f] \ dirty' \subseteq diskIndex'[f]
    <3>1. diskIndex[f] \subseteq index[f] /\ index[f] \ dirty \subseteq diskIndex[f]
      BY DEF Inv, DiskOK
    <3>2. \/ diskIndex'[f] = diskIndex[f]
          \/ diskIndex'[f] = diskIndex[f] \cup {b} /\ b \in index[f]
      <4>1. CASE f = "known"
        BY <1>1, <1>5, <4>1
      <4>2. CASE f = "data"
        BY <1>1, <1>5, <4>2
      <4>3. CASE f = "scripts"
        BY <1>5, <4>3
      <4> QED
        BY <4>1, <4>2, <4>3 DEF Kept
    <3> QED
      BY <1>0, <1>2, <3>1, <3>2
  <2>2. \A c \in diskIndex'["known"] : Ancestors[c] \subseteq diskIndex'["known"]
    BY <1>1, <1>5 DEF Inv, DiskOK
  <2>3. /\ Genesis \in diskIndex'["data"] /\ diskIndex'["data"] \subseteq diskIndex'["known"]
        /\ diskIndex'["scripts"] \subseteq diskIndex'["data"]
        /\ \A c \in diskIndex'["scripts"] : Ancestors[c] \ {Genesis} \subseteq diskIndex'["scripts"]
    BY <1>5 DEF Inv, DiskOK
  <2>4. /\ {tip', coinsTip'} \subseteq diskIndex'["known"]
        /\ diskBest' \in diskIndex'["scripts"] \cup {Genesis} /\ diskBest' \in Ancestors[tip']
        /\ index'["scripts"] \ diskIndex'["scripts"] \subseteq Ancestors[tip']
    BY <1>0, <1>3, <1>5 DEF Inv, DiskOK
  <2> QED
    BY <2>1, <2>2, <2>3, <2>4 DEF DiskOK
<1>7. JobOK' /\ PhaseOK'
  BY <1>0, <1>1, IdleStep
<1>8. TypeOK'
  <2>1. Idle \in JobType
    BY DEF Idle, JobType
  <2> QED
    BY <1>0, <1>1, <1>2, <1>5, <2>1 DEF Inv, TypeOK, IndexType, JobType
<1>9. CandidatesOK'
  BY <1>0 DEF Inv, CandidatesOK, Worse
<1> QED
  BY <1>4, <1>6, <1>7, <1>8, <1>9 DEF Inv

LEMMA FlushCoinsInv ==
    ASSUME Inv, FlushCoins
    PROVE  Inv'
<1>0. /\ job.phase \in {"connect", "disconnect", "flush"} /\ diskBest' = coinsTip /\ tip' = coinsTip
      /\ candidates' = IF job.phase = "connect" THEN PruneBlockIndexCandidates(coinsTip)
                                                ELSE candidates
      /\ job' = (IF job.op = "flush" THEN Idle ELSE [job EXCEPT !.phase = "run"])
      /\ UNCHANGED <<index, linked, seq, nextSeq, addr, unlinked, dirty, coinsTip,
                     diskIndex, pending, reprocessing, calls, restarts>>
  BY DEF FlushCoins
<1>1. job \in JobType /\ coinsTip \in Blocks /\ tip \in Blocks
  BY DEF Inv, TypeOK, JobType
<1>2. candidates' \subseteq candidates
  BY <1>0 DEF PruneBlockIndexCandidates
<1>3. /\ job' \in JobType
      /\ \/ job.op = "flush" /\ job' = Idle
         \/ /\ job.op # "flush" /\ job'.op = job.op /\ job'.target = job.target
            /\ job'.from = job.from /\ job'.phase = "run"
  <2>1. CASE job.op = "flush"
    BY <1>0, <2>1 DEF Idle, JobType
  <2>2. CASE job.op # "flush"
    <3>1. job' = [job EXCEPT !.phase = "run"]
      BY <1>0, <2>2
    <3> QED
      BY <1>1, <2>2, <3>1 DEF JobType
  <2> QED
    BY <2>1, <2>2
<1>4. TypeOK'
  BY <1>0, <1>1, <1>2, <1>3 DEF Inv, TypeOK, JobType
<1>5. JobOK'
  <2>1. CASE job.op = "flush"
    <3>1. job' = Idle
      BY <1>3, <2>1
    <3> QED
      BY <1>0, <3>1, IdleStep
  <2>2. CASE job.op = "activate"
    <3>0. job'.op = "activate" /\ job'.target = job.target /\ job'.from = job.from /\ job'.phase = "run"
      BY <1>3, <2>2
    <3>1. Ancestors[job.target] \cap Ancestors[job.from] \subseteq Ancestors[tip]
      BY <2>2 DEF Inv, JobOK
    <3>2. Ancestors[job.target] \cap Ancestors[job.from] \subseteq Ancestors[coinsTip]
      <4>1. CASE job.phase = "connect"
        <5>1. coinsTip # Genesis /\ tip = Parent[coinsTip]
          BY <4>1 DEF Inv, PhaseOK
        <5> QED
          BY <1>1, <3>1, <5>1, AncestorsOfChild
      <4>2. CASE job.phase = "disconnect"
        <5>1. tip # Genesis /\ coinsTip = Parent[tip]
          BY <4>2 DEF Inv, PhaseOK
        <5>2. tip \notin Ancestors[job.target]
          BY <4>2, <2>2 DEF Inv, JobOK
        <5> QED
          BY <1>1, <3>1, <5>1, <5>2, AncestorsOfChild
      <4> QED
        BY <1>0, <2>2, <4>1, <4>2 DEF Inv, JobOK
    <3>3. Failed(index)' = Failed(index)
      BY <1>0 DEF Failed
    <3> QED
      BY <1>0, <2>2, <3>0, <3>2, <3>3 DEF Inv, JobOK
  <2>3. CASE job.op \in {"invalidate", "reprocess"}
    BY <1>0, <1>3, <2>3 DEF Inv, JobOK
  <2> QED
    BY <1>0, <1>1, <2>1, <2>2, <2>3 DEF JobType, Inv, JobOK, Idle
<1>6. PhaseOK'
  BY <1>0, <1>3 DEF PhaseOK, Idle
<1>7. IndexOK' /\ LinksOK'
  BY <1>0, <1>2 DEF Inv, IndexOK, LinksOK
<1>8. DiskOK'
  <2>1. dirty = {}
    BY <1>0 DEF Inv, PhaseOK
  <2>2. ASSUME NEW f \in Kept PROVE diskIndex'[f] = index'[f]
    BY <1>0, <2>1 DEF Inv, DiskOK
  <2>3. diskBest' \in Ancestors[tip'] /\ tip' \in Blocks
    BY <1>0, <1>1, AncestorsSelf
  <2> QED
    BY <1>7, <2>2, <2>3, DiskAgrees
<1>9. CandidatesOK'
  <2>1. CASE job.phase = "connect"
    BY <1>0, <2>1 DEF PruneBlockIndexCandidates, CandidatesOK, Worse
  <2>2. CASE job.phase = "disconnect"
    <3>1. tip # Genesis /\ coinsTip = Parent[tip]
      BY <2>2 DEF Inv, PhaseOK
    <3>2. seq \in [Blocks -> Nat] /\ addr \in [Blocks -> Nat] /\ candidates \subseteq Blocks
      BY VerdictAssumption DEF Inv, TypeOK
    <3>3. ~ Worse(tip, coinsTip)
      <4>1. Work[coinsTip] < Work[tip] /\ Work[coinsTip] \in Nat /\ Work[tip] \in Nat
        BY <1>1, <3>1, AncestorsOfChild, TreeAssumption
      <4> QED
        BY <4>1 DEF Worse, WorseIn
    <3>4. \A c \in candidates : ~ Worse(c, tip)
      BY DEF Inv, CandidatesOK
    <3>5. \A c \in candidates : ~ Worse(c, coinsTip)
      BY <1>1, <3>2, <3>3, <3>4, WorseIsStrict DEF Worse
    <3> QED
      BY <1>0, <1>2, <3>5 DEF CandidatesOK, Worse
  <2>3. CASE job.phase = "flush"
    <3>1. coinsTip = tip
      BY <2>3 DEF Inv, PhaseOK
    <3> QED
      BY <1>0, <1>2, <3>1 DEF Inv, CandidatesOK, Worse
  <2> QED
    BY <1>0, <2>1, <2>2, <2>3
<1> QED
  BY <1>4, <1>5, <1>6, <1>7, <1>8, <1>9 DEF Inv

LEMMA RestartInv ==
    ASSUME Inv, Restart
    PROVE  Inv'
<1>0. /\ index' = diskIndex /\ linked' = LoadedLinked /\ unlinked' = LoadedUnlinked
      /\ seq' = [b \in Blocks |-> 0] /\ nextSeq' = 1 /\ dirty' = {}
      /\ tip' = diskBest /\ coinsTip' = diskBest /\ job' = Idle /\ pending' = TRUE
      /\ reprocessing' = NotReprocessing /\ restarts' = restarts + 1
      /\ UNCHANGED <<diskIndex, diskBest, calls>>
  BY DEF Restart, diskVars
<1>1. addr' \in AddressOrders /\ candidates' = LoadedCandidates(addr')
  BY DEF Restart
<1>2. /\ diskIndex["data"] \subseteq diskIndex["known"] /\ diskBest \in Blocks
      /\ diskIndex["known"] \subseteq Blocks /\ candidates' \subseteq LoadedLinked
  BY <1>1 DEF Inv, DiskOK, TypeOK, Fields, LoadedCandidates
<1>3. TypeOK'
  <2>1. Idle \in JobType /\ NotReprocessing \in [rejected : SUBSET Blocks, tips : Nat]
    BY DEF Idle, JobType, NotReprocessing
  <2>2. restarts' \in Nat /\ nextSeq' \in Nat /\ seq' \in [Blocks -> Nat]
    BY <1>0 DEF Inv, TypeOK
  <2>3. LoadedLinked \subseteq Blocks /\ LoadedUnlinked \subseteq Blocks
    BY <1>2 DEF LoadedLinked, LoadedUnlinked
  <2> QED
    BY <1>0, <1>1, <1>2, <2>1, <2>2, <2>3 DEF Inv, TypeOK, JobType
<1>4. JobOK' /\ PhaseOK'
  BY <1>0, IdleStep
<1>5. IndexOK'
  <2>1. {diskBest} \ {Genesis} \subseteq diskIndex["scripts"]
    BY DEF Inv, DiskOK
  <2>2. diskIndex["scripts"] \subseteq index["scripts"]
    BY DEF Inv, DiskOK, Kept
  <2> QED
    BY <1>0, <2>1, <2>2 DEF Inv, DiskOK, IndexOK
<1>6. LinksOK'
  <2>1. LoadedLinked = {b \in diskIndex["known"] : Ancestors[b] \subseteq diskIndex["data"]}
    BY <1>2, AncestorsSelf DEF LoadedLinked
  <2>2. LinksOK' <=> /\ LoadedLinked = {b \in diskIndex["known"] : Ancestors[b] \subseteq diskIndex["data"]}
                     /\ candidates' \subseteq LoadedLinked
                     /\ LoadedUnlinked = diskIndex["data"] \ LoadedLinked
    BY <1>0 DEF LinksOK
  <2> QED
    BY <1>2, <2>1, <2>2 DEF LoadedUnlinked
<1>7. DiskOK'
  <2>1. diskBest' \in Ancestors[tip'] /\ tip' \in Blocks
    BY <1>0, <1>2, AncestorsSelf
  <2> QED
    BY <1>0, <1>5, <2>1, DiskAgrees
<1>8. CandidatesOK'
  <2>1. ASSUME NEW c \in candidates' PROVE ~ Worse(c, tip)'
    <3>1. ~ WorseIn([d \in Blocks |-> 0], addr', c, diskBest)
      BY <1>1 DEF LoadedCandidates
    <3> QED
      BY <1>0, <3>1 DEF Worse
  <2> QED
    BY <2>1 DEF CandidatesOK
<1> QED
  BY <1>3, <1>4, <1>5, <1>6, <1>7, <1>8 DEF Inv

------------------------------------------------------------------------------
(* The theorems that hold whatever operations occur.                        *)

LEMMA NextInv == Inv /\ [Next]_vars => Inv'
<1> SUFFICES ASSUME Inv, [Next]_vars PROVE Inv'
  OBVIOUS
<1>1. CASE Proceed
  <2>1. CASE FindMostWorkChain BY <2>1, FindMostWorkChainInv
  <2>2. CASE DisconnectTip BY <2>2, DisconnectTipInv
  <2>3. CASE ConnectTip BY <2>3, ConnectTipInv
  <2>4. CASE ConnectTipAndFlush BY <2>4, ConnectTipAndFlushInv
  <2>5. CASE ConnectTipFails BY <2>5, ConnectTipFailsInv
  <2>6. CASE ActivateReturn \/ ReprocessReturn BY <2>6, ReturnInv
  <2>7. CASE InvalidateReturn BY <2>7, InvalidateReturnInv
  <2>8. CASE FlushCoins BY <2>8, FlushCoinsInv
  <2> QED
    BY <1>1, <2>1, <2>2, <2>3, <2>4, <2>5, <2>6, <2>7, <2>8 DEF Proceed
<1>2. CASE Receive
  <2>1. PICK b \in Blocks \ {Genesis} :
           \/ AcceptBlockHeader(b)
           \/ AcceptBlock(b)
           \/ AcceptKnownBlock(b)
           \/ RejectBlock(b)
           \/ ReconsiderCheckpoint(b)
    BY <1>2 DEF Receive
  <2>2. CASE AcceptBlockHeader(b) BY <2>2, AcceptBlockHeaderInv
  <2>3. CASE AcceptBlock(b) BY <2>3, AcceptBlockInv
  <2>4. CASE AcceptKnownBlock(b) BY <2>4, AcceptKnownBlockInv
  <2>5. CASE RejectBlock(b) BY <2>5, RejectBlockInv
  <2>6. CASE ReconsiderCheckpoint(b) BY <2>6, ReconsiderInv
  <2> QED
    BY <2>1, <2>2, <2>3, <2>4, <2>5, <2>6
<1>3. CASE Operate
  <2>1. CASE \E b \in Blocks : RpcReconsiderBlock(b) \/ InvalidateBlock(b)
    BY <2>1, ReconsiderInv, InvalidateBlockInv
  <2>2. CASE \E R \in SUBSET Contested, n \in 1 .. MaxDisconnect : ReprocessBlocks(R, n)
    BY <2>2, ReprocessBlocksInv
  <2>3. CASE \E b \in Blocks : ReconsiderRejected(b)
    BY <2>3, ReconsiderInv
  <2>4. CASE DisconnectBlocksAndReprocess
    BY <2>4, DisconnectBlocksAndReprocessInv
  <2> QED
    BY <1>3, <2>1, <2>2, <2>3, <2>4 DEF Operate
<1>4. CASE FlushStateToDisk
  BY <1>4, FlushStateToDiskInv
<1>5. CASE Restart
  BY <1>5, RestartInv
<1>6. CASE UNCHANGED vars
  BY <1>6 DEF vars, treeVars, diskVars, Inv, TypeOK, JobOK, PhaseOK, IndexOK, LinksOK, DiskOK,
              CandidatesOK, Worse, Failed
<1> QED
  BY <1>1, <1>2, <1>3, <1>4, <1>5, <1>6 DEF Next

\* The invariant holds of every behaviour.
THEOREM SpecInv == Spec => []Inv
BY InitInv, NextInv, PTL DEF Spec

\* The bookkeeping that CheckBlockIndex asserts is exact in every state:
\* nChainTx, setBlockIndexCandidates and mapBlocksUnlinked follow from which
\* blocks have data, in every order of headers, blocks, failures,
\* invalidations, reconsiderations, reprocessing, crashes and restarts.
THEOREM SpecLinksExact == Spec => []LinksExact
<1>1. Inv => LinksExact
  <2> SUFFICES ASSUME Inv PROVE LinksExact
    OBVIOUS
  <2>1. \A b \in index["known"] :
           IF b \in index["data"] \ linked
           THEN b \in unlinked \/ HasInvalidAncestor(b)
           ELSE b \notin unlinked
    BY DEF Inv, LinksOK
  <2> QED
    BY <2>1 DEF Inv, LinksOK, LinksExact
<1> QED
  BY <1>1, SpecInv, PTL

\* setBlockIndexCandidates never holds a block worse than the tip: pruning at
\* every new tip, and the comparisons where blocks are added, are enough.
THEOREM SpecCandidatesGoodEnough == Spec => []CandidatesGoodEnough
<1>1. Inv => CandidatesGoodEnough
  BY DEF Inv, CandidatesOK, CandidatesGoodEnough
<1> QED
  BY <1>1, SpecInv, PTL

\* Wherever the process dies, the order in which FlushStateToDisk,
\* ConnectBlock and DisconnectTip write leaves a block index with all parents
\* and with undo data for the chain of the coin database.
THEOREM SpecDiskConsistent == Spec => []DiskConsistent
<1>1. Inv => DiskConsistent
  <2> SUFFICES ASSUME Inv PROVE DiskConsistent
    OBVIOUS
  <2>1. Ancestors[diskBest] \ {Genesis} \subseteq diskIndex["scripts"]
    <3>1. CASE diskBest = Genesis
      BY <3>1, AncestorsEquation
    <3>2. CASE diskBest # Genesis
      BY <3>2 DEF Inv, DiskOK
    <3> QED
      BY <3>1, <3>2
  <2> QED
    BY <2>1 DEF Inv, DiskOK, DiskConsistent
<1> QED
  BY <1>1, SpecInv, PTL

------------------------------------------------------------------------------
(* No block of the active chain is failed.                                  *)

\* Without invalidateblock, or without a crash: a crash in the middle of
\* InvalidateBlock leaves a chain on disk that contains the invalid block.
InvalidatesOrCrashes == "invalidate" \in Operations /\ MaxRestarts # 0

\* InvalidateBlock has to disconnect the failed blocks before it returns.
Clean ==
    /\ job.op # "invalidate" => Ancestors[tip] \cap Failed(index) = {}
    /\ job.op = "invalidate" =>
          \A d \in Ancestors[tip] \cap Failed(index) : job.target \in Ancestors[d]
    /\ "invalidate" \notin Operations =>
          /\ job.op # "invalidate"
          /\ Ancestors[tip] \cap Failed(diskIndex) = {}
          /\ job.phase = "connect" => coinsTip \notin Failed(diskIndex)

\* The failure flags after each of the operations on the index.
LEMMA FailedAfter ==
    ASSUME NEW idx \in IndexType, NEW old \in IndexType, NEW S \in SUBSET Blocks
    PROVE  /\ Failed(Add(idx, "failedValid", S)) = Failed(idx) \cup S
           /\ Failed(Add(idx, "failedChild", S)) = Failed(idx) \cup S
           /\ Failed(Drop(Drop(idx, "failedValid", S), "failedChild", S)) = Failed(idx) \ S
           /\ Failed(WriteRecords(old, idx, S)) = (Failed(old) \ S) \cup (Failed(idx) \cap S)
<1>1. Failed(Add(idx, "failedValid", S)) = Failed(idx) \cup S
  <2>1. /\ Add(idx, "failedValid", S)["failedValid"] = idx["failedValid"] \cup S
        /\ Add(idx, "failedValid", S)["failedChild"] = idx["failedChild"]
    BY AddFields, FieldNames
  <2> QED
    BY <2>1 DEF Failed
<1>2. Failed(Add(idx, "failedChild", S)) = Failed(idx) \cup S
  <2>1. /\ Add(idx, "failedChild", S)["failedChild"] = idx["failedChild"] \cup S
        /\ Add(idx, "failedChild", S)["failedValid"] = idx["failedValid"]
    BY AddFields, FieldNames
  <2> QED
    BY <2>1 DEF Failed
<1>4. Failed(Drop(Drop(idx, "failedValid", S), "failedChild", S)) = Failed(idx) \ S
  <2> DEFINE one == Drop(idx, "failedValid", S)
  <2>1. one \in IndexType /\ one["failedValid"] = idx["failedValid"] \ S
        /\ one["failedChild"] = idx["failedChild"]
    BY DropFields, FieldNames
  <2> HIDE DEF one
  <2>2. /\ Drop(one, "failedChild", S)["failedChild"] = idx["failedChild"] \ S
        /\ Drop(one, "failedChild", S)["failedValid"] = idx["failedValid"] \ S
    BY <2>1, DropFields, FieldNames
  <2>3. Failed(Drop(one, "failedChild", S)) = Failed(idx) \ S
    BY <2>2 DEF Failed
  <2> QED
    BY <2>3 DEF one
<1>5. Failed(WriteRecords(old, idx, S)) = (Failed(old) \ S) \cup (Failed(idx) \cap S)
  <2>1. /\ WriteRecords(old, idx, S)["failedValid"] = (old["failedValid"] \ S) \cup (idx["failedValid"] \cap S)
        /\ WriteRecords(old, idx, S)["failedChild"] = (old["failedChild"] \ S) \cup (idx["failedChild"] \cap S)
    BY WriteFields, FieldNames
  <2> QED
    BY <2>1 DEF Failed
<1> QED
  BY <1>1, <1>2, <1>4, <1>5

LEMMA FailedAfterAdd ==
    ASSUME NEW idx \in IndexType, NEW f \in Kept, NEW S \in SUBSET Blocks
    PROVE  Failed(Add(idx, f, S)) = Failed(idx) /\ Add(idx, f, S) \in IndexType
<1>1. /\ Add(idx, f, S)["failedChild"] = idx["failedChild"]
      /\ Add(idx, f, S)["failedValid"] = idx["failedValid"]
      /\ Add(idx, f, S) \in IndexType
  BY AddFields, FieldNames
<1> QED
  BY <1>1 DEF Failed

LEMMA IndexTypes ==
    ASSUME Inv
    PROVE  index \in IndexType /\ diskIndex \in IndexType /\ dirty \in SUBSET Blocks
           /\ tip \in Blocks /\ coinsTip \in Blocks /\ linked \subseteq Blocks
           /\ candidates \subseteq linked /\ job \in JobType /\ diskBest \in Blocks
BY DEF Inv, TypeOK, IndexType, JobType, LinksOK

LEMMA InitClean == Init => Clean
<1> SUFFICES ASSUME Init PROVE Clean
  OBVIOUS
<1>1. Failed(index) = {} /\ Failed(diskIndex) = {} /\ job.op = "idle" /\ job.phase = "run"
  BY DEF Init, Failed, Fields, Idle
<1> QED
  BY <1>1 DEF Clean

\* A step that adds no failure to the active chain, and keeps it, the disk and
\* the job.
LEMMA CleanKept ==
    ASSUME Inv, Clean, job = Idle, job' = Idle, UNCHANGED <<tip, diskIndex>>,
           Ancestors[tip] \cap Failed(index') \subseteq Failed(index)
    PROVE  Clean'
<1>1. job.op = "idle" /\ job'.op = "idle" /\ job'.phase = "run"
  BY DEF Idle
<1>2. Ancestors[tip] \cap Failed(index') = {}
  BY <1>1 DEF Clean
<1>3. Failed(index)' = Failed(index') /\ Failed(diskIndex)' = Failed(diskIndex)
  BY DEF Failed
<1> QED
  BY <1>1, <1>2, <1>3 DEF Clean

LEMMA ReceiveClean ==
    ASSUME Inv, Clean, NEW b \in Blocks \ {Genesis},
           AcceptBlockHeader(b) \/ AcceptBlock(b) \/ AcceptKnownBlock(b) \/ RejectBlock(b)
    PROVE  Clean'
<1>1. job = Idle /\ job' = Idle /\ UNCHANGED <<tip, diskIndex>>
  BY DEF AcceptBlockHeader, AcceptBlock, AcceptKnownBlock, RejectBlock, diskVars
<1>2. {b} \in SUBSET Blocks /\ index \in IndexType /\ {"known", "data"} \subseteq Kept
  BY IndexTypes DEF Kept
<1>3. AddToBlockIndex(b) \in IndexType /\ Failed(AddToBlockIndex(b)) = Failed(index)
  BY <1>2, FailedAfterAdd DEF AddToBlockIndex
<1>4. CASE AcceptBlockHeader(b)
  BY <1>1, <1>3, <1>4, CleanKept DEF AcceptBlockHeader
<1>5. CASE AcceptBlock(b)
  <2>1. Failed(index') = Failed(index)
    BY <1>2, <1>3, <1>5, FailedAfterAdd DEF AcceptBlock
  <2> QED
    BY <1>1, <2>1, CleanKept
<1>6. CASE AcceptKnownBlock(b)
  BY <1>1, <1>6, CleanKept DEF AcceptKnownBlock, treeVars
<1>7. CASE RejectBlock(b)
  <2>1. Failed(index') = Failed(index) \cup {b} /\ b \notin index["data"]
    BY <1>2, <1>3, <1>7, FailedAfter DEF RejectBlock
  <2>2. b \notin Ancestors[tip]
    BY <2>1, TipChain
  <2> QED
    BY <1>1, <2>1, <2>2, CleanKept
<1> QED
  BY <1>4, <1>5, <1>6, <1>7

\* What ReconsiderBlock does to the failure flags.
LEMMA ReconsiderFlags ==
    ASSUME Inv, NEW b \in Blocks, ReconsiderBlock(b)
    PROVE  Failed(index') \subseteq Failed(index)
<1> DEFINE cleared == Reconsidered(b) \cup (Ancestors[b] \cap Failed(index))
<1>1. cleared \in SUBSET Blocks
  BY AncestorsSelf DEF Reconsidered, Inv, TypeOK, Fields
<1>2. index' = Drop(Drop(index, "failedValid", cleared), "failedChild", cleared)
  BY DEF ReconsiderBlock
<1> HIDE DEF cleared
<1>3. Failed(index') = Failed(index) \ cleared
  BY <1>1, <1>2, IndexTypes, FailedAfter
<1> QED
  BY <1>3

LEMMA ReconsiderClean ==
    ASSUME Inv, Clean, NEW b \in Blocks,
           \/ RpcReconsiderBlock(b)
           \/ b # Genesis /\ ReconsiderCheckpoint(b)
           \/ ReconsiderRejected(b)
    PROVE  Clean'
<1>1. job = Idle /\ job' = Idle /\ UNCHANGED <<tip, diskIndex>>
  BY DEF RpcReconsiderBlock, ReconsiderCheckpoint, ReconsiderRejected, diskVars
<1>2. Failed(index') \subseteq Failed(index)
  <2>1. b # Genesis => Parent[b] \in Blocks
    BY TreeAssumption
  <2> QED
    BY <2>1, ReconsiderFlags DEF RpcReconsiderBlock, ReconsiderCheckpoint, ReconsiderRejected
<1> QED
  BY <1>1, <1>2, CleanKept

\* A thread enters or leaves a call, or picks a chain.
LEMMA ControlClean ==
    ASSUME Inv, Clean,
           \/ \E b \in Blocks : InvalidateBlock(b)
           \/ InvalidateReturn
           \/ \E R \in SUBSET Contested, n \in 1 .. MaxDisconnect : ReprocessBlocks(R, n)
           \/ DisconnectBlocksAndReprocess
           \/ ReprocessReturn
           \/ ActivateReturn
           \/ FindMostWorkChain
    PROVE  Clean'
<1>1. CASE \E b \in Blocks : InvalidateBlock(b)
  <2>1. PICK b \in Blocks : InvalidateBlock(b)
    BY <1>1
  <2>2. /\ job.op = "idle" /\ job'.op = "invalidate" /\ job'.target = b /\ tip' = tip
        /\ "invalidate" \in Operations /\ index' = Add(index, "failedValid", {b})
    BY <2>1 DEF InvalidateBlock, Idle
  <2>3. Failed(index)' = Failed(index) \cup {b}
    <3>1. {b} \in SUBSET Blocks /\ index \in IndexType
      BY IndexTypes
    <3>2. Failed(index') = Failed(index) \cup {b}
      BY <2>2, <3>1, FailedAfter
    <3> QED
      BY <3>2 DEF Failed
  <2>4. b \in Ancestors[b]
    BY AncestorsSelf
  <2> QED
    BY <2>2, <2>3, <2>4 DEF Clean
<1>2. CASE InvalidateReturn
  <2>1. /\ job.op = "invalidate" /\ job.target \notin Ancestors[tip] /\ job' = Idle
        /\ UNCHANGED <<index, tip, diskIndex>>
    BY <1>2 DEF InvalidateReturn, diskVars
  <2>2. job'.op = "idle" /\ job'.phase = "run"
    BY <2>1 DEF Idle
  <2>3. Ancestors[tip] \cap Failed(index) = {}
    BY <2>1, IndexTypes, AncestorsTransitive DEF Clean
  <2> QED
    BY <2>1, <2>2, <2>3 DEF Clean, Failed
<1>3. CASE \E R \in SUBSET Contested, n \in 1 .. MaxDisconnect : ReprocessBlocks(R, n)
  BY <1>3, CleanKept DEF ReprocessBlocks, treeVars, diskVars
<1>4. CASE DisconnectBlocksAndReprocess
  <2>1. /\ job.op = "idle" /\ job'.op = "reprocess" /\ job'.phase = "run"
        /\ UNCHANGED <<index, tip, diskIndex>>
    BY <1>4 DEF DisconnectBlocksAndReprocess, Idle, treeVars, diskVars
  <2> QED
    BY <2>1 DEF Clean, Failed
<1>5. CASE ReprocessReturn \/ ActivateReturn
  <2>1. /\ job.op \in {"reprocess", "activate"} /\ job'.op = "idle" /\ job'.phase = "run"
        /\ UNCHANGED <<index, tip, diskIndex>>
    BY <1>5 DEF ReprocessReturn, ActivateReturn, Idle, treeVars, diskVars
  <2> QED
    BY <2>1 DEF Clean, Failed
<1>6. CASE FindMostWorkChain
  <2>1. Failed(index)' = Failed(index) \cup Doomed
    <3>1. Failed(index') = Failed(index) \cup Doomed
      BY <1>6, MarkDoomed DEF FindMostWorkChain
    <3> QED
      BY <3>1 DEF Failed
  <2>2. Doomed \cap Ancestors[tip] = {}
    BY DoomedByFailure DEF Inv
  <2>3. job.op = "idle" /\ job'.op # "invalidate" /\ job'.phase = "run" /\ UNCHANGED <<tip, diskIndex>>
    <3>1. CASE MostWork \in {None, tip}
      BY <1>6, <3>1 DEF FindMostWorkChain, Idle, diskVars
    <3>2. CASE MostWork \notin {None, tip}
      <4>1. job' = [Idle EXCEPT !.op = "activate", !.target = MostWork, !.from = tip]
            /\ job = Idle /\ UNCHANGED <<tip, diskIndex>>
        BY <1>6, <3>2 DEF FindMostWorkChain, diskVars
      <4> QED
        BY <4>1 DEF Idle
    <3> QED
      BY <3>1, <3>2
  <2>4. Failed(diskIndex)' = Failed(diskIndex)
    BY <2>3 DEF Failed
  <2> QED
    BY <2>1, <2>2, <2>3, <2>4 DEF Clean
<1> QED
  BY <1>1, <1>2, <1>3, <1>4, <1>5, <1>6

\* Disconnecting, connecting and writing.
LEMMA DisconnectTipClean ==
    ASSUME Inv, Clean, DisconnectTip
    PROVE  Clean'
<1>1. /\ job'.op = job.op /\ job'.target = job.target /\ job'.phase = "disconnect" /\ tip' = tip
      /\ tip \in Blocks
  BY DisconnectJob, IndexTypes DEF DisconnectTip
<1>2. CASE job.op = "invalidate"
  <2>1. /\ index' = Add(index, "failedChild", {tip}) /\ job.target \in Ancestors[tip]
    BY <1>2 DEF DisconnectTip, MustDisconnect
  <2>2. Failed(index)' = Failed(index) \cup {tip}
    <3>1. {tip} \in SUBSET Blocks /\ index \in IndexType
      BY IndexTypes
    <3>2. Failed(index') = Failed(index) \cup {tip}
      BY <2>1, <3>1, FailedAfter
    <3> QED
      BY <3>2 DEF Failed
  <2> QED
    BY <1>1, <1>2, <2>1, <2>2 DEF Clean
<1>3. CASE job.op # "invalidate"
  <2>1. index' = index /\ diskIndex' = WriteRecords(diskIndex, index, dirty)
    BY <1>3 DEF DisconnectTip
  <2>2. Failed(diskIndex') = (Failed(diskIndex) \ dirty) \cup (Failed(index) \cap dirty)
    BY <2>1, IndexTypes, FailedAfter
  <2>3. Failed(diskIndex)' = Failed(diskIndex') /\ Failed(index)' = Failed(index)
    BY <2>1 DEF Failed
  <2> QED
    BY <1>1, <1>3, <2>2, <2>3 DEF Clean
<1> QED
  BY <1>2, <1>3

LEMMA ConnectTipClean ==
    ASSUME Inv, Clean, ConnectTip \/ ConnectTipAndFlush \/ ConnectTipFails
    PROVE  Clean'
<1> DEFINE b == NextToConnect
<1>0. MayConnect
  BY DEF ConnectTip, ConnectTipAndFlush, ConnectTipFails
<1>1. /\ b \in Blocks /\ b \notin Ancestors[tip] /\ Ancestors[b] = {b} \cup Ancestors[tip]
      /\ b \notin Failed(index) /\ job.op = "activate" /\ job.phase = "run" /\ job # Idle
  BY <1>0, NextBlock DEF Idle
<1>2. index \in IndexType /\ diskIndex \in IndexType /\ {b} \in SUBSET Blocks
      /\ dirty \cup {b} \in SUBSET Blocks /\ "scripts" \in Kept
  BY <1>1, IndexTypes DEF Kept
<1>3. Failed(WriteRecords(diskIndex, index, {b})) = Failed(diskIndex) \ {b}
  <2>1. Failed(WriteRecords(diskIndex, index, {b})) = (Failed(diskIndex) \ {b}) \cup (Failed(index) \cap {b})
    BY <1>2, FailedAfter
  <2> QED
    BY <1>1, <2>1
<1>4. Failed(index)' = Failed(index') /\ Failed(diskIndex)' = Failed(diskIndex')
  BY DEF Failed
<1>5. CASE ConnectTip
  <2>1. /\ index' = Add(index, "scripts", {b}) /\ tip' = b /\ job' = job
        /\ diskIndex' = WriteRecords(diskIndex, index, {b})
    BY <1>5 DEF ConnectTip
  <2>2. Failed(index)' = Failed(index) /\ Failed(diskIndex)' = Failed(diskIndex) \ {b}
    BY <1>2, <1>3, <1>4, <2>1, FailedAfterAdd
  <2> HIDE DEF b
  <2> QED
    BY <1>1, <2>1, <2>2 DEF Clean
<1>6. CASE ConnectTipAndFlush
  <2>1. /\ index' = Add(index, "scripts", {b}) /\ tip' = tip /\ coinsTip' = b
        /\ job' = [job EXCEPT !.phase = "connect"]
        /\ diskIndex' = WriteRecords(diskIndex, Add(index, "scripts", {b}), dirty \cup {b})
    BY <1>6 DEF ConnectTipAndFlush
  <2>2. Failed(index') = Failed(index) /\ index' \in IndexType
    BY <1>2, <2>1, FailedAfterAdd
  <2>3. job'.op = "activate"
    BY <1>1, <2>1, IndexTypes DEF JobType
  <2> HIDE DEF b
  <2>4. Failed(diskIndex') = (Failed(diskIndex) \ (dirty \cup {b})) \cup (Failed(index') \cap (dirty \cup {b}))
    BY <1>2, <2>1, <2>2, FailedAfter
  <2> QED
    BY <1>1, <1>4, <2>1, <2>2, <2>3, <2>4 DEF Clean
<1>7. CASE ConnectTipFails
  <2>1. /\ index' = Add(index, "failedValid", {b}) /\ tip' = tip /\ job' = Idle
        /\ diskIndex' \in {diskIndex, WriteRecords(diskIndex, index, {b})}
    BY <1>7 DEF ConnectTipFails, InvalidBlockFound
  <2>2. Failed(index') = Failed(index) \cup {b} /\ Failed(diskIndex') \subseteq Failed(diskIndex)
    BY <1>2, <1>3, <2>1, FailedAfter
  <2>3. job'.op = "idle" /\ job'.phase = "run"
    BY <2>1 DEF Idle
  <2> HIDE DEF b
  <2> QED
    BY <1>1, <1>4, <2>1, <2>2, <2>3 DEF Clean
<1> QED
  BY <1>5, <1>6, <1>7

LEMMA FlushClean ==
    ASSUME Inv, Clean, FlushStateToDisk \/ FlushCoins
    PROVE  Clean'
<1>1. CASE FlushStateToDisk
  <2>1. /\ job = Idle /\ job' = [Idle EXCEPT !.op = "flush", !.phase = "flush"]
        /\ diskIndex' = WriteRecords(diskIndex, index, dirty) /\ UNCHANGED <<tip, index>>
    BY <1>1 DEF FlushStateToDisk
  <2>2. job.op = "idle" /\ job'.op = "flush" /\ job'.phase = "flush"
    BY <2>1 DEF Idle
  <2>3. Failed(diskIndex') = (Failed(diskIndex) \ dirty) \cup (Failed(index) \cap dirty)
    BY <2>1, IndexTypes, FailedAfter
  <2>4. Failed(index)' = Failed(index) /\ Failed(diskIndex)' = Failed(diskIndex')
    BY <2>1 DEF Failed
  <2> QED
    BY <2>1, <2>2, <2>3, <2>4 DEF Clean
<1>2. CASE FlushCoins
  <2>1. /\ tip' = coinsTip /\ UNCHANGED <<index, diskIndex>>
        /\ job.phase \in {"connect", "disconnect", "flush"}
        /\ job' = (IF job.op = "flush" THEN Idle ELSE [job EXCEPT !.phase = "run"])
    BY <1>2 DEF FlushCoins
  <2>2. job'.phase = "run" /\ (job.op = "invalidate" <=> job'.op = "invalidate")
        /\ (job.op = "invalidate" => job'.target = job.target)
    <3>1. CASE job.op = "flush"
      BY <2>1, <3>1 DEF Idle
    <3>2. CASE job.op # "flush"
      BY <2>1, <3>2, IndexTypes DEF JobType
    <3> QED
      BY <3>1, <3>2
  <2>3. Failed(index)' = Failed(index) /\ Failed(diskIndex)' = Failed(diskIndex)
    BY <2>1 DEF Failed
  <2>4. CASE job.phase = "connect"
    <3>1. coinsTip \in Blocks \ {Genesis} /\ tip = Parent[coinsTip] /\ job.op = "activate"
      BY <2>4, IndexTypes DEF Inv, PhaseOK, JobOK, JobType, Idle
    <3>2. Ancestors[coinsTip] = {coinsTip} \cup Ancestors[tip] /\ coinsTip \notin Ancestors[tip]
      BY <3>1, AncestorsOfChild
    <3>3. coinsTip \notin Failed(index)
      BY <2>4, <3>1, <3>2 DEF Inv, JobOK
    <3> QED
      BY <2>1, <2>2, <2>3, <2>4, <3>1, <3>2, <3>3 DEF Clean
  <2>5. CASE job.phase # "connect"
    <3>1. Ancestors[coinsTip] \subseteq Ancestors[tip]
      <4>1. CASE job.phase = "disconnect"
        BY <4>1, IndexTypes, AncestorsOfChild DEF Inv, PhaseOK
      <4>2. CASE job.phase = "flush"
        BY <4>2 DEF Inv, PhaseOK
      <4> QED
        BY <2>1, <2>5, <4>1, <4>2
    <3> QED
      BY <2>1, <2>2, <2>3, <3>1 DEF Clean
  <2> QED
    BY <2>4, <2>5
<1> QED
  BY <1>1, <1>2

LEMMA RestartClean ==
    ASSUME ~ InvalidatesOrCrashes, Inv, Clean, Restart
    PROVE  Clean'
<1>1. "invalidate" \notin Operations
  BY DEF InvalidatesOrCrashes, Restart, Inv, TypeOK
<1>2. index' = diskIndex /\ diskIndex' = diskIndex /\ tip' = diskBest /\ job' = Idle
  BY DEF Restart, diskVars
<1>3. job'.op = "idle" /\ job'.phase = "run"
  BY <1>2 DEF Idle
<1>4. Ancestors[diskBest] \cap Failed(diskIndex) = {}
  BY <1>1, IndexTypes, AncestorsTransitive DEF Clean, Inv, DiskOK
<1>5. Failed(index)' = Failed(diskIndex) /\ Failed(diskIndex)' = Failed(diskIndex)
  BY <1>2 DEF Failed
<1> QED
  BY <1>2, <1>3, <1>4, <1>5 DEF Clean

LEMMA NextClean ==
    ASSUME ~ InvalidatesOrCrashes, Inv, Clean, [Next]_vars
    PROVE  Clean'
<1>1. CASE Proceed
  BY <1>1, ControlClean, DisconnectTipClean, ConnectTipClean, FlushClean DEF Proceed
<1>2. CASE Receive
  BY <1>2, ReceiveClean, ReconsiderClean DEF Receive
<1>3. CASE Operate
  BY <1>3, ControlClean, ReconsiderClean DEF Operate
<1>4. CASE FlushStateToDisk
  BY <1>4, FlushClean
<1>5. CASE Restart
  BY <1>5, RestartClean
<1>6. CASE UNCHANGED vars
  BY <1>6 DEF vars, treeVars, diskVars, Clean, Failed
<1> QED
  BY <1>1, <1>2, <1>3, <1>4, <1>5, <1>6 DEF Next

LEMMA SpecClean ==
    ASSUME ~ InvalidatesOrCrashes
    PROVE  Spec => []Clean
<1>1. Inv /\ Clean /\ [Next]_vars => Clean'
  BY NextClean
<1> QED
  BY <1>1, InitClean, SpecInv, PTL DEF Spec

\* The active chain consists of blocks whose scripts were checked and, while
\* cs_main is free, of blocks that are not failed.  The flags of the failed
\* blocks are cleared, set and written independently of the chain, so this
\* needs that DisconnectTip always flushes, and that a goal's branch has no
\* failed block when it is picked.
THEOREM SpecActiveChainChecked ==
    ASSUME ~ InvalidatesOrCrashes
    PROVE  Spec => []ActiveChainChecked
<1>1. Inv /\ Clean => ActiveChainChecked
  <2> SUFFICES ASSUME Inv, Clean PROVE ActiveChainChecked
    OBVIOUS
  <2>1. \A b \in index["scripts"] \cup {tip} : Ancestors[b] \ {Genesis} \subseteq index["scripts"]
    BY TipChain DEF Inv, IndexOK
  <2>2. Quiet => Ancestors[tip] \cap Failed(index) = {}
    BY DEF Clean, Quiet, Idle
  <2> QED
    BY <2>1, <2>2 DEF ActiveChainChecked
<1> QED
  BY <1>1, SpecInv, SpecClean, PTL

\* Without invalidateblock, wherever the process dies, LoadBlockIndexDB finds
\* the tip of the coin database linked and valid, so the assert in
\* PruneBlockIndexCandidates lets it start.
THEOREM SpecRestartPossible ==
    ASSUME "invalidate" \notin Operations
    PROVE  Spec => []RestartPossible
<1>1. ~ InvalidatesOrCrashes
  BY DEF InvalidatesOrCrashes
<1>2. Inv /\ Clean => RestartPossible
  <2> SUFFICES ASSUME Inv, Clean, NEW ad \in AddressOrders PROVE LoadedCandidates(ad) # {}
    BY DEF RestartPossible
  <2>1. Ancestors[diskBest] \subseteq diskIndex["data"]
    <3>1. CASE diskBest = Genesis
      BY <3>1, AncestorsEquation DEF Inv, DiskOK
    <3>2. CASE diskBest # Genesis
      BY <3>2 DEF Inv, DiskOK
    <3> QED
      BY <3>1, <3>2
  <2>2. diskBest \in diskIndex["data"] /\ diskBest \in Blocks
    BY <2>1, IndexTypes, AncestorsSelf
  <2>3. diskBest \notin Failed(diskIndex)
    BY <2>2 DEF Clean, Inv, DiskOK
  <2>4. ~ WorseIn([d \in Blocks |-> 0], ad, diskBest, diskBest)
    <3>1. [d \in Blocks |-> 0] \in [Blocks -> Nat] /\ ad \in [Blocks -> Nat]
      BY VerdictAssumption
    <3> QED
      BY <2>2, <3>1, WorseIsStrict
  <2>5. diskBest \in LoadedCandidates(ad)
    BY <2>1, <2>2, <2>3, <2>4 DEF LoadedCandidates, LoadedLinked, IsValid
  <2> QED
    BY <2>5
<1> QED
  BY <1>1, <1>2, SpecInv, SpecClean, PTL

------------------------------------------------------------------------------
(* Every failure has a cause.                                               *)

\* Nothing clears failure flags: no reconsiderblock, no ReprocessBlocks, no
\* checkpoint at a failed block.
NeverReconsiders == Operations \subseteq {"invalidate"} /\ Checkpointed = {}

HasCauses(idx) == \A b \in Failed(idx) : Ancestors[b] \cap idx["failedValid"] # {}

\* In memory and on disk every failed block has an invalid one before it, and
\* an invalid block that is not on disk as such is dirty.
Cause ==
    /\ reprocessing = NotReprocessing
    /\ job.op # "reprocess"
    /\ HasCauses(index)
    /\ HasCauses(diskIndex)
    /\ diskIndex["failedValid"] \subseteq index["failedValid"]
    /\ index["failedValid"] \ dirty \subseteq diskIndex["failedValid"]

LEMMA CausesAdded ==
    ASSUME NEW idx \in IndexType, HasCauses(idx), NEW S \in SUBSET Blocks
    PROVE  /\ HasCauses(Add(idx, "failedValid", S))
           /\ (\A d \in S : Ancestors[d] \cap idx["failedValid"] # {})
                 => HasCauses(Add(idx, "failedChild", S))
<1>2. HasCauses(Add(idx, "failedValid", S))
  <2>1. Failed(Add(idx, "failedValid", S)) = Failed(idx) \cup S
    BY FailedAfter
  <2>2. Add(idx, "failedValid", S)["failedValid"] = idx["failedValid"] \cup S
    BY AddFields, FieldNames
  <2>3. \A d \in S : d \in Ancestors[d]
    BY AncestorsSelf
  <2> QED
    BY <2>1, <2>2, <2>3 DEF HasCauses
<1>3. ASSUME \A d \in S : Ancestors[d] \cap idx["failedValid"] # {}
      PROVE  HasCauses(Add(idx, "failedChild", S))
  <2>1. Failed(Add(idx, "failedChild", S)) = Failed(idx) \cup S
    BY FailedAfter
  <2>2. Add(idx, "failedChild", S)["failedValid"] = idx["failedValid"]
    BY AddFields, FieldNames
  <2> QED
    BY <1>3, <2>1, <2>2 DEF HasCauses
<1> QED
  BY <1>2, <1>3

LEMMA CausesAfterAdd ==
    ASSUME NEW idx \in IndexType, HasCauses(idx), NEW f \in Kept, NEW S \in SUBSET Blocks
    PROVE  /\ HasCauses(Add(idx, f, S)) /\ Add(idx, f, S) \in IndexType
           /\ Add(idx, f, S)["failedValid"] = idx["failedValid"]
<1>1. Failed(Add(idx, f, S)) = Failed(idx)
  BY FailedAfterAdd
<1>2. Add(idx, f, S)["failedValid"] = idx["failedValid"] /\ Add(idx, f, S) \in IndexType
  BY AddFields, FieldNames
<1> QED
  BY <1>1, <1>2 DEF HasCauses

LEMMA CausesWritten ==
    ASSUME NEW old \in IndexType, NEW idx \in IndexType, NEW S \in SUBSET Blocks,
           HasCauses(old), HasCauses(idx), old["failedValid"] \subseteq idx["failedValid"],
           idx["failedValid"] \ S \subseteq old["failedValid"]
    PROVE  /\ HasCauses(WriteRecords(old, idx, S))
           /\ WriteRecords(old, idx, S)["failedValid"] = idx["failedValid"]
<1>1. WriteRecords(old, idx, S)["failedValid"] = idx["failedValid"]
  <2>1. WriteRecords(old, idx, S)["failedValid"] = (old["failedValid"] \ S) \cup (idx["failedValid"] \cap S)
    BY WriteFields, FieldNames
  <2> QED
    BY <2>1
<1>2. Failed(WriteRecords(old, idx, S)) = (Failed(old) \ S) \cup (Failed(idx) \cap S)
  BY FailedAfter
<1> QED
  BY <1>1, <1>2 DEF HasCauses

LEMMA InitCause == Init => Cause
<1> SUFFICES ASSUME Init PROVE Cause
  OBVIOUS
<1>1. Failed(index) = {} /\ Failed(diskIndex) = {} /\ index["failedValid"] = {}
      /\ diskIndex["failedValid"] = {} /\ job.op = "idle"
  BY DEF Init, Failed, Fields, Idle
<1> QED
  BY <1>1 DEF Cause, HasCauses, Init

\* A step that keeps the disk, and marks what it newly makes invalid as dirty.
LEMMA CauseKept ==
    ASSUME Cause, HasCauses(index'), UNCHANGED <<diskIndex, reprocessing>>,
           job'.op # "reprocess", index["failedValid"] \subseteq index'["failedValid"],
           dirty \subseteq dirty', index'["failedValid"] \ index["failedValid"] \subseteq dirty'
    PROVE  Cause'
<1>1. HasCauses(index)' /\ HasCauses(diskIndex)'
  BY DEF Cause, HasCauses, Failed
<1> QED
  BY <1>1 DEF Cause

LEMMA ReceiveCause ==
    ASSUME Inv, Cause, NEW b \in Blocks \ {Genesis},
           AcceptBlockHeader(b) \/ AcceptBlock(b) \/ AcceptKnownBlock(b) \/ RejectBlock(b)
    PROVE  Cause'
<1>1. job = Idle /\ job' = Idle /\ UNCHANGED <<diskIndex, reprocessing>>
  BY DEF AcceptBlockHeader, AcceptBlock, AcceptKnownBlock, RejectBlock, diskVars
<1>2. {b} \in SUBSET Blocks /\ index \in IndexType /\ job'.op # "reprocess"
      /\ "known" \in Kept /\ "data" \in Kept /\ HasCauses(index)
  BY <1>1, IndexTypes DEF Idle, Kept, Cause
<1> DEFINE idx == AddToBlockIndex(b)
<1>3. idx \in IndexType /\ HasCauses(idx) /\ idx["failedValid"] = index["failedValid"]
  BY <1>2, CausesAfterAdd DEF AddToBlockIndex
<1> HIDE DEF idx
<1>4. CASE AcceptBlockHeader(b)
  <2>1. index' = idx /\ dirty \subseteq dirty'
    BY <1>4 DEF AcceptBlockHeader, idx
  <2> QED
    BY <1>1, <1>2, <1>3, <2>1, CauseKept
<1>5. CASE AcceptBlock(b)
  <2>1. index' = Add(idx, "data", {b}) /\ dirty \subseteq dirty'
    BY <1>5 DEF AcceptBlock, idx
  <2>2. HasCauses(index') /\ index'["failedValid"] = index["failedValid"]
    BY <1>2, <1>3, <2>1, CausesAfterAdd
  <2> QED
    BY <1>1, <1>2, <2>1, <2>2, CauseKept
<1>6. CASE AcceptKnownBlock(b)
  BY <1>1, <1>2, <1>6, CauseKept DEF AcceptKnownBlock, treeVars
<1>7. CASE RejectBlock(b)
  <2>1. index' = Add(idx, "failedValid", {b}) /\ dirty' = dirty \cup {b}
    BY <1>7 DEF RejectBlock, idx
  <2>2. HasCauses(index') /\ index'["failedValid"] = index["failedValid"] \cup {b}
    BY <1>2, <1>3, <2>1, CausesAdded, AddFields, FieldNames
  <2> QED
    BY <1>1, <1>2, <2>1, <2>2, CauseKept
<1> QED
  BY <1>4, <1>5, <1>6, <1>7

LEMMA ControlCause ==
    ASSUME Inv, Cause,
           \/ \E b \in Blocks : InvalidateBlock(b)
           \/ InvalidateReturn
           \/ ActivateReturn
           \/ FindMostWorkChain
    PROVE  Cause'
<1>0. index \in IndexType /\ HasCauses(index)
  BY IndexTypes DEF Cause
<1>1. CASE \E b \in Blocks : InvalidateBlock(b)
  <2>1. PICK b \in Blocks : InvalidateBlock(b)
    BY <1>1
  <2>2. /\ job'.op = "invalidate" /\ index' = Add(index, "failedValid", {b})
        /\ dirty' = dirty \cup {b} /\ UNCHANGED <<diskIndex, reprocessing>>
    BY <2>1 DEF InvalidateBlock, Idle, diskVars
  <2>3. HasCauses(index') /\ index'["failedValid"] = index["failedValid"] \cup {b}
    <3>1. {b} \in SUBSET Blocks
      OBVIOUS
    <3> QED
      BY <1>0, <2>2, <3>1, CausesAdded, AddFields, FieldNames
  <2> QED
    BY <2>2, <2>3, CauseKept
<1>2. CASE InvalidateReturn \/ ActivateReturn
  <2>1. /\ job' = Idle /\ UNCHANGED <<index, dirty, diskIndex, reprocessing>>
    BY <1>2 DEF InvalidateReturn, ActivateReturn, diskVars, treeVars
  <2>2. job'.op # "reprocess"
    BY <2>1 DEF Idle
  <2> QED
    BY <1>0, <2>1, <2>2, CauseKept
<1>3. CASE FindMostWorkChain
  <2>1. /\ index' = Add(index, "failedChild", Doomed \ Failed(index))
        /\ UNCHANGED <<dirty, diskIndex, reprocessing>>
    BY <1>3 DEF FindMostWorkChain, diskVars
  <2>2. index'["failedValid"] = index["failedValid"]
    BY <2>1, MarkDoomed
  <2>3. Doomed \ Failed(index) \in SUBSET Blocks
    BY DoomedByFailure DEF Inv
  <2>4. ASSUME NEW d \in Doomed PROVE Ancestors[d] \cap index["failedValid"] # {}
    <3>1. PICK f \in Failed(index) : f \in Ancestors[d]
      BY DoomedByFailure DEF Inv
    <3>2. d \in Blocks
      BY DoomedByFailure DEF Inv
    <3>3. Ancestors[f] \subseteq Ancestors[d]
      BY <3>1, <3>2, AncestorsTransitive
    <3> QED
      BY <1>0, <3>1, <3>3 DEF HasCauses
  <2>5. HasCauses(index')
    BY <1>0, <2>1, <2>3, <2>4, CausesAdded
  <2>6. job'.op # "reprocess"
    <3>1. CASE MostWork \in {None, tip}
      BY <1>3, <3>1 DEF FindMostWorkChain, Idle
    <3>2. CASE MostWork \notin {None, tip}
      <4>1. job' = [Idle EXCEPT !.op = "activate", !.target = MostWork, !.from = tip]
        BY <1>3, <3>2 DEF FindMostWorkChain
      <4> QED
        BY <4>1 DEF Idle
    <3> QED
      BY <3>1, <3>2
  <2> QED
    BY <2>1, <2>2, <2>5, <2>6, CauseKept
<1> QED
  BY <1>1, <1>2, <1>3

\* A full write of the block index, after index has perhaps changed.
LEMMA CauseWritten ==
    ASSUME Inv, Cause, NEW S \in SUBSET Blocks, index' \in IndexType, HasCauses(index'),
           diskIndex' = WriteRecords(diskIndex, index', S), dirty' = {}, dirty \subseteq S,
           index'["failedValid"] = index["failedValid"], reprocessing' = reprocessing,
           job'.op # "reprocess"
    PROVE  Cause'
<1> DEFINE idx == index'
<1>1. /\ diskIndex \in IndexType /\ HasCauses(diskIndex) /\ idx \in IndexType /\ HasCauses(idx)
      /\ diskIndex["failedValid"] \subseteq idx["failedValid"]
      /\ idx["failedValid"] \ S \subseteq diskIndex["failedValid"]
  BY IndexTypes DEF Cause
<1> HIDE DEF idx
<1>2. /\ HasCauses(WriteRecords(diskIndex, idx, S))
      /\ WriteRecords(diskIndex, idx, S)["failedValid"] = idx["failedValid"]
  BY <1>1, CausesWritten
<1>3. HasCauses(diskIndex') /\ diskIndex'["failedValid"] = index'["failedValid"]
  BY <1>2 DEF idx
<1>4. HasCauses(index)' /\ HasCauses(diskIndex)'
  BY <1>3 DEF HasCauses, Failed
<1> QED
  BY <1>3, <1>4 DEF Cause

LEMMA DisconnectTipCause ==
    ASSUME Inv, Cause, DisconnectTip
    PROVE  Cause'
<1>1. job'.op # "reprocess" /\ dirty' = {} /\ reprocessing' = reprocessing
  BY DisconnectJob DEF Cause, DisconnectTip
<1>2. index \in IndexType /\ HasCauses(index) /\ dirty \in SUBSET Blocks /\ tip \in Blocks
  BY IndexTypes DEF Cause
<1>3. CASE job.op = "invalidate"
  <2>1. /\ index' = Add(index, "failedChild", {tip}) /\ job.target \in Ancestors[tip]
        /\ diskIndex' = WriteRecords(diskIndex, index', dirty \cup {tip})
    BY <1>3 DEF DisconnectTip, MustDisconnect
  <2>2. job.target \in index["failedValid"]
    BY <1>3 DEF Inv, JobOK
  <2>3. {tip} \in SUBSET Blocks /\ \A d \in {tip} : Ancestors[d] \cap index["failedValid"] # {}
    BY <1>2, <2>1, <2>2
  <2>4. HasCauses(index')
    BY <1>2, <2>1, <2>3, CausesAdded
  <2>5. index' \in IndexType /\ index'["failedValid"] = index["failedValid"]
    BY <1>2, <2>1, <2>3, AddFields, FieldNames
  <2>6. dirty \cup {tip} \in SUBSET Blocks
    BY <1>2
  <2> QED
    BY <1>1, <2>1, <2>4, <2>5, <2>6, CauseWritten
<1>4. CASE job.op # "invalidate"
  <2>1. index' = index /\ diskIndex' = WriteRecords(diskIndex, index', dirty)
    BY <1>4 DEF DisconnectTip
  <2> QED
    BY <1>1, <1>2, <2>1, CauseWritten
<1> QED
  BY <1>3, <1>4

LEMMA ConnectTipCause ==
    ASSUME Inv, Cause, ConnectTip \/ ConnectTipAndFlush \/ ConnectTipFails
    PROVE  Cause'
<1> DEFINE b == NextToConnect
<1>0. MayConnect
  BY DEF ConnectTip, ConnectTipAndFlush, ConnectTipFails
<1>1. b \in Blocks /\ b \notin Failed(index) /\ job.op = "activate"
  BY <1>0, NextBlock
<1>2. index \in IndexType /\ HasCauses(index) /\ {b} \in SUBSET Blocks /\ HasCauses(diskIndex)
      /\ dirty \cup {b} \in SUBSET Blocks /\ "scripts" \in Kept /\ diskIndex \in IndexType
  BY <1>1, IndexTypes DEF Kept, Cause
<1>3. /\ HasCauses(WriteRecords(diskIndex, index, {b}))
      /\ WriteRecords(diskIndex, index, {b})["failedValid"] = diskIndex["failedValid"]
  <2>1. Failed(WriteRecords(diskIndex, index, {b})) = (Failed(diskIndex) \ {b}) \cup (Failed(index) \cap {b})
    BY <1>2, FailedAfter
  <2>2. WriteRecords(diskIndex, index, {b})["failedValid"] = diskIndex["failedValid"]
    <3>1. WriteRecords(diskIndex, index, {b})["failedValid"]
             = (diskIndex["failedValid"] \ {b}) \cup (index["failedValid"] \cap {b})
      BY <1>2, WriteFields, FieldNames
    <3>2. b \notin index["failedValid"] /\ b \notin diskIndex["failedValid"]
      BY <1>1 DEF Failed, Cause
    <3> QED
      BY <3>1, <3>2
  <2> HIDE DEF b
  <2> QED
    BY <1>1, <1>2, <2>1, <2>2 DEF HasCauses
<1>4. HasCauses(Add(index, "scripts", {b})) /\ Add(index, "scripts", {b})["failedValid"] = index["failedValid"]
      /\ Add(index, "scripts", {b}) \in IndexType
  BY <1>2, CausesAfterAdd
<1> HIDE DEF b
<1>5. CASE ConnectTip
  <2>1. /\ index' = Add(index, "scripts", {b}) /\ job' = job /\ dirty \subseteq dirty'
        /\ diskIndex' = WriteRecords(diskIndex, index, {b}) /\ reprocessing' = reprocessing
    BY <1>5 DEF ConnectTip, b
  <2>2. HasCauses(index)' /\ HasCauses(diskIndex)'
    BY <1>3, <1>4, <2>1 DEF HasCauses, Failed
  <2> QED
    BY <1>1, <1>3, <1>4, <2>1, <2>2 DEF Cause
<1>6. CASE ConnectTipAndFlush
  <2>1. /\ index' = Add(index, "scripts", {b}) /\ dirty' = {} /\ reprocessing' = reprocessing
        /\ job' = [job EXCEPT !.phase = "connect"]
        /\ diskIndex' = WriteRecords(diskIndex, index', dirty \cup {b})
    BY <1>6 DEF ConnectTipAndFlush, b
  <2>2. job'.op # "reprocess"
    BY <1>1, <2>1, IndexTypes DEF JobType
  <2> QED
    BY <1>2, <1>4, <2>1, <2>2, CauseWritten
<1>7. CASE ConnectTipFails
  <2>1. /\ index' = Add(index, "failedValid", {b}) /\ dirty' = dirty \cup {b} /\ job' = Idle
        /\ diskIndex' \in {diskIndex, WriteRecords(diskIndex, index, {b})}
        /\ reprocessing' = reprocessing
    BY <1>7 DEF ConnectTipFails, InvalidBlockFound, b
  <2>2. HasCauses(index') /\ index'["failedValid"] = index["failedValid"] \cup {b}
    BY <1>2, <2>1, CausesAdded, AddFields, FieldNames
  <2>3. HasCauses(diskIndex') /\ diskIndex'["failedValid"] = diskIndex["failedValid"]
    BY <1>2, <1>3, <2>1
  <2>4. HasCauses(index)' /\ HasCauses(diskIndex)' /\ job'.op # "reprocess"
    BY <2>1, <2>2, <2>3 DEF HasCauses, Failed, Idle
  <2> QED
    BY <2>1, <2>2, <2>3, <2>4 DEF Cause
<1> QED
  BY <1>5, <1>6, <1>7

LEMMA FlushCause ==
    ASSUME Inv, Cause, FlushStateToDisk \/ FlushCoins \/ Restart
    PROVE  Cause'
<1>0. index \in IndexType /\ HasCauses(index) /\ dirty \in SUBSET Blocks /\ job \in JobType
  BY IndexTypes DEF Cause
<1>1. CASE FlushStateToDisk
  <2>1. /\ job' = [Idle EXCEPT !.op = "flush", !.phase = "flush"] /\ index' = index
        /\ diskIndex' = WriteRecords(diskIndex, index', dirty) /\ dirty' = {}
        /\ reprocessing' = reprocessing
    BY <1>1 DEF FlushStateToDisk
  <2>2. job'.op # "reprocess"
    BY <2>1 DEF Idle
  <2> QED
    BY <1>0, <2>1, <2>2, CauseWritten
<1>2. CASE FlushCoins
  <2>1. /\ UNCHANGED <<index, dirty, diskIndex, reprocessing>>
        /\ job' = (IF job.op = "flush" THEN Idle ELSE [job EXCEPT !.phase = "run"])
    BY <1>2 DEF FlushCoins
  <2>2. job'.op # "reprocess"
    BY <1>0, <2>1 DEF Idle, JobType, Cause
  <2> QED
    BY <1>0, <2>1, <2>2, CauseKept
<1>3. CASE Restart
  <2>1. /\ index' = diskIndex /\ diskIndex' = diskIndex /\ job' = Idle
        /\ reprocessing' = NotReprocessing
    BY <1>3 DEF Restart, diskVars
  <2>2. HasCauses(index)' /\ HasCauses(diskIndex)' /\ job'.op # "reprocess"
    BY <2>1 DEF Cause, HasCauses, Failed, Idle
  <2> QED
    BY <2>1, <2>2 DEF Cause
<1> QED
  BY <1>1, <1>2, <1>3

LEMMA NextCause ==
    ASSUME NeverReconsiders, Inv, Cause, [Next]_vars
    PROVE  Cause'
<1>1. CASE Proceed
  <2>1. ~ ReprocessReturn
    BY DEF ReprocessReturn, Cause
  <2> QED
    BY <1>1, <2>1, ControlCause, DisconnectTipCause, ConnectTipCause, FlushCause DEF Proceed
<1>2. CASE Receive
  <2>1. \A b \in Blocks : ~ ReconsiderCheckpoint(b)
    BY DEF ReconsiderCheckpoint, NeverReconsiders
  <2> QED
    BY <1>2, <2>1, ReceiveCause DEF Receive
<1>3. CASE Operate
  <2>1. /\ \A b \in Blocks : ~ RpcReconsiderBlock(b) /\ ~ ReconsiderRejected(b)
        /\ ~ DisconnectBlocksAndReprocess
    BY DEF RpcReconsiderBlock, ReconsiderRejected, DisconnectBlocksAndReprocess,
           NeverReconsiders, Cause, NotReprocessing
  <2>2. \A R \in SUBSET Contested, n \in 1 .. MaxDisconnect : ~ ReprocessBlocks(R, n)
    BY DEF ReprocessBlocks, NeverReconsiders
  <2> QED
    BY <1>3, <2>1, <2>2, ControlCause DEF Operate
<1>4. CASE FlushStateToDisk \/ Restart
  BY <1>4, FlushCause
<1>5. CASE UNCHANGED vars
  BY <1>5 DEF vars, treeVars, diskVars, Cause, HasCauses, Failed
<1> QED
  BY <1>1, <1>2, <1>3, <1>4, <1>5 DEF Next

LEMMA SpecCause ==
    ASSUME NeverReconsiders
    PROVE  Spec => []Cause
<1>1. Inv /\ Cause /\ [Next]_vars => Cause'
  BY NextCause
<1> QED
  BY <1>1, InitCause, SpecInv, PTL DEF Spec

\* As long as nothing clears failure flags, every block that FindMostWorkChain
\* or InvalidateBlock marks as the child of a failed one has an invalid
\* ancestor, crashes between the writes of their records included.
THEOREM SpecFailuresHaveCause ==
    ASSUME NeverReconsiders
    PROVE  Spec => []FailuresHaveCause
<1>1. Cause => FailuresHaveCause
  BY DEF Cause, HasCauses, FailuresHaveCause, HasInvalidAncestor
<1> QED
  BY <1>1, SpecCause, PTL

------------------------------------------------------------------------------
(* The best chain is the active one.                                        *)

Valid(b) == Ancestors[b] \cap Failed(index) = {}

\* No valid candidate is better than t.
Settled(t) == \A c \in candidates : Valid(c) => ~ Worse(t, c)

\* w has been connected before, can be connected again, and every valid block as
\* good as w is a candidate.  During a reorganisation the tip may fall below w
\* and candidates between the two are missing: w is what the node can return to.
Witness(w) ==
    /\ w \in candidates
    /\ w \in index["scripts"] \cup {Genesis}
    /\ Valid(w)
    /\ \A b \in linked : Valid(b) /\ ~ Worse(b, w) => b \in candidates

Best ==
    /\ job.op # "invalidate" => \E w \in Blocks : Witness(w)
    /\ job.op = "activate" => pending /\ Settled(job.target)
    /\ job.op \in {"idle", "flush"} /\ ~ pending => Settled(tip)

LEMMA InitBest == Init => Best
<1> SUFFICES ASSUME Init PROVE Best
  OBVIOUS
<1>1. Failed(index) = {} /\ job.op = "idle"
  BY DEF Init, Failed, Fields, Idle
<1>2. candidates = {Genesis} /\ linked = {Genesis} /\ tip = Genesis /\ Genesis \in Blocks
  BY TreeAssumption DEF Init
<1>3. ~ Worse(Genesis, Genesis)
  BY <1>2, InitInv DEF Inv, CandidatesOK
<1>4. Witness(Genesis)
  BY <1>1, <1>2 DEF Witness, Valid
<1>5. Settled(tip)
  BY <1>2, <1>3 DEF Settled
<1> QED
  BY <1>1, <1>2, <1>4, <1>5 DEF Best

\* A witness stays one when failures are added that are not its own and only
\* blocks that are not valid any more leave the candidates.
LEMMA WitnessKept ==
    ASSUME NEW w, Witness(w), UNCHANGED <<seq, addr, linked>>,
           candidates' \subseteq candidates, Failed(index) \subseteq Failed(index'),
           Ancestors[w] \cap Failed(index') = {}, index["scripts"] \subseteq index'["scripts"],
           \A c \in candidates \ candidates' : c \in Failed(index') /\ c \in Ancestors[c]
    PROVE  Witness(w)'
<1>1. Failed(index)' = Failed(index')
  BY DEF Failed
<1>2. w \in candidates' /\ w \in index'["scripts"] \cup {Genesis} /\ Valid(w)'
  BY <1>1 DEF Witness, Valid
<1>3. ASSUME NEW b \in linked', Valid(b)', ~ Worse(b, w)' PROVE b \in candidates'
  <2>1. Valid(b) /\ b \in linked
    BY <1>1, <1>3 DEF Valid
  <2>2. ~ Worse(b, w)
    BY <1>3 DEF Worse
  <2>3. b \in candidates
    BY <2>1, <2>2 DEF Witness
  <2> QED
    BY <1>1, <1>3, <2>3 DEF Valid
<1> QED
  BY <1>2, <1>3 DEF Witness

LEMMA SettledKept ==
    ASSUME NEW t, Settled(t), UNCHANGED <<seq, addr>>,
           candidates' \subseteq candidates, Failed(index) \subseteq Failed(index')
    PROVE  \A c \in candidates' : Ancestors[c] \cap Failed(index') = {} => ~ Worse(t, c)'
<1>1. Failed(index)' = Failed(index')
  BY DEF Failed
<1> QED
  BY <1>1 DEF Settled, Valid, Worse

\* A step in which nothing is connected and no candidate is added.
LEMMA BestKept ==
    ASSUME Best, UNCHANGED <<seq, addr, linked, tip>>, job.op # "invalidate",
           candidates' \subseteq candidates, Failed(index) \subseteq Failed(index'),
           index["scripts"] \subseteq index'["scripts"],
           \A w \in Blocks : Witness(w) => Ancestors[w] \cap Failed(index') = {},
           \A c \in candidates \ candidates' : c \in Failed(index') /\ c \in Ancestors[c],
           (job'.op = job.op /\ job'.target = job.target)
              \/ {job.op, job'.op} \subseteq {"idle", "flush"},
           pending' = pending
    PROVE  Best'
<1>1. Failed(index)' = Failed(index')
  BY DEF Failed
<1>2. \E w \in Blocks : Witness(w)'
  BY WitnessKept DEF Best
<1>3. job'.op = "activate" => pending' /\ Settled(job.target)'
  <2> SUFFICES ASSUME job'.op = "activate" PROVE pending' /\ Settled(job.target)'
    OBVIOUS
  <2>1. job.op = "activate" /\ job'.target = job.target
    OBVIOUS
  <2>2. pending /\ Settled(job.target)
    BY <2>1 DEF Best
  <2>3. \A c \in candidates' : Ancestors[c] \cap Failed(index') = {} => ~ Worse(job.target, c)'
    BY <2>2, SettledKept DEF Worse, WorseIn
  <2> QED
    BY <1>1, <2>1, <2>2, <2>3 DEF Settled, Valid, Worse
<1>4. job'.op \in {"idle", "flush"} /\ ~ pending' => Settled(tip)'
  <2> SUFFICES ASSUME job'.op \in {"idle", "flush"}, ~ pending' PROVE Settled(tip)'
    OBVIOUS
  <2>1. Settled(tip)
    BY DEF Best
  <2> QED
    BY <1>1, <2>1 DEF Settled, Valid, Worse
<1> QED
  BY <1>2, <1>3, <1>4 DEF Best

\* A witness has data for its whole chain, and only blocks that may be connected.
LEMMA WitnessChain ==
    ASSUME Inv, NEW w \in Blocks, Witness(w)
    PROVE  /\ w \in linked /\ Ancestors[w] \subseteq index["data"]
           /\ Ancestors[w] \cap Invalid \subseteq {Genesis}
<1>1. w \in linked /\ Ancestors[w] \subseteq index["data"]
  BY DEF Witness, Inv, LinksOK
<1>2. Ancestors[w] \ {Genesis} \subseteq index["scripts"]
  <2>1. CASE w = Genesis
    BY <2>1, AncestorsEquation
  <2>2. CASE w # Genesis
    BY <2>2 DEF Witness, Inv, IndexOK
  <2> QED
    BY <2>1, <2>2
<1> QED
  BY <1>1, <1>2 DEF Inv, IndexOK

LEMMA HeaderBest ==
    ASSUME Inv, Best, NEW b \in Blocks \ {Genesis}, AcceptBlockHeader(b) \/ RejectBlock(b)
    PROVE  Best'
<1>1. /\ job = Idle /\ job' = job /\ UNCHANGED <<seq, addr, linked, tip, candidates, pending>>
      /\ b \notin index["data"]
  BY DEF AcceptBlockHeader, RejectBlock, Inv, IndexOK
<1>2. {b} \in SUBSET Blocks /\ index \in IndexType /\ "known" \in Kept
  BY IndexTypes DEF Kept
<1> DEFINE idx == AddToBlockIndex(b)
<1>3. idx \in IndexType /\ Failed(idx) = Failed(index) /\ idx["scripts"] = index["scripts"]
  <2>1. idx \in IndexType /\ Failed(idx) = Failed(index)
    BY <1>2, FailedAfterAdd DEF AddToBlockIndex
  <2>2. idx["scripts"] = index["scripts"]
    BY <1>2, AddFields, FieldNames DEF AddToBlockIndex
  <2> QED
    BY <2>1, <2>2
<1> HIDE DEF idx
<1>4. /\ Failed(index') \in {Failed(index), Failed(index) \cup {b}}
      /\ index'["scripts"] = index["scripts"]
  <2>1. CASE AcceptBlockHeader(b)
    BY <1>3, <2>1 DEF AcceptBlockHeader, idx
  <2>2. CASE RejectBlock(b)
    <3>1. index' = Add(idx, "failedValid", {b})
      BY <2>2 DEF RejectBlock, idx
    <3>2. Failed(index') = Failed(index) \cup {b}
      BY <1>2, <1>3, <3>1, FailedAfter
    <3>3. index'["scripts"] = index["scripts"]
      BY <1>2, <1>3, <3>1, AddFields, FieldNames
    <3> QED
      BY <3>2, <3>3
  <2> QED
    BY <2>1, <2>2
<1>5. ASSUME NEW w \in Blocks, Witness(w) PROVE Ancestors[w] \cap Failed(index') = {}
  BY <1>1, <1>4, <1>5, WitnessChain DEF Witness, Valid
<1>6. job.op = "idle"
  BY <1>1 DEF Idle
<1> QED
  BY <1>1, <1>4, <1>5, <1>6, BestKept

LEMMA AcceptBlockBest ==
    ASSUME Inv, Best, NEW b \in Blocks \ {Genesis}, AcceptBlock(b) \/ AcceptKnownBlock(b)
    PROVE  Best'
<1>0. job = Idle /\ job' = Idle /\ pending' = TRUE /\ job.op = "idle" /\ job'.op = "idle"
      /\ UNCHANGED <<addr, tip>>
  BY DEF AcceptBlock, AcceptKnownBlock, Idle, treeVars
<1>1. PICK w \in Blocks : Witness(w)
  BY <1>0 DEF Best
<1>2. Witness(w)'
  <2>1. CASE AcceptKnownBlock(b)
    <3>1. UNCHANGED <<index, candidates, linked, seq, addr>>
      BY <2>1 DEF AcceptKnownBlock, treeVars
    <3> QED
      BY <1>1, <3>1 DEF Witness, Valid, Failed, Worse
  <2>2. CASE AcceptBlock(b)
    <3>0. /\ ReceivedBlockTransactions(b) /\ b \notin index["data"]
          /\ index' = Add(AddToBlockIndex(b), "data", {b})
      BY <2>2 DEF AcceptBlock
    <3>1. Failed(index)' = Failed(index) /\ index'["scripts"] = index["scripts"]
      <4>1. {b} \in SUBSET Blocks /\ index \in IndexType /\ "known" \in Kept /\ "data" \in Kept
        BY IndexTypes DEF Kept
      <4> DEFINE idx == AddToBlockIndex(b)
      <4>2. idx \in IndexType /\ Failed(idx) = Failed(index)
        BY <4>1, FailedAfterAdd DEF AddToBlockIndex
      <4>3. idx["scripts"] = index["scripts"]
        BY <4>1, AddFields, FieldNames DEF AddToBlockIndex
      <4> HIDE DEF idx
      <4>4. index' = Add(idx, "data", {b})
        BY <3>0 DEF idx
      <4>5. Failed(index') = Failed(index)
        BY <4>1, <4>2, <4>4, FailedAfterAdd
      <4>6. index'["scripts"] = index["scripts"]
        BY <4>1, <4>2, <4>3, <4>4, AddFields, FieldNames
      <4> QED
        BY <4>5, <4>6 DEF Failed
    <3>2. CASE Parent[b] \notin linked
      <4>1. UNCHANGED <<linked, seq, candidates>>
        BY <3>0, <3>2 DEF ReceivedBlockTransactions
      <4> QED
        BY <1>0, <1>1, <3>1, <4>1 DEF Witness, Valid, Worse
    <3>3. CASE Parent[b] \in linked
      <4>1. /\ seq' \in [Blocks -> Nat] /\ LinkedBy(b) \subseteq Blocks
            /\ linked' = linked \cup LinkedBy(b)
            /\ \A d \in Blocks \ LinkedBy(b) : seq'[d] = seq[d]
            /\ candidates' = candidates \cup
                  {d \in LinkedBy(b) : ~ WorseIn(seq', addr, d, tip)}
            /\ LinkedBy(b) \cap linked = {}
        BY <3>0, <3>3, LinkingStep, LinkedByExact
      <4>2. w \in candidates /\ w \in linked /\ tip \in linked /\ linked \subseteq Blocks
        BY <1>1, TipChain, WitnessChain, IndexTypes DEF Witness
      <4>3. seq'[w] = seq[w] /\ seq'[tip] = seq[tip]
        BY <4>1, <4>2
      <4>4. ~ WorseIn(seq', addr, w, tip)
        <5>1. ~ Worse(w, tip)
          BY <4>2 DEF Inv, CandidatesOK
        <5> QED
          BY <4>3, <5>1 DEF Worse, WorseIn
      <4>5. ASSUME NEW d \in linked', Valid(d)', ~ Worse(d, w)' PROVE d \in candidates'
        <5>1. CASE d \in linked
          <6>1. seq'[d] = seq[d] /\ Valid(d)
            BY <3>1, <4>1, <4>2, <4>5, <5>1 DEF Valid
          <6>2. ~ Worse(d, w)
            BY <1>0, <4>3, <4>5, <6>1, WorseUnchanged
          <6> QED
            BY <1>1, <4>1, <5>1, <6>1, <6>2 DEF Witness
        <5>2. CASE d \in LinkedBy(b)
          <6>1. ~ WorseIn(seq', addr, d, w)
            BY <1>0, <4>5 DEF Worse
          <6>2. addr \in [Blocks -> Nat] /\ d \in Blocks /\ tip \in Blocks
            BY <4>1, <4>2, <5>2, VerdictAssumption DEF Inv, TypeOK
          <6>3. ~ WorseIn(seq', addr, d, tip)
            BY <4>1, <4>4, <6>1, <6>2, WorseIsStrict
          <6> QED
            BY <4>1, <5>2, <6>3
        <5> QED
          BY <4>1, <5>1, <5>2
      <4> QED
        BY <1>1, <3>1, <4>1, <4>5 DEF Witness, Valid
    <3> QED
      BY <3>2, <3>3
  <2> QED
    BY <2>1, <2>2
<1> QED
  BY <1>0, <1>2 DEF Best

LEMMA InvalidateBest ==
    ASSUME ~ InvalidatesOrCrashes, Inv, Clean, Cause, Best,
           (\E b \in Blocks : InvalidateBlock(b)) \/ InvalidateReturn
    PROVE  Best'
<1>1. CASE \E b \in Blocks : InvalidateBlock(b)
  <2>1. job'.op = "invalidate"
    BY <1>1 DEF InvalidateBlock, Idle
  <2> QED
    BY <2>1 DEF Best
<1>2. CASE InvalidateReturn
  <2>1. /\ job.op = "invalidate" /\ job.target \notin Ancestors[tip] /\ job' = Idle
        /\ pending' = TRUE /\ candidates' = InvalidateCandidates
        /\ UNCHANGED <<index, linked, seq, addr, tip>>
    BY <1>2 DEF InvalidateReturn
  <2>2. Ancestors[tip] \cap Failed(index) = {}
    BY <2>1, IndexTypes, AncestorsTransitive DEF Clean
  <2>3. ASSUME NEW b \in linked, Valid(b), ~ Worse(b, tip) PROVE b \in InvalidateCandidates
    <3>1. b \in index["data"] /\ b \in Ancestors[b]
      BY IndexTypes, AncestorsSelf DEF Inv, LinksOK
    <3> QED
      BY <2>3, <3>1 DEF InvalidateCandidates, IsValid, Valid
  <2>4. ~ Worse(tip, tip)
    <3>1. seq \in [Blocks -> Nat] /\ addr \in [Blocks -> Nat]
      BY VerdictAssumption DEF Inv, TypeOK
    <3> QED
      BY <3>1, IndexTypes, WorseIsStrict DEF Worse
  <2>5. tip \in InvalidateCandidates
    BY <2>2, <2>3, <2>4, TipChain DEF Valid
  <2>6. tip \in index["scripts"] \cup {Genesis}
    BY DEF Inv, IndexOK
  <2>7. Witness(tip)'
    BY <2>1, <2>2, <2>3, <2>5, <2>6 DEF Witness, Valid, Worse, Failed
  <2>8. job'.op = "idle"
    BY <2>1 DEF Idle
  <2>9. \E w \in Blocks : Witness(w)'
    BY <2>1, <2>7, IndexTypes
  <2> QED
    BY <2>1, <2>8, <2>9 DEF Best
<1> QED
  BY <1>1, <1>2

LEMMA FindMostWorkChainBest ==
    ASSUME Inv, Clean, Best, FindMostWorkChain
    PROVE  Best'
<1>0. /\ job = Idle /\ job.op = "idle" /\ pending
      /\ candidates' = candidates \ Doomed /\ UNCHANGED <<seq, addr, linked, tip>>
      /\ TypeOK /\ tip \in Blocks /\ candidates \subseteq Blocks
  BY IdleFacts DEF FindMostWorkChain, Idle, Inv
<1>1. /\ Failed(index') = Failed(index) \cup Doomed
      /\ index'["scripts"] = index["scripts"]
  BY MarkDoomed DEF FindMostWorkChain, Kept
<1>2. Ancestors[tip] \cap Failed(index) = {}
  BY <1>0 DEF Clean
<1>3. ASSUME NEW c \in Blocks
      PROVE  Valid(c) <=> Branch(c) \cap Failed(index) = {}
  BY <1>2 DEF Valid, Branch
<1>4. ASSUME NEW c \in Blocks, Valid(c) PROVE Ancestors[c] \cap Doomed = {}
  <2>1. Branch(c) \cap Doomed = {}
    BY <1>0, <1>3, <1>4, GoalNotDoomed
  <2>2. Doomed \cap Ancestors[tip] = {}
    BY <1>0, DoomedByFailure
  <2> QED
    BY <2>1, <2>2 DEF Branch
<1>5. PICK w \in Blocks : Witness(w)
  BY <1>0 DEF Best
<1>6. Witness(w)'
  <2>1. Ancestors[w] \cap Failed(index') = {}
    BY <1>1, <1>4, <1>5 DEF Witness, Valid
  <2>2. \A c \in candidates \ candidates' : c \in Failed(index') /\ c \in Ancestors[c]
    BY <1>0, <1>1, AncestorsSelf
  <2> QED
    BY <1>0, <1>1, <1>5, <2>1, <2>2, WitnessKept
<1>7. w \in candidates \ Unusable
  BY <1>3, <1>5 DEF Witness, Unusable
<1>8. /\ MostWork \in candidates \ Unusable /\ MostWork # None
      /\ \A d \in candidates \ Unusable : d # MostWork => Worse(d, MostWork)
  BY <1>0, <1>7, MostWorkIsBest
<1>9. ASSUME NEW c \in candidates', Valid(c)' PROVE ~ Worse(MostWork, c)
  <2>1. c \in candidates /\ Valid(c)
    <3>1. Failed(index)' = Failed(index')
      BY DEF Failed
    <3> QED
      BY <1>0, <1>1, <1>9, <3>1 DEF Valid
  <2>2. c \in candidates \ Unusable
    BY <1>0, <1>3, <2>1 DEF Unusable
  <2>3. seq \in [Blocks -> Nat] /\ addr \in [Blocks -> Nat] /\ MostWork \in Blocks /\ c \in Blocks
    BY <1>0, <1>8, <2>1, VerdictAssumption DEF TypeOK
  <2> QED
    BY <1>8, <2>2, <2>3, WorseIsStrict DEF Worse
<1>10. CASE MostWork \in {None, tip}
  <2>1. job' = Idle /\ MostWork = tip
    BY <1>8, <1>10 DEF FindMostWorkChain
  <2>2. job'.op = "idle"
    BY <2>1 DEF Idle
  <2>3. Settled(tip)'
    BY <1>0, <1>9, <2>1 DEF Settled, Worse
  <2> QED
    BY <1>6, <2>2, <2>3 DEF Best
<1>11. CASE MostWork \notin {None, tip}
  <2>1. job' = [Idle EXCEPT !.op = "activate", !.target = MostWork, !.from = tip]
        /\ pending' = pending
    BY <1>11 DEF FindMostWorkChain
  <2>2. job'.op = "activate" /\ job'.target = MostWork
    BY <2>1 DEF Idle
  <2>3. \A c \in candidates' : Valid(c)' => ~ WorseIn(seq', addr', job'.target, c)
    BY <1>0, <1>9, <2>2 DEF Worse
  <2>4. Settled(job.target)'
    BY <2>3 DEF Settled, Worse
  <2> QED
    BY <1>0, <1>6, <2>1, <2>2, <2>4 DEF Best
<1> QED
  BY <1>10, <1>11

LEMMA ActivateReturnBest ==
    ASSUME Inv, Best, ActivateReturn
    PROVE  Best'
<1>1. /\ job.op = "activate" /\ job' = Idle /\ pending' = (tip # job.target)
      /\ UNCHANGED <<index, linked, seq, addr, candidates, tip>>
  BY DEF ActivateReturn, treeVars
<1>2. job'.op = "idle"
  BY <1>1 DEF Idle
<1>3. \E w \in Blocks : Witness(w)'
  BY <1>1 DEF Best, Witness, Valid, Failed, Worse
<1>4. ~ pending' => Settled(tip)'
  <2> SUFFICES ASSUME ~ pending' PROVE Settled(tip)'
    OBVIOUS
  <2>1. tip = job.target
    BY <1>1
  <2>2. Settled(tip)
    BY <1>1, <2>1 DEF Best
  <2> QED
    BY <1>1, <2>2 DEF Settled, Valid, Failed, Worse
<1> QED
  BY <1>2, <1>3, <1>4 DEF Best

\* Disconnecting and writing leave the candidates alone, except for InvalidateBlock.
LEMMA DisconnectTipBest ==
    ASSUME Inv, Cause, Best, DisconnectTip \/ FlushStateToDisk
    PROVE  Best'
<1>1. CASE DisconnectTip /\ job.op = "invalidate"
  <2>1. job'.op = "invalidate"
    BY <1>1, DisconnectJob
  <2> QED
    BY <2>1 DEF Best
<1>2. CASE (DisconnectTip /\ job.op # "invalidate") \/ FlushStateToDisk
  <2>1. UNCHANGED <<index, linked, seq, addr, candidates, tip, pending>>
    BY <1>2 DEF DisconnectTip, FlushStateToDisk
  <2>2. /\ job.op # "invalidate"
        /\ \/ job'.op = job.op /\ job'.target = job.target
           \/ {job.op, job'.op} \subseteq {"idle", "flush"}
    <3>1. CASE DisconnectTip /\ job.op # "invalidate"
      BY <3>1, DisconnectJob
    <3>2. CASE FlushStateToDisk
      BY <3>2 DEF FlushStateToDisk, Idle
    <3> QED
      BY <1>2, <3>1, <3>2
  <2> QED
    BY <2>1, <2>2, BestKept DEF Witness, Valid
<1> QED
  BY <1>1, <1>2

\* PruneBlockIndexCandidates at a new tip b: the witness stays, or b is the new one.
LEMMA PruneBest ==
    ASSUME Inv, NEW w \in Blocks, Witness(w), NEW b \in linked, Valid(b),
           candidates' = PruneBlockIndexCandidates(b), UNCHANGED <<seq, addr, linked>>,
           Failed(index') = Failed(index), index["scripts"] \cup {b} \subseteq index'["scripts"]
    PROVE  \E v \in Blocks : Witness(v)'
<1>0. /\ seq \in [Blocks -> Nat] /\ addr \in [Blocks -> Nat] /\ linked \subseteq Blocks /\ b \in Blocks
  BY VerdictAssumption DEF Inv, TypeOK
<1>1. candidates' = {c \in candidates : ~ Worse(c, b)} /\ Failed(index)' = Failed(index)
  BY DEF PruneBlockIndexCandidates, Failed
<1>2. \A d \in linked : Valid(d) /\ ~ Worse(d, w) => d \in candidates
  BY DEF Witness
<1>3. CASE Worse(w, b)
  <2>1. ~ Worse(b, w) /\ ~ Worse(b, b)
    BY <1>0, <1>3, WorseIsStrict DEF Worse
  <2>2. b \in candidates'
    BY <1>1, <1>2, <2>1
  <2>3. ASSUME NEW d \in linked, Valid(d), ~ Worse(d, b) PROVE d \in candidates'
    <3>1. ~ Worse(d, w)
      BY <1>0, <2>1, <2>3, WorseIsStrict DEF Worse
    <3> QED
      BY <1>1, <1>2, <2>3, <3>1
  <2>4. Witness(b)'
    BY <1>1, <2>2, <2>3 DEF Witness, Valid, Worse
  <2> QED
    BY <1>0, <2>4
<1>4. CASE ~ Worse(w, b)
  <2>1. w \in candidates' /\ w \in index["scripts"] \cup {Genesis} /\ Valid(w)
    BY <1>1, <1>4 DEF Witness
  <2>2. ASSUME NEW d \in linked, Valid(d), ~ Worse(d, w) PROVE d \in candidates'
    <3>1. ~ Worse(d, b)
      BY <1>0, <1>4, <2>2, WorseIsStrict DEF Worse
    <3> QED
      BY <1>1, <1>2, <2>2, <3>1
  <2>3. Witness(w)'
    BY <1>1, <2>1, <2>2 DEF Witness, Valid, Worse
  <2> QED
    BY <2>3
<1> QED
  BY <1>3, <1>4

LEMMA ConnectTipBest ==
    ASSUME Contested = {}, Inv, Clean, Best, ConnectTip \/ ConnectTipAndFlush \/ ConnectTipFails
    PROVE  Best'
<1> DEFINE b == NextToConnect
<1>0. MayConnect
  BY DEF ConnectTip, ConnectTipAndFlush, ConnectTipFails
<1>1. /\ b \in Blocks \ {Genesis} /\ b \in linked /\ Ancestors[b] = {b} \cup Ancestors[tip]
      /\ b \notin Failed(index) /\ job.op = "activate" /\ b \in Ancestors[b]
  BY <1>0, NextBlock
<1>2. Valid(b)
  BY <1>1 DEF Valid, Clean
<1>3. index \in IndexType /\ {b} \in SUBSET Blocks /\ "scripts" \in Kept /\ "scripts" \in Fields
  BY <1>1, IndexTypes, FieldNames DEF Kept
<1>4. /\ Failed(Add(index, "scripts", {b})) = Failed(index)
      /\ Add(index, "scripts", {b})["scripts"] = index["scripts"] \cup {b}
  BY <1>3, FailedAfterAdd, AddFields
<1>5. PICK w \in Blocks : Witness(w)
  BY <1>1 DEF Best
<1> HIDE DEF b
<1>6. pending /\ Settled(job.target)
  BY <1>1 DEF Best
<1>7. Failed(index)' = Failed(index')
  BY DEF Failed
<1>8. CASE ConnectTip
  <2>1. /\ index' = Add(index, "scripts", {b}) /\ candidates' = PruneBlockIndexCandidates(b)
        /\ UNCHANGED <<seq, addr, linked, job, pending>>
    BY <1>8 DEF ConnectTip, b
  <2>2. \E v \in Blocks : Witness(v)'
    BY <1>1, <1>2, <1>4, <1>5, <2>1, PruneBest
  <2>3. Settled(job.target)'
    <3>1. candidates' \subseteq candidates
      BY <2>1 DEF PruneBlockIndexCandidates
    <3> QED
      BY <1>4, <1>6, <1>7, <2>1, <3>1 DEF Settled, Valid, Worse
  <2> QED
    BY <1>1, <1>6, <2>1, <2>2, <2>3 DEF Best
<1>9. CASE ConnectTipAndFlush
  <2>1. /\ index' = Add(index, "scripts", {b}) /\ job' = [job EXCEPT !.phase = "connect"]
        /\ UNCHANGED <<seq, addr, linked, tip, candidates, pending>>
    BY <1>9 DEF ConnectTipAndFlush, b
  <2>2. job'.op = job.op /\ job'.target = job.target
    BY <2>1, IndexTypes DEF JobType
  <2>3. \A v \in Blocks : Witness(v) => Ancestors[v] \cap Failed(index') = {}
    BY <1>4, <2>1 DEF Witness, Valid
  <2> QED
    BY <1>1, <1>4, <2>1, <2>2, <2>3, BestKept
<1>10. CASE ConnectTipFails
  <2>1. /\ index' = Add(index, "failedValid", {b}) /\ b \in Invalid /\ candidates' = candidates \ {b}
        /\ job' = Idle /\ UNCHANGED <<seq, addr, linked, tip, pending>>
    BY <1>10 DEF ConnectTipFails, InvalidBlockFound, b
  <2>2. Failed(index') = Failed(index) \cup {b}
    BY <1>3, <2>1, FailedAfter
  <2>3. index'["scripts"] = index["scripts"]
    BY <1>3, <2>1, AddFields, FieldNames
  <2>4. Ancestors[w] \cap Failed(index') = {}
    BY <1>1, <1>5, <2>1, <2>2, WitnessChain DEF Witness, Valid
  <2>5. Witness(w)'
    <3>1. \A c \in candidates \ candidates' : c \in Failed(index') /\ c \in Ancestors[c]
      BY <1>1, <2>1, <2>2
    <3> QED
      BY <1>5, <2>1, <2>2, <2>3, <2>4, <3>1, WitnessKept
  <2>6. job'.op = "idle"
    BY <2>1 DEF Idle
  <2> QED
    BY <1>6, <2>1, <2>5, <2>6 DEF Best
<1> QED
  BY <1>8, <1>9, <1>10

LEMMA FlushCoinsBest ==
    ASSUME Inv, Clean, Cause, Best, FlushCoins
    PROVE  Best'
<1>0. /\ tip' = coinsTip /\ job.phase \in {"connect", "disconnect", "flush"}
      /\ job' = (IF job.op = "flush" THEN Idle ELSE [job EXCEPT !.phase = "run"])
      /\ UNCHANGED <<index, linked, seq, addr, pending>>
      /\ candidates' = IF job.phase = "connect" THEN PruneBlockIndexCandidates(coinsTip)
                                                ELSE candidates
  BY DEF FlushCoins
<1>1. \/ job.op = "flush" /\ job'.op = "idle"
      \/ job.op \in {"activate", "invalidate"} /\ job'.op = job.op /\ job'.target = job.target
  <2>1. CASE job.op = "flush"
    BY <1>0, <2>1 DEF Idle
  <2>2. CASE job.op # "flush"
    <3>1. job.op \in {"activate", "invalidate"}
      BY <1>0, <2>2, IndexTypes DEF JobType, Inv, JobOK, Idle, Cause
    <3> QED
      BY <1>0, <2>2, <3>1, IndexTypes DEF JobType
  <2> QED
    BY <2>1, <2>2
<1>2. CASE job.op = "flush"
  <2>1. job.phase = "flush" /\ coinsTip = tip
    BY <1>2 DEF Inv, JobOK, PhaseOK
  <2>2. candidates' = candidates /\ tip' = tip /\ job'.op = "idle"
    BY <1>0, <1>1, <1>2, <2>1
  <2> QED
    BY <1>0, <1>2, <2>2, BestKept DEF Witness, Valid
<1>3. CASE job.op = "invalidate"
  <2>1. job'.op = "invalidate"
    BY <1>1, <1>3
  <2> QED
    BY <2>1 DEF Best
<1>4. CASE job.op = "activate"
  <2>0. job'.op = "activate" /\ job'.target = job.target /\ pending /\ Settled(job.target)
    BY <1>1, <1>4 DEF Best
  <2>1. PICK w \in Blocks : Witness(w)
    BY <1>4 DEF Best
  <2>2. \E v \in Blocks : Witness(v)'
    <3>1. CASE job.phase = "connect"
      <4>1. coinsTip \in Blocks \ {Genesis} /\ tip = Parent[coinsTip] /\ coinsTip \in Ancestors[job.target]
        BY <1>4, <3>1, IndexTypes DEF Inv, PhaseOK, JobOK
      <4>2. Ancestors[coinsTip] = {coinsTip} \cup Ancestors[tip] /\ coinsTip \notin Ancestors[tip]
        BY <4>1, AncestorsOfChild
      <4>3. coinsTip \notin Failed(index)
        BY <1>4, <4>1, <4>2 DEF Inv, JobOK
      <4>4. Valid(coinsTip)
        BY <1>4, <4>2, <4>3 DEF Valid, Clean
      <4>5. coinsTip \in index["scripts"]
        BY <4>1 DEF Inv, IndexOK
      <4>6. coinsTip \in linked
        <5>1. Ancestors[coinsTip] \subseteq index["data"]
          BY <4>2, <4>5, TipChain DEF Inv, IndexOK
        <5> QED
          BY <4>5, <5>1 DEF Inv, IndexOK, LinksOK
      <4> QED
        BY <1>0, <2>1, <3>1, <4>4, <4>5, <4>6, PruneBest
    <3>2. CASE job.phase # "connect"
      <4>1. candidates' = candidates
        BY <1>0, <3>2
      <4>2. Witness(w)'
        BY <1>0, <2>1, <4>1 DEF Witness, Valid, Failed, Worse
      <4> QED
        BY <4>2
    <3> QED
      BY <3>1, <3>2
  <2>3. Settled(job.target)'
    <3>1. candidates' \subseteq candidates
      BY <1>0 DEF PruneBlockIndexCandidates
    <3> QED
      BY <1>0, <2>0, <3>1 DEF Settled, Valid, Failed, Worse
  <2> QED
    BY <1>0, <2>0, <2>2, <2>3 DEF Best
<1> QED
  BY <1>1, <1>2, <1>3, <1>4

LEMMA RestartBest ==
    ASSUME ~ InvalidatesOrCrashes, Inv, Clean, Restart
    PROVE  Best'
<1>1. "invalidate" \notin Operations
  BY DEF InvalidatesOrCrashes, Restart, Inv, TypeOK
<1>2. /\ index' = diskIndex /\ linked' = LoadedLinked /\ seq' = [b \in Blocks |-> 0]
      /\ job' = Idle /\ pending' = TRUE /\ addr' \in AddressOrders
      /\ candidates' = LoadedCandidates(addr')
  BY DEF Restart
<1>3. Failed(index)' = Failed(diskIndex) /\ job'.op = "idle"
  BY <1>2 DEF Failed, Idle
<1>4. /\ Ancestors[diskBest] \cap Failed(diskIndex) = {}
      /\ diskBest \in Blocks /\ diskBest \in Ancestors[diskBest]
  BY <1>1, IndexTypes, AncestorsTransitive, AncestorsSelf DEF Clean, Inv, DiskOK
<1>5. Ancestors[diskBest] \subseteq diskIndex["data"]
  <2>1. CASE diskBest = Genesis
    BY <2>1, AncestorsEquation DEF Inv, DiskOK
  <2>2. CASE diskBest # Genesis
    BY <2>2 DEF Inv, DiskOK
  <2> QED
    BY <2>1, <2>2
<1>6. ASSUME NEW b \in LoadedLinked, Ancestors[b] \cap Failed(diskIndex) = {},
             ~ WorseIn([d \in Blocks |-> 0], addr', b, diskBest)
      PROVE  b \in LoadedCandidates(addr')
  <2>1. b \in diskIndex["data"] /\ b \in Blocks
    BY DEF LoadedLinked, Inv, TypeOK, Fields
  <2>2. b \in Ancestors[b]
    BY <2>1, AncestorsSelf
  <2> QED
    BY <1>6, <2>1, <2>2 DEF LoadedCandidates, IsValid
<1>7. diskBest \in LoadedCandidates(addr')
  <2>1. ~ WorseIn([d \in Blocks |-> 0], addr', diskBest, diskBest)
    <3>1. [d \in Blocks |-> 0] \in [Blocks -> Nat] /\ addr' \in [Blocks -> Nat]
      BY <1>2, VerdictAssumption
    <3> QED
      BY <1>4, <3>1, WorseIsStrict
  <2> QED
    BY <1>4, <1>5, <1>6, <2>1 DEF LoadedLinked
<1>8. Witness(diskBest)'
  <2>1. diskBest' = diskBest /\ diskBest \in index'["scripts"] \cup {Genesis}
    BY <1>2 DEF Restart, diskVars, Inv, DiskOK
  <2>2. Valid(diskBest)' /\ diskBest' \in candidates'
    BY <1>2, <1>3, <1>4, <1>7, <2>1 DEF Valid
  <2>3. ASSUME NEW b \in linked', Valid(b)', ~ Worse(b, diskBest)' PROVE b \in candidates'
    BY <1>2, <1>3, <1>6, <2>1, <2>3 DEF Valid, Worse
  <2> QED
    BY <2>1, <2>2, <2>3 DEF Witness
<1>9. \E w \in Blocks : Witness(w)'
  <2>1. diskBest' = diskBest
    BY DEF Restart, diskVars
  <2> QED
    BY <1>4, <1>8, <2>1
<1> QED
  BY <1>2, <1>3, <1>9 DEF Best

LEMMA NextBest ==
    ASSUME NeverReconsiders, ~ InvalidatesOrCrashes, Contested = {},
           Inv, Clean, Cause, Best, [Next]_vars
    PROVE  Best'
<1>1. CASE Proceed
  <2>1. ~ ReprocessReturn
    BY DEF ReprocessReturn, Cause
  <2> QED
    BY <1>1, <2>1, FindMostWorkChainBest, DisconnectTipBest, ConnectTipBest, ActivateReturnBest,
       InvalidateBest, FlushCoinsBest DEF Proceed
<1>2. CASE Receive
  <2>1. \A b \in Blocks : ~ ReconsiderCheckpoint(b)
    BY DEF ReconsiderCheckpoint, NeverReconsiders
  <2> QED
    BY <1>2, <2>1, HeaderBest, AcceptBlockBest DEF Receive
<1>3. CASE Operate
  <2>1. /\ \A b \in Blocks : ~ RpcReconsiderBlock(b) /\ ~ ReconsiderRejected(b)
        /\ ~ DisconnectBlocksAndReprocess
    BY DEF RpcReconsiderBlock, ReconsiderRejected, DisconnectBlocksAndReprocess,
           NeverReconsiders, Cause, NotReprocessing
  <2>2. \A R \in SUBSET Contested, n \in 1 .. MaxDisconnect : ~ ReprocessBlocks(R, n)
    BY DEF ReprocessBlocks, NeverReconsiders
  <2> QED
    BY <1>3, <2>1, <2>2, InvalidateBest DEF Operate
<1>4. CASE FlushStateToDisk
  BY <1>4, DisconnectTipBest
<1>5. CASE Restart
  BY <1>5, RestartBest
<1>6. CASE UNCHANGED vars
  BY <1>6 DEF vars, treeVars, Best, Witness, Settled, Valid, Failed, Worse
<1> QED
  BY <1>1, <1>2, <1>3, <1>4, <1>5, <1>6 DEF Next

LEMMA SpecBest ==
    ASSUME NeverReconsiders, ~ InvalidatesOrCrashes, Contested = {}
    PROVE  Spec => []Best
<1>1. Inv /\ Clean /\ Cause /\ Best /\ [Next]_vars => Best'
  BY NextBest
<1> QED
  BY <1>1, InitBest, SpecInv, SpecClean, SpecCause, PTL DEF Spec

\* When ActivateBestChain has nothing left to do, no chain that could be
\* connected is better than the active one, however reorganisations to chains
\* with invalid blocks, invalidations, or crashes have gone before.
THEOREM SpecBestChainActive ==
    ASSUME NeverReconsiders, ~ InvalidatesOrCrashes, Contested = {}
    PROVE  Spec => []BestChainActive
<1>1. Inv /\ Best => BestChainActive
  <2> SUFFICES ASSUME Inv, Best, Quiet, ~ pending, NEW b \in linked,
                      Ancestors[b] \cap Failed(index) = {}, Worse(tip, b)
               PROVE  FALSE
    BY DEF BestChainActive
  <2>1. job.op = "idle"
    BY DEF Quiet, Idle
  <2>2. Settled(tip)
    BY <2>1 DEF Best
  <2>3. PICK w \in Blocks : Witness(w)
    BY <2>1 DEF Best
  <2>4. ~ Worse(tip, w)
    BY <2>2, <2>3 DEF Settled, Witness
  <2>5. seq \in [Blocks -> Nat] /\ addr \in [Blocks -> Nat] /\ b \in Blocks /\ tip \in Blocks
    BY VerdictAssumption DEF Inv, TypeOK
  <2>6. ~ Worse(b, w)
    BY <2>4, <2>5, WorseIsStrict DEF Worse
  <2>7. b \in candidates
    BY <2>3, <2>6 DEF Witness, Valid
  <2> QED
    BY <2>2, <2>7 DEF Settled, Valid
<1> QED
  BY <1>1, SpecInv, SpecBest, PTL

\* At the same moments every valid block as good as the tip is a candidate: no
\* sequence of pruning, failing, disconnecting and invalidating loses one.
THEOREM SpecCandidatesComplete ==
    ASSUME NeverReconsiders, ~ InvalidatesOrCrashes, Contested = {}
    PROVE  Spec => []CandidatesComplete
<1>1. Inv /\ Cause /\ Best => CandidatesComplete
  <2> SUFFICES ASSUME Inv, Cause, Best, Quiet, ~ pending, NEW b \in linked, b \notin candidates,
                      ~ Worse(b, tip), ~ HasInvalidAncestor(b)
               PROVE  FALSE
    BY DEF CandidatesComplete, MissingCandidates
  <2>1. job.op = "idle"
    BY DEF Quiet, Idle
  <2>2. Settled(tip)
    BY <2>1 DEF Best
  <2>3. PICK w \in Blocks : Witness(w)
    BY <2>1 DEF Best
  <2>4. ~ Worse(tip, w)
    BY <2>2, <2>3 DEF Settled, Witness
  <2>5. seq \in [Blocks -> Nat] /\ addr \in [Blocks -> Nat] /\ b \in Blocks /\ tip \in Blocks
    BY VerdictAssumption DEF Inv, TypeOK
  <2>6. ~ Worse(b, w)
    BY <2>4, <2>5, WorseIsStrict DEF Worse
  <2>7. ASSUME NEW f \in Failed(index), f \in Ancestors[b] PROVE FALSE
    <3>1. Ancestors[f] \subseteq Ancestors[b]
      BY <2>5, <2>7, AncestorsTransitive
    <3>2. Ancestors[f] \cap index["failedValid"] # {}
      BY DEF Cause, HasCauses
    <3> QED
      BY <3>1, <3>2 DEF HasInvalidAncestor
  <2>8. Valid(b)
    BY <2>7 DEF Valid
  <2> QED
    BY <2>3, <2>6, <2>8 DEF Witness
<1> QED
  BY <1>1, SpecInv, SpecCause, SpecBest, PTL

=============================================================================
