---------------------------- MODULE MempoolProofs ----------------------------
(***************************************************************************)
(* Proofs about Mempool: the pool is consistent with the chain after every *)
(* block connected or disconnected, whatever the policy refuses; the orphan*)
(* maps agree; the "tx" handler leaves no orphan behind that it could have *)
(* let in.                                                                 *)
(***************************************************************************)
EXTENDS Mempool, WellFoundedInduction, FiniteSetTheorems, TLAPS

------------------------------------------------------------------------------
(* Induction over the natural numbers, for sets of numbers.                 *)

\* A set of numbers that is not empty has a least element.
LEMMA LeastNatural ==
    ASSUME NEW S \in SUBSET Nat, S # {}
    PROVE  \E m \in S : \A k \in S : m <= k
<1> DEFINE R == {ss \in Nat \X Nat : ss[1] < ss[2]}
<1>1. IsWellFoundedOn(R, Nat)
  BY NatLessThanWellFounded DEF OpToRel
<1>2. \A j, k \in Nat : j < k => <<j, k>> \in R
  OBVIOUS
<1> HIDE DEF R
<1>3. PICK m \in S : \A k \in S : ~ (<<k, m>> \in R)
  BY <1>1, WFMin
<1>4. \A k \in S : ~ (k < m)
  BY <1>2, <1>3
<1> QED
  BY <1>3, <1>4

\* Induction from each number to the next, up to N.
LEMMA UpToInduction ==
    ASSUME NEW N \in Nat, NEW S, 0 \in S, \A n \in 1 .. N : n - 1 \in S => n \in S
    PROVE  0 .. N \subseteq S
<1> DEFINE T == {n \in 0 .. N : n \notin S}
<1> SUFFICES ASSUME T # {} PROVE FALSE
  OBVIOUS
<1>1. PICK m \in T : \A k \in T : m <= k
  <2>1. T \in SUBSET Nat
    OBVIOUS
  <2> HIDE DEF T
  <2> QED
    BY <2>1, LeastNatural
<1>2. m \in 1 .. N /\ m \notin S
  BY <1>1
<1>3. m - 1 \in S
  BY <1>1, <1>2
<1> QED
  BY <1>2, <1>3

\* f is defined from each index to the next by step, from x0.
Iterates(f, N, X, x0, step) ==
    f \in [0 .. N -> X] /\ f[0] = x0 /\ \A i \in 1 .. N : f[i] = step[<<i, f[i - 1]>>]

\* Such a function exists.
LEMMA FiniteRecursion ==
    ASSUME NEW N \in Nat, NEW X, NEW x0 \in X, NEW step \in [(1 .. N) \X X -> X]
    PROVE  \E f : Iterates(f, N, X, x0, step)
<1> DEFINE D(f, n) == /\ f \in [0 .. n -> X] /\ f[0] = x0
                      /\ \A i \in 1 .. n : f[i] = step[<<i, f[i - 1]>>]
           S == {n \in 0 .. N : \E f : D(f, n)}
<1>1. 0 \in S
  <2>1. D([i \in 0 .. 0 |-> x0], 0)
    OBVIOUS
  <2> HIDE DEF D
  <2> QED
    BY <2>1
<1>2. ASSUME NEW n \in 1 .. N, n - 1 \in S PROVE n \in S
  <2>1. PICK f : D(f, n - 1)
    BY <1>2
  <2> DEFINE g == [i \in 0 .. n |-> IF i = n THEN step[<<n, f[n - 1]>>] ELSE f[i]]
  <2>2. step[<<n, f[n - 1]>>] \in X
    BY <2>1
  <2>3. g \in [0 .. n -> X] /\ g[0] = x0
    BY <2>1, <2>2
  <2>4. ASSUME NEW i \in 1 .. n PROVE g[i] = step[<<i, g[i - 1]>>]
    <3>1. CASE i = n
      <4>1. n - 1 \in 0 .. n /\ n - 1 # n /\ n \in 0 .. n
        OBVIOUS
      <4>2. g[n] = step[<<n, f[n - 1]>>] /\ g[n - 1] = f[n - 1]
        BY <4>1
      <4> QED
        BY <3>1, <4>2
    <3>2. CASE i # n
      BY <3>2, <2>1
    <3> QED
      BY <3>1, <3>2
  <2>5. D(g, n)
    BY <2>3, <2>4
  <2> HIDE DEF D, g
  <2> QED
    BY <2>5
<1>3. N \in S
  <2>1. 0 .. N \subseteq S
    <3> HIDE DEF S
    <3> QED
      BY <1>1, <1>2, UpToInduction
  <2> QED
    BY <2>1
<1> QED
  BY <1>3 DEF Iterates

------------------------------------------------------------------------------
(* Pools.                                                                   *)

\* mapNextTx is the inverse of the inputs of the pool.
Exact(P) ==
    /\ DOMAIN P.next = UNION {Spends[t] : t \in P.tx}
    /\ \A t \in P.tx : \A o \in Spends[t] : P.next[o] = t

Pools ==
    {P \in [tx : SUBSET (Tx \ Reward), next : UNION {[D -> Tx] : D \in SUBSET Outpoint}] :
        Exact(P)}

\* Every input is an output of the pool or in S.
Backed(P, S) == \A t \in P.tx : \A o \in Spends[t] : Creator[o] \in P.tx \/ o \in S

\* With a transaction F has what spends its outputs in the pool.
Closed(P, F) == \A t \in P.tx : \A o \in Spends[t] : Creator[o] \in F => t \in F

\* What a pool looks like.
LEMMA PoolType ==
    ASSUME NEW P \in Pools
    PROVE  /\ P.tx \subseteq Tx \ Reward
           /\ P.next \in [DOMAIN P.next -> Tx]
           /\ DOMAIN P.next \subseteq Outpoint
           /\ \A o \in DOMAIN P.next : P.next[o] \in P.tx /\ o \in Spends[P.next[o]]
           /\ \A t \in P.tx : \A o \in Spends[t] : o \in DOMAIN P.next /\ P.next[o] = t
<1>1. P \in [tx : SUBSET (Tx \ Reward), next : UNION {[D -> Tx] : D \in SUBSET Outpoint}]
  BY DEF Pools
<1>2. Exact(P)
  BY DEF Pools
<1>3. P.next \in UNION {[D -> Tx] : D \in SUBSET Outpoint}
  BY <1>1
<1>4. PICK D \in SUBSET Outpoint : P.next \in [D -> Tx]
  BY <1>3
<1>5. P.tx \subseteq Tx \ Reward
  BY <1>1
<1>6. \A t \in P.tx : \A o \in Spends[t] : o \in DOMAIN P.next /\ P.next[o] = t
  BY <1>2 DEF Exact
<1>7. \A o \in DOMAIN P.next : P.next[o] \in P.tx /\ o \in Spends[P.next[o]]
  BY <1>2 DEF Exact
<1> QED
  BY <1>4, <1>5, <1>6, <1>7

\* A record of a set of transactions and its inputs is a pool.
LEMMA PoolIntro ==
    ASSUME NEW tx \in SUBSET (Tx \ Reward), NEW next,
           next \in [UNION {Spends[t] : t \in tx} -> Tx],
           \A t \in tx : \A o \in Spends[t] : next[o] = t
    PROVE  [tx |-> tx, next |-> next] \in Pools
<1> DEFINE D == UNION {Spends[t] : t \in tx}
           P == [tx |-> tx, next |-> next]
<1>1. D \subseteq Outpoint
  BY SpendsAssumption
<1>2. next \in UNION {[E -> Tx] : E \in SUBSET Outpoint}
  <2> HIDE DEF D
  <2> QED
    BY <1>1 DEF D
<1>3. P \in [tx : SUBSET (Tx \ Reward), next : UNION {[E -> Tx] : E \in SUBSET Outpoint}]
  BY <1>2
<1>4. P.tx = tx /\ P.next = next
  OBVIOUS
<1> HIDE DEF P
<1>5. Exact(P)
  BY <1>4 DEF Exact
<1> QED
  BY <1>3, <1>5 DEF Pools, P

\* RemoveAll takes transactions out of the pool.
LEMMA RemoveAllKeeps ==
    ASSUME NEW P \in Pools, NEW S
    PROVE  /\ RemoveAll(P, S) \in Pools
           /\ RemoveAll(P, S).tx = P.tx \ S
<1> DEFINE gone == S \cap P.tx
           freed == UNION {Spends[t] : t \in gone}
           tx == P.tx \ gone
           next == [o \in DOMAIN P.next \ freed |-> P.next[o]]
<1>1. RemoveAll(P, S) = [tx |-> tx, next |-> next]
  BY DEF RemoveAll
<1>2. tx \in SUBSET (Tx \ Reward)
  BY PoolType
<1>3. DOMAIN next = UNION {Spends[t] : t \in tx}
  <2>1. ASSUME NEW o \in DOMAIN next PROVE \E t \in tx : o \in Spends[t]
    <3>1. o \in DOMAIN P.next /\ o \notin freed
      BY <2>1
    <3>2. P.next[o] \in P.tx /\ o \in Spends[P.next[o]]
      BY <3>1, PoolType
    <3> QED
      BY <3>1, <3>2
  <2>2. ASSUME NEW t \in tx, NEW o \in Spends[t] PROVE o \in DOMAIN next
    <3>1. o \in DOMAIN P.next /\ P.next[o] = t
      BY PoolType
    <3>2. \A u \in gone : o \in Spends[u] => P.next[o] = u
      BY PoolType
    <3> QED
      BY <3>1, <3>2
  <2> HIDE DEF tx, next
  <2> QED
    BY <2>1, <2>2
<1>4. next \in [DOMAIN next -> Tx]
  BY PoolType
<1>5. \A t \in tx : \A o \in Spends[t] : next[o] = t
  <2> SUFFICES ASSUME NEW t \in tx, NEW o \in Spends[t] PROVE next[o] = t
    OBVIOUS
  <2>1. o \in DOMAIN next
    <3> HIDE DEF next, tx
    <3> QED
      BY <1>3
  <2>2. P.next[o] = t
    BY PoolType
  <2> QED
    BY <2>1, <2>2
<1>6. tx = P.tx \ S
  OBVIOUS
<1> HIDE DEF tx, next
<1>7. [tx |-> tx, next |-> next] \in Pools
  BY <1>2, <1>3, <1>4, <1>5, PoolIntro
<1> QED
  BY <1>1, <1>6, <1>7

\* Taking a closed set out leaves every input as it was.
LEMMA RemoveClosed ==
    ASSUME NEW P \in Pools, NEW S, Backed(P, S), NEW F, Closed(P, F)
    PROVE  Backed(RemoveAll(P, F), {o \in S : Creator[o] \notin F})
<1>1. RemoveAll(P, F).tx = P.tx \ F
  BY RemoveAllKeeps
<1> QED
  BY <1>1 DEF Backed, Closed

\* One round of the search in remove.
Spread(P, S) == S \cup {P.next[o] : o \in {x \in DOMAIN P.next : Creator[x] \in S}}

\* remove finds t and all that depends on it: the search adds a transaction in
\* every round or has come to its end, and there are Cardinality(Tx) of them.
LEMMA FamilyClosed ==
    ASSUME NEW P \in Pools, NEW t \in Tx
    PROVE  t \in Family(P, t) /\ Closed(P, Family(P, t))
<1> DEFINE N == Cardinality(Tx)
           X == SUBSET Tx
           step == [ix \in (1 .. N) \X X |-> Spread(P, ix[2])]
           Def(f) == f = [n \in 0 .. N |-> IF n = 0 THEN {t} ELSE Spread(P, f[n - 1])]
<1>1. N \in Nat
  BY FiniteAssumption, FS_CardinalityType
<1>2. \A S \in X : Spread(P, S) \in X
  BY PoolType DEF Spread
<1>3. \E f : Def(f)
  <2>1. step \in [(1 .. N) \X X -> X]
    <3> HIDE DEF X, N
    <3> QED
      BY <1>2
  <2>2. \A i \in 1 .. N, S \in X : step[<<i, S>>] = Spread(P, S)
    <3> HIDE DEF X, N
    <3> QED
      OBVIOUS
  <2>3. {t} \in X
    OBVIOUS
  <2> HIDE DEF step, X, N
  <2>4. PICK f : Iterates(f, N, X, {t}, step)
    BY <1>1, <2>1, <2>3, FiniteRecursion
  <2>5. ASSUME NEW i \in 1 .. N PROVE f[i] = Spread(P, f[i - 1])
    <3>1. i - 1 \in 0 .. N
      BY <1>1
    <3>2. f[i - 1] \in X
      BY <2>4, <3>1 DEF Iterates
    <3> QED
      BY <2>2, <2>4, <3>2 DEF Iterates
  <2>6. Def(f)
    <3>1. \A i \in 0 .. N : i = 0 \/ i \in 1 .. N
      BY <1>1
    <3>2. \A i \in 0 .. N : f[i] = IF i = 0 THEN {t} ELSE Spread(P, f[i - 1])
      BY <2>4, <2>5, <3>1 DEF Iterates
    <3> QED
      BY <2>4, <3>2 DEF Iterates
  <2> QED
    BY <2>6
<1> DEFINE reach == CHOOSE f : Def(f)
<1>4. Family(P, t) = reach[N]
  BY DEF Family, Spread
<1>5. Def(reach)
  <2> HIDE DEF Def
  <2> QED
    BY <1>3
<1> HIDE DEF reach, N
<1> DEFINE Fixed(S) == Spread(P, S) = S
           G(n) == /\ reach[n] \subseteq Tx /\ t \in reach[n]
                   /\ Fixed(reach[n]) \/ Cardinality(reach[n]) >= n + 1
           T == {n \in 0 .. N : G(n)}
<1>6. reach[0] = {t} /\ \A n \in 1 .. N : reach[n] = Spread(P, reach[n - 1])
  <2>1. 0 \in 0 .. N /\ \A n \in 1 .. N : n \in 0 .. N /\ n # 0
    BY <1>1
  <2>2. \A n \in 0 .. N : reach[n] = IF n = 0 THEN {t} ELSE Spread(P, reach[n - 1])
    BY <1>5
  <2> QED
    BY <2>1, <2>2
<1>7. 0 \in T
  <2>1. Cardinality({t}) = 1
    BY FS_Singleton
  <2> HIDE DEF Fixed
  <2> QED
    BY <1>1, <1>6, <2>1
<1>8. ASSUME NEW n \in 1 .. N, n - 1 \in T PROVE n \in T
  <2> DEFINE S == reach[n - 1]
             R == reach[n]
  <2>1. R = Spread(P, S) /\ S \subseteq Tx /\ t \in S
    BY <1>6, <1>8
  <2>2. S \subseteq R /\ R \subseteq Tx
    BY <1>2, <2>1 DEF Spread
  <2>3. Fixed(S) => Fixed(R)
    BY <2>1
  <2>4. ASSUME ~ Fixed(S) PROVE Cardinality(R) >= n + 1
    <3>1. S # R
      BY <2>1, <2>4
    <3>2. Cardinality(S) >= n
      <4>1. Fixed(S) \/ Cardinality(S) >= (n - 1) + 1
        BY <1>8
      <4> HIDE DEF Fixed, S
      <4> QED
        BY <1>1, <2>4, <4>1
    <3>3. IsFiniteSet(R)
      BY <2>2, FiniteAssumption, FS_Subset
    <3>4. /\ Cardinality(S) <= Cardinality(R)
          /\ Cardinality(R) = Cardinality(S) => R = S
      BY <2>2, <3>3, FS_Subset
    <3>5. Cardinality(R) \in Nat /\ Cardinality(S) \in Nat
      BY <2>2, <3>3, FS_Subset, FS_CardinalityType
    <3> HIDE DEF S, R
    <3> QED
      BY <1>1, <3>1, <3>2, <3>4, <3>5
  <2>5. G(n)
    <3> HIDE DEF Fixed
    <3> QED
      BY <2>1, <2>2, <2>3, <2>4
  <2> HIDE DEF G
  <2> QED
    BY <1>1, <2>5
<1>9. 0 .. N \subseteq T
  <2> HIDE DEF T
  <2> QED
    BY <1>1, <1>7, <1>8, UpToInduction
<1>10. G(N)
  BY <1>1, <1>9
<1>11. Fixed(reach[N])
  <2>1. Cardinality(reach[N]) <= N /\ Cardinality(reach[N]) \in Nat
    BY <1>10, FiniteAssumption, FS_Subset, FS_CardinalityType DEF N
  <2>2. ~ (Cardinality(reach[N]) >= N + 1)
    BY <1>1, <2>1
  <2> HIDE DEF Fixed
  <2> QED
    BY <1>10, <2>2
<1>12. Closed(P, reach[N])
  <2> SUFFICES ASSUME NEW s \in P.tx, NEW o \in Spends[s], Creator[o] \in reach[N]
               PROVE  s \in reach[N]
    BY DEF Closed
  <2>1. o \in DOMAIN P.next /\ P.next[o] = s
    BY PoolType
  <2>2. s \in Spread(P, reach[N])
    BY <2>1 DEF Spread
  <2> QED
    BY <1>11, <2>2
<1> QED
  BY <1>4, <1>10, <1>12

\* So is the union of several of them.
LEMMA FamiliesClosed ==
    ASSUME NEW P \in Pools, NEW S \in SUBSET Tx
    PROVE  /\ S \subseteq UNION {Family(P, t) : t \in S}
           /\ Closed(P, UNION {Family(P, t) : t \in S})
<1>1. \A t \in S : t \in Family(P, t) /\ Closed(P, Family(P, t))
  BY FamilyClosed
<1> QED
  BY <1>1 DEF Closed

------------------------------------------------------------------------------
(* The operations on the pool.                                              *)

\* What AcceptToMemoryPool has checked of a transaction it accepts.
LEMMA AcceptedMeans ==
    ASSUME NEW P, NEW ch, NEW t, NEW refuse, Verdict(P, ch, t, refuse) = "accepted"
    PROVE  /\ t \notin Reward /\ t \notin P.tx /\ Spends[t] \cap DOMAIN P.next = {}
           /\ CoinsOf(ch, t) = {}
           /\ \A u \in Parents(t) : HaveCoins(P, ch, u)
           /\ \A o \in Spends[t] : Creator[o] \in P.tx \/ (o \in Unspent(ch) /\ Mature(ch, o))
  BY DEF Verdict, IsLoose, HaveCoins, HaveInputs, InputsMature

\* addUnchecked of an accepted transaction.
LEMMA AddKeeps ==
    ASSUME NEW P \in Pools, NEW t \in Tx, t \notin Reward, t \notin P.tx,
           Spends[t] \cap DOMAIN P.next = {}
    PROVE  /\ Add(P, t) \in Pools
           /\ Add(P, t).tx = P.tx \cup {t}
           /\ DOMAIN Add(P, t).next = DOMAIN P.next \cup Spends[t]
<1> DEFINE tx == P.tx \cup {t}
           next == [o \in DOMAIN P.next \cup Spends[t] |->
                       IF o \in Spends[t] THEN t ELSE P.next[o]]
<1>1. Add(P, t) = [tx |-> tx, next |-> next]
  BY DEF Add
<1>2. tx \in SUBSET (Tx \ Reward)
  BY PoolType
<1>3. DOMAIN next = UNION {Spends[u] : u \in tx}
  BY PoolType
<1>4. next \in [DOMAIN next -> Tx]
  BY PoolType
<1>5. \A u \in tx : \A o \in Spends[u] : next[o] = u
  <2> SUFFICES ASSUME NEW u \in tx, NEW o \in Spends[u] PROVE next[o] = u
    OBVIOUS
  <2>1. CASE u = t
    BY <2>1
  <2>2. CASE u # t
    <3>1. o \in DOMAIN P.next /\ P.next[o] = u
      BY <2>2, PoolType
    <3> QED
      BY <3>1
  <2> QED
    BY <2>1, <2>2
<1>6. DOMAIN next = DOMAIN P.next \cup Spends[t]
  OBVIOUS
<1> HIDE DEF tx, next
<1>7. [tx |-> tx, next |-> next] \in Pools
  BY <1>2, <1>3, <1>4, <1>5, PoolIntro
<1> QED
  BY <1>1, <1>6, <1>7 DEF tx

\* A chain and a pool that AcceptToMemoryPool may add to.
LEMMA AcceptKeeps ==
    ASSUME NEW P \in Pools, NEW ch, NEW t \in Tx, NEW refuse,
           Verdict(P, ch, t, refuse) = "accepted",
           NEW S, {o \in Unspent(ch) : Mature(ch, o)} \subseteq S, Backed(P, S)
    PROVE  /\ Add(P, t) \in Pools
           /\ Add(P, t).tx = P.tx \cup {t}
           /\ Backed(Add(P, t), {o \in S : Creator[o] # t})
<1>1. /\ t \notin Reward /\ t \notin P.tx /\ Spends[t] \cap DOMAIN P.next = {}
      /\ \A o \in Spends[t] : Creator[o] \in P.tx \/ (o \in Unspent(ch) /\ Mature(ch, o))
  BY AcceptedMeans
<1>2. Add(P, t) \in Pools /\ Add(P, t).tx = P.tx \cup {t}
  BY <1>1, AddKeeps
<1>3. Backed(Add(P, t), {o \in S : Creator[o] # t})
  BY <1>1, <1>2 DEF Backed
<1> QED
  BY <1>2, <1>3

\* A larger set backs as well.
LEMMA BackedMore ==
    ASSUME NEW P, NEW S, NEW U, Backed(P, S),
           \A t \in P.tx : \A o \in Spends[t] : o \in S => o \in U
    PROVE  Backed(P, U)
  BY DEF Backed

------------------------------------------------------------------------------
(* The chain.                                                               *)

\* No transaction is in two blocks, and none comes before those it spends from.
ChainOK(ch) ==
    /\ \A i, j \in DOMAIN ch : \A t \in Ran(ch[i]) : t \in Ran(ch[j]) => i = j
    /\ \A i \in DOMAIN ch : \A t \in Ran(ch[i]) : \A o \in Spends[t] :
           \E j \in 1 .. i : Creator[o] \in Ran(ch[j])

\* What is spent on a chain was created on it.
LEMMA ChainClosed ==
    ASSUME NEW ch, DOMAIN ch = 1 .. Len(ch), Len(ch) \in Nat, ChainOK(ch),
           NEW t \in ChainTx(ch), NEW o \in Spends[t]
    PROVE  Creator[o] \in ChainTx(ch)
<1>1. PICK i \in DOMAIN ch : t \in Ran(ch[i])
  BY DEF ChainTx
<1>2. PICK j \in 1 .. i : Creator[o] \in Ran(ch[j])
  BY <1>1 DEF ChainOK
<1>3. j \in DOMAIN ch
  BY <1>1, <1>2
<1> QED
  BY <1>2, <1>3 DEF ChainTx

\* A transaction of the chain is not accepted again, even when all its outputs
\* are spent and HaveCoins does not find it: its inputs are spent.
LEMMA AcceptedNotInChain ==
    ASSUME NEW P, NEW ch, DOMAIN ch = 1 .. Len(ch), Len(ch) \in Nat, ChainOK(ch),
           P.tx \cap ChainTx(ch) = {},
           NEW t \in Tx, NEW refuse, Verdict(P, ch, t, refuse) = "accepted"
    PROVE  t \notin ChainTx(ch)
<1> SUFFICES ASSUME t \in ChainTx(ch) PROVE FALSE
  OBVIOUS
<1>1. t \in Tx \ Reward
  BY AcceptedMeans
<1>2. PICK o \in Spends[t] : TRUE
  BY <1>1, InputsAssumption
<1>3. Creator[o] \in ChainTx(ch)
  BY <1>2, ChainClosed
<1>4. Creator[o] \notin P.tx
  BY <1>3
<1>5. o \in Unspent(ch)
  BY <1>2, <1>4, AcceptedMeans
<1>6. o \in SpentIn(ch)
  BY <1>2 DEF SpentIn
<1> QED
  BY <1>5, <1>6 DEF Unspent

\* The loop of DisconnectTip over the block it has taken off the chain: what
\* spends an output of the block finds it in the pool, or goes.
LEMMA ResurrectKeeps ==
    ASSUME NEW P \in Pools, NEW ch, DOMAIN ch = 1 .. Len(ch), Len(ch) \in Nat, ChainOK(ch),
           P.tx \cap ChainTx(ch) = {},
           NEW block \in Seq(Tx), NEW refuse,
           Backed(P, Unspent(ch) \cup {o \in Outpoint : Creator[o] \in Ran(block)})
    PROVE  /\ Resurrect(P, ch, block, refuse) \in Pools
           /\ Resurrect(P, ch, block, refuse).tx \cap ChainTx(ch) = {}
           /\ Backed(Resurrect(P, ch, block, refuse), Unspent(ch))
<1> DEFINE N == Len(block)
           X == {Q \in Pools : Q.tx \cap ChainTx(ch) = {}}
           next(Q, i) == IF Verdict(Q, ch, block[i], refuse) = "accepted"
                         THEN Add(Q, block[i])
                         ELSE RemoveRecursive(Q, block[i])
           step == [ix \in (1 .. N) \X X |-> next(ix[2], ix[1])]
           Def(f) == f = [i \in 0 .. N |-> IF i = 0 THEN P ELSE next(f[i - 1], i)]
           Back(i) == Unspent(ch) \cup
                          {o \in Outpoint : \E k \in (i + 1) .. N : Creator[o] = block[k]}
<1>1. N \in Nat /\ \A i \in 1 .. N : block[i] \in Tx
  OBVIOUS
<1>2. ASSUME NEW Q \in X, NEW i \in 1 .. N
      PROVE  /\ next(Q, i) \in X
             /\ Backed(Q, Back(i - 1)) => Backed(next(Q, i), Back(i))
  <2>1. Q \in Pools /\ Q.tx \cap ChainTx(ch) = {} /\ block[i] \in Tx
    BY <1>1
  <2>2. \A o \in Outpoint : o \in Back(i - 1) /\ Creator[o] # block[i] => o \in Back(i)
    <3> SUFFICES ASSUME NEW o \in Outpoint, o \in Back(i - 1), Creator[o] # block[i],
                        o \notin Unspent(ch)
                 PROVE  o \in Back(i)
      OBVIOUS
    <3>1. PICK k \in (i - 1 + 1) .. N : Creator[o] = block[k]
      OBVIOUS
    <3>2. k \in (i + 1) .. N
      BY <1>1, <3>1
    <3> QED
      BY <3>1, <3>2
  <2>3. CASE Verdict(Q, ch, block[i], refuse) = "accepted"
    <3>1. next(Q, i) = Add(Q, block[i])
      BY <2>3
    <3>2. {o \in Unspent(ch) : Mature(ch, o)} \subseteq Back(i - 1)
      OBVIOUS
    <3> HIDE DEF next, Back
    <3>3. Add(Q, block[i]) \in Pools /\ Add(Q, block[i]).tx = Q.tx \cup {block[i]}
      <4>1. /\ block[i] \notin Reward /\ block[i] \notin Q.tx
            /\ Spends[block[i]] \cap DOMAIN Q.next = {}
        BY <2>3, AcceptedMeans
      <4> QED
        BY <2>1, <4>1, AddKeeps
    <3>4. block[i] \notin ChainTx(ch)
      BY <2>1, <2>3, AcceptedNotInChain
    <3>5. ASSUME Backed(Q, Back(i - 1)) PROVE Backed(Add(Q, block[i]), Back(i))
      <4>1. Backed(Add(Q, block[i]), {o \in Back(i - 1) : Creator[o] # block[i]})
        BY <2>1, <2>3, <3>2, <3>5, AcceptKeeps
      <4>2. \A t \in Add(Q, block[i]).tx : t \in Tx /\ Spends[t] \subseteq Outpoint
        BY <3>3, PoolType, SpendsAssumption
      <4> QED
        BY <2>2, <4>1, <4>2 DEF Backed
    <3> QED
      BY <2>1, <3>1, <3>3, <3>4, <3>5
  <2>4. CASE Verdict(Q, ch, block[i], refuse) # "accepted"
    <3> DEFINE F == Family(Q, block[i])
    <3>1. next(Q, i) = RemoveAll(Q, F)
      BY <2>4 DEF RemoveRecursive
    <3>2. block[i] \in F /\ Closed(Q, F)
      BY <2>1, FamilyClosed
    <3> HIDE DEF next, Back, F
    <3>3. RemoveAll(Q, F) \in Pools /\ RemoveAll(Q, F).tx = Q.tx \ F
      BY <2>1, RemoveAllKeeps
    <3>4. ASSUME Backed(Q, Back(i - 1)) PROVE Backed(RemoveAll(Q, F), Back(i))
      <4>1. Backed(RemoveAll(Q, F), {o \in Back(i - 1) : Creator[o] \notin F})
        BY <2>1, <3>2, <3>4, RemoveClosed
      <4>2. \A t \in RemoveAll(Q, F).tx : t \in Tx /\ Spends[t] \subseteq Outpoint
        BY <3>3, PoolType, SpendsAssumption
      <4> QED
        BY <2>2, <3>2, <4>1, <4>2 DEF Backed
    <3> QED
      BY <2>1, <3>1, <3>3, <3>4
  <2> QED
    BY <2>3, <2>4
<1>3. \E f : Def(f)
  <2>1. step \in [(1 .. N) \X X -> X]
    <3> HIDE DEF next, X, N
    <3> QED
      BY <1>2
  <2>2. \A i \in 1 .. N, Q \in X : step[<<i, Q>>] = next(Q, i)
    <3> HIDE DEF next, X, N
    <3> QED
      OBVIOUS
  <2>3. P \in X
    OBVIOUS
  <2> HIDE DEF step, next, X, N
  <2>4. PICK f : Iterates(f, N, X, P, step)
    BY <1>1, <2>1, <2>3, FiniteRecursion
  <2>5. ASSUME NEW i \in 1 .. N PROVE f[i] = next(f[i - 1], i)
    <3>1. i - 1 \in 0 .. N
      BY <1>1
    <3>2. f[i - 1] \in X
      BY <2>4, <3>1 DEF Iterates
    <3> QED
      BY <2>2, <2>4, <3>2 DEF Iterates
  <2>6. Def(f)
    <3>1. \A i \in 0 .. N : i = 0 \/ i \in 1 .. N
      BY <1>1
    <3>2. \A i \in 0 .. N : f[i] = IF i = 0 THEN P ELSE next(f[i - 1], i)
      BY <2>4, <2>5, <3>1 DEF Iterates
    <3> QED
      BY <2>4, <3>2 DEF Iterates
  <2> QED
    BY <2>6
<1> DEFINE after == CHOOSE f : Def(f)
<1>4. Resurrect(P, ch, block, refuse) = after[N]
  BY DEF Resurrect
<1>5. Def(after)
  <2> HIDE DEF Def
  <2> QED
    BY <1>3
<1> HIDE DEF after, next
<1>6. after[0] = P /\ \A i \in 1 .. N : after[i] = next(after[i - 1], i)
  <2>1. 0 \in 0 .. N /\ \A i \in 1 .. N : i \in 0 .. N /\ i # 0
    BY <1>1
  <2>2. \A i \in 0 .. N : after[i] = IF i = 0 THEN P ELSE next(after[i - 1], i)
    <3> HIDE DEF N
    <3> QED
      BY <1>5
  <2> QED
    BY <2>1, <2>2
<1>7. Backed(P, Back(0))
  <2>1. \A o \in Outpoint : Creator[o] \in Ran(block) => o \in Back(0)
    BY <1>1 DEF Ran
  <2> HIDE DEF Back
  <2>2. Unspent(ch) \subseteq Back(0)
    BY DEF Back
  <2> QED
    BY <2>1, <2>2 DEF Backed
<1> HIDE DEF Back
<1> DEFINE T == {i \in 0 .. N : after[i] \in X /\ Backed(after[i], Back(i))}
<1>8. 0 \in T
  BY <1>1, <1>6, <1>7
<1>9. ASSUME NEW i \in 1 .. N, i - 1 \in T PROVE i \in T
  <2>1. after[i - 1] \in X /\ Backed(after[i - 1], Back(i - 1))
    BY <1>9
  <2>2. after[i] = next(after[i - 1], i)
    BY <1>6
  <2>3. after[i] \in X /\ Backed(after[i], Back(i))
    <3> HIDE DEF X
    <3> QED
      BY <1>2, <2>1, <2>2
  <2> QED
    BY <1>1, <2>3
<1>10. 0 .. N \subseteq T
  <2> HIDE DEF T
  <2> QED
    BY <1>1, <1>8, <1>9, UpToInduction
<1>11. N \in T
  BY <1>1, <1>10
<1>12. after[N] \in Pools /\ after[N].tx \cap ChainTx(ch) = {} /\ Backed(after[N], Back(N))
  BY <1>11
<1>13. Back(N) = Unspent(ch)
  BY <1>1 DEF Back
<1> HIDE DEF N
<1> QED
  BY <1>4, <1>12, <1>13

\* removeCoinbaseSpends leaves only transactions the next block may have.
LEMMA CoinbaseSpendsKeeps ==
    ASSUME NEW P \in Pools, NEW ch, Backed(P, Unspent(ch))
    PROVE  /\ RemoveCoinbaseSpends(P, ch) \in Pools
           /\ RemoveCoinbaseSpends(P, ch).tx \subseteq P.tx
           /\ Backed(RemoveCoinbaseSpends(P, ch), {o \in Unspent(ch) : Mature(ch, o)})
<1> DEFINE spends == {t \in P.tx : \E o \in Spends[t] :
                         /\ Creator[o] \notin P.tx
                         /\ CoinsOf(ch, Creator[o]) = {} \/ ~ Mature(ch, o)}
           F == UNION {Family(P, t) : t \in spends}
           R == RemoveAll(P, F)
<1>1. RemoveCoinbaseSpends(P, ch) = R
  BY DEF RemoveCoinbaseSpends
<1>2. spends \in SUBSET Tx
  BY PoolType
<1>3. spends \subseteq F /\ Closed(P, F)
  <2> HIDE DEF spends
  <2> QED
    BY <1>2, FamiliesClosed
<1>4. R \in Pools /\ R.tx = P.tx \ F
  <2> HIDE DEF F
  <2> QED
    BY RemoveAllKeeps
<1>5. Backed(R, {o \in Unspent(ch) : Mature(ch, o)})
  <2> SUFFICES ASSUME NEW t \in R.tx, NEW o \in Spends[t], Creator[o] \notin R.tx
               PROVE  o \in Unspent(ch) /\ Mature(ch, o)
    BY DEF Backed
  <2>1. t \in P.tx /\ t \notin F /\ t \notin spends
    BY <1>3, <1>4
  <2>2. Creator[o] \notin F
    BY <1>3, <2>1 DEF Closed
  <2>3. Creator[o] \notin P.tx
    BY <1>4, <2>2
  <2>4. o \in Unspent(ch)
    BY <2>1, <2>3 DEF Backed
  <2>5. Mature(ch, o)
    BY <2>1, <2>3
  <2> QED
    BY <2>4, <2>5
<1> HIDE DEF R
<1> QED
  BY <1>1, <1>4, <1>5

\* The loop of removeForBlock for one transaction b of a block.
ForTx(P, b) == RemoveConflicts(RemoveAll(P, {b}), b)

\* b leaves the pool; its outputs stay good, and what spends the same goes.
LEMMA ForTxKeeps ==
    ASSUME NEW P \in Pools, NEW b \in Tx, NEW S, Backed(P, S)
    PROVE  /\ ForTx(P, b) \in Pools
           /\ ForTx(P, b).tx \subseteq P.tx \ {b}
           /\ \A t \in ForTx(P, b).tx : Spends[t] \cap Spends[b] = {}
           /\ Backed(ForTx(P, b), S \cup {o \in Outpoint : Creator[o] = b /\ b \notin Reward})
<1> DEFINE Q == RemoveAll(P, {b})
           conflicts == {Q.next[o] : o \in Spends[b] \cap DOMAIN Q.next} \ {b}
           F == UNION {Family(Q, u) : u \in conflicts}
           R == RemoveAll(Q, F)
           U == S \cup {o \in Outpoint : Creator[o] = b /\ b \notin Reward}
<1>1. ForTx(P, b) = R
  BY DEF ForTx, RemoveConflicts
<1>2. Q \in Pools /\ Q.tx = P.tx \ {b}
  BY RemoveAllKeeps
<1>3. Backed(Q, U)
  <2> SUFFICES ASSUME NEW t \in Q.tx, NEW o \in Spends[t], Creator[o] \notin Q.tx
               PROVE  o \in U
    <3> HIDE DEF Q, U
    <3> QED
      BY DEF Backed
  <2>1. t \in P.tx /\ o \in Outpoint
    BY <1>2, PoolType, SpendsAssumption
  <2>2. CASE Creator[o] \in P.tx
    <3>1. Creator[o] = b
      <4> HIDE DEF Q
      <4> QED
        BY <1>2, <2>2
    <3>2. b \notin Reward
      BY <2>2, <3>1, PoolType
    <3> QED
      BY <2>1, <3>1, <3>2
  <2>3. CASE Creator[o] \notin P.tx
    BY <2>1, <2>3 DEF Backed
  <2> QED
    BY <2>2, <2>3
<1> HIDE DEF Q, U
<1>4. conflicts \in SUBSET Tx
  BY <1>2, PoolType
<1>5. conflicts \subseteq F /\ Closed(Q, F)
  <2> HIDE DEF conflicts
  <2> QED
    BY <1>2, <1>4, FamiliesClosed
<1>6. \A t \in Q.tx : Spends[t] \cap Spends[b] # {} => t \in conflicts
  <2> SUFFICES ASSUME NEW t \in Q.tx, NEW o \in Spends[t], o \in Spends[b]
               PROVE  t \in conflicts
    OBVIOUS
  <2>1. o \in DOMAIN Q.next /\ Q.next[o] = t
    BY <1>2, PoolType
  <2>2. t # b
    BY <1>2
  <2> QED
    BY <2>1, <2>2
<1> HIDE DEF F, conflicts
<1>7. R \in Pools /\ R.tx = Q.tx \ F
  BY <1>2, RemoveAllKeeps
<1>8. Backed(R, {o \in U : Creator[o] \notin F})
  BY <1>2, <1>3, <1>5, RemoveClosed
<1> HIDE DEF R
<1>9. Backed(R, U)
  BY <1>8, BackedMore
<1>10. \A t \in R.tx : Spends[t] \cap Spends[b] = {}
  BY <1>5, <1>6, <1>7
<1> QED
  BY <1>1, <1>2, <1>7, <1>9, <1>10 DEF U

\* What is left of a pool P, backed by S, after a block.
AfterBlock(R, P, block, S) ==
    /\ R \in Pools
    /\ R.tx \subseteq P.tx \ Ran(block)
    /\ \A t \in R.tx, u \in Ran(block) : Spends[t] \cap Spends[u] = {}
    /\ Backed(R, S \cup {o \in Outpoint : Creator[o] \in Ran(block) \ Reward})

\* removeForBlock.
LEMMA ForBlockKeeps ==
    ASSUME NEW P \in Pools, NEW block \in Seq(Tx), NEW S, Backed(P, S)
    PROVE  AfterBlock(RemoveForBlock(P, block), P, block, S)
<1> DEFINE N == Len(block)
           X == Pools
           next(Q, i) == RemoveConflicts(RemoveAll(Q, {block[i]}), block[i])
           step == [ix \in (1 .. N) \X X |-> next(ix[2], ix[1])]
           Def(f) == f = [i \in 0 .. N |-> IF i = 0 THEN P ELSE next(f[i - 1], i)]
           Done(i) == {block[k] : k \in 1 .. i}
           Back(i) == S \cup {o \in Outpoint : Creator[o] \in Done(i) \ Reward}
           G(Q, i) == /\ Q.tx \subseteq P.tx \ Done(i)
                      /\ \A t \in Q.tx, u \in Done(i) : Spends[t] \cap Spends[u] = {}
                      /\ Backed(Q, Back(i))
<1>1. N \in Nat /\ \A i \in 1 .. N : block[i] \in Tx
  OBVIOUS
<1>2. ASSUME NEW Q \in X, NEW i \in 1 .. N
      PROVE  next(Q, i) \in X
  <2>1. next(Q, i) = ForTx(Q, block[i])
    BY DEF ForTx
  <2>2. Backed(Q, Outpoint)
    BY PoolType, SpendsAssumption DEF Backed
  <2>3. Q \in Pools /\ block[i] \in Tx
    BY <1>1
  <2> HIDE DEF next, N, X, Done, Back, G
  <2>4. ForTx(Q, block[i]) \in Pools
    BY <2>2, <2>3, ForTxKeeps
  <2> QED
    BY <2>1, <2>4 DEF X
<1>3. ASSUME NEW Q \in X, NEW i \in 1 .. N, G(Q, i - 1)
      PROVE  G(next(Q, i), i)
  <2> DEFINE R == ForTx(Q, block[i])
             U == Back(i - 1) \cup {o \in Outpoint : Creator[o] = block[i] /\ block[i] \notin Reward}
  <2>1. next(Q, i) = R
    BY DEF ForTx
  <2>2. Done(i) = Done(i - 1) \cup {block[i]}
    <3>1. 1 .. i = 1 .. (i - 1) \cup {i}
      BY <1>1
    <3> QED
      BY <3>1
  <2>3. /\ R \in Pools
        /\ R.tx \subseteq Q.tx \ {block[i]}
        /\ \A t \in R.tx : Spends[t] \cap Spends[block[i]] = {}
        /\ Backed(R, U)
    <3>1. Backed(Q, Back(i - 1))
      BY <1>3
    <3> HIDE DEF Back, next, G, N
    <3> QED
      BY <1>1, <3>1, ForTxKeeps
  <2>4. U = Back(i)
    <3> HIDE DEF Done
    <3> QED
      BY <2>2
  <2>5. /\ Q.tx \subseteq P.tx \ Done(i - 1)
        /\ \A t \in Q.tx, u \in Done(i - 1) : Spends[t] \cap Spends[u] = {}
    BY <1>3
  <2> HIDE DEF Done, Back, R, U
  <2>6. R.tx \subseteq P.tx \ Done(i)
    BY <2>2, <2>3, <2>5
  <2>7. \A t \in R.tx, u \in Done(i) : Spends[t] \cap Spends[u] = {}
    BY <2>2, <2>3, <2>5
  <2>8. Backed(R, Back(i))
    BY <2>3, <2>4
  <2> QED
    BY <2>1, <2>6, <2>7, <2>8
<1>4. \E f : Def(f)
  <2>1. step \in [(1 .. N) \X X -> X]
    <3> HIDE DEF next, X, N
    <3> QED
      BY <1>2
  <2>2. \A i \in 1 .. N, Q \in X : step[<<i, Q>>] = next(Q, i)
    <3> HIDE DEF next, X, N
    <3> QED
      OBVIOUS
  <2>3. P \in X
    OBVIOUS
  <2> HIDE DEF step, next, X, N
  <2>4. PICK f : Iterates(f, N, X, P, step)
    BY <1>1, <2>1, <2>3, FiniteRecursion
  <2>5. ASSUME NEW i \in 1 .. N PROVE f[i] = next(f[i - 1], i)
    <3>1. i - 1 \in 0 .. N
      BY <1>1
    <3>2. f[i - 1] \in X
      BY <2>4, <3>1 DEF Iterates
    <3> QED
      BY <2>2, <2>4, <3>2 DEF Iterates
  <2>6. Def(f)
    <3>1. \A i \in 0 .. N : i = 0 \/ i \in 1 .. N
      BY <1>1
    <3>2. \A i \in 0 .. N : f[i] = IF i = 0 THEN P ELSE next(f[i - 1], i)
      BY <2>4, <2>5, <3>1 DEF Iterates
    <3> QED
      BY <2>4, <3>2 DEF Iterates
  <2> QED
    BY <2>6
<1> DEFINE after == CHOOSE f : Def(f)
<1>5. RemoveForBlock(P, block) = after[N]
  BY DEF RemoveForBlock
<1>6. Def(after)
  <2> HIDE DEF Def
  <2> QED
    BY <1>4
<1> HIDE DEF after, next
<1>7. after[0] = P /\ \A i \in 1 .. N : after[i] = next(after[i - 1], i)
  <2>1. 0 \in 0 .. N /\ \A i \in 1 .. N : i \in 0 .. N /\ i # 0
    BY <1>1
  <2>2. \A i \in 0 .. N : after[i] = IF i = 0 THEN P ELSE next(after[i - 1], i)
    <3> HIDE DEF N
    <3> QED
      BY <1>6
  <2> QED
    BY <2>1, <2>2
<1>8. G(P, 0)
  <2>1. Done(0) = {}
    OBVIOUS
  <2> HIDE DEF Done
  <2>2. Back(0) = S
    BY <2>1
  <2> HIDE DEF Back
  <2> QED
    BY <2>1, <2>2
<1> HIDE DEF G
<1> DEFINE T == {i \in 0 .. N : after[i] \in X /\ G(after[i], i)}
<1>9. 0 \in T
  BY <1>1, <1>7, <1>8
<1>10. ASSUME NEW i \in 1 .. N, i - 1 \in T PROVE i \in T
  <2>1. after[i - 1] \in X /\ G(after[i - 1], i - 1)
    BY <1>10
  <2>2. after[i] = next(after[i - 1], i)
    BY <1>7
  <2>3. after[i] \in X /\ G(after[i], i)
    <3> HIDE DEF X
    <3> QED
      BY <1>2, <1>3, <2>1, <2>2
  <2> QED
    BY <1>1, <2>3
<1>11. 0 .. N \subseteq T
  <2> HIDE DEF T
  <2> QED
    BY <1>1, <1>9, <1>10, UpToInduction
<1>12. after[N] \in Pools /\ G(after[N], N)
  BY <1>1, <1>11
<1>13. Done(N) = Ran(block)
  BY <1>1 DEF Ran
<1> HIDE DEF N, Done
<1>14. Back(N) = S \cup {o \in Outpoint : Creator[o] \in Ran(block) \ Reward}
  BY <1>13
<1> HIDE DEF Back
<1> QED
  BY <1>5, <1>12, <1>13, <1>14 DEF G, AfterBlock

------------------------------------------------------------------------------
(* The chain grows and shrinks.                                             *)

\* The one block a transaction is in.
LEMMA HeightIs ==
    ASSUME NEW ch, ChainOK(ch), NEW i \in DOMAIN ch, NEW t \in Ran(ch[i])
    PROVE  HeightOf(ch, t) = i
<1> DEFINE In(j) == j \in DOMAIN ch /\ t \in Ran(ch[j])
<1>1. In(i)
  OBVIOUS
<1>2. In(CHOOSE j : In(j))
  <2> HIDE DEF In
  <2> QED
    BY <1>1
<1>3. HeightOf(ch, t) = CHOOSE j : In(j)
  BY DEF HeightOf
<1> DEFINE h == HeightOf(ch, t)
<1>4. h \in DOMAIN ch /\ t \in Ran(ch[h])
  BY <1>2, <1>3
<1> HIDE DEF h
<1>5. h = i
  BY <1>4 DEF ChainOK
<1> QED
  BY <1>5 DEF h

\* Appending a block.
LEMMA Appended ==
    ASSUME NEW ch \in Seq(Seq(Tx)), NEW block \in Seq(Tx)
    PROVE  LET new == Append(ch, block) IN
           /\ new \in Seq(Seq(Tx)) /\ Len(new) = Len(ch) + 1
           /\ DOMAIN ch = 1 .. Len(ch) /\ DOMAIN new = 1 .. Len(ch) + 1 /\ Len(ch) \in Nat
           /\ \A i \in DOMAIN ch : new[i] = ch[i]
           /\ new[Len(ch) + 1] = block
           /\ ChainTx(new) = ChainTx(ch) \cup Ran(block)
           /\ SpentIn(new) = SpentIn(ch) \cup UNION {Spends[t] : t \in Ran(block)}
<1> DEFINE new == Append(ch, block)
<1>1. /\ new \in Seq(Seq(Tx)) /\ Len(new) = Len(ch) + 1
      /\ DOMAIN ch = 1 .. Len(ch) /\ DOMAIN new = 1 .. Len(ch) + 1 /\ Len(ch) \in Nat
      /\ \A i \in DOMAIN ch : new[i] = ch[i]
      /\ new[Len(ch) + 1] = block
  OBVIOUS
<1> HIDE DEF new
<1>2. ChainTx(new) = ChainTx(ch) \cup Ran(block)
  <2>1. DOMAIN new = DOMAIN ch \cup {Len(ch) + 1}
    BY <1>1
  <2>2. ASSUME NEW t \in ChainTx(new) PROVE t \in ChainTx(ch) \cup Ran(block)
    <3>1. PICK i \in DOMAIN new : t \in Ran(new[i])
      BY DEF ChainTx
    <3> QED
      BY <1>1, <2>1, <3>1 DEF ChainTx
  <2>3. ASSUME NEW t \in ChainTx(ch) PROVE t \in ChainTx(new)
    <3>1. PICK i \in DOMAIN ch : t \in Ran(ch[i])
      BY DEF ChainTx
    <3>2. i \in DOMAIN new /\ new[i] = ch[i]
      BY <1>1, <2>1
    <3> QED
      BY <3>1, <3>2 DEF ChainTx
  <2>4. ASSUME NEW t \in Ran(block) PROVE t \in ChainTx(new)
    BY <1>1, <2>1 DEF ChainTx
  <2> QED
    BY <2>2, <2>3, <2>4
<1>3. SpentIn(new) = SpentIn(ch) \cup UNION {Spends[t] : t \in Ran(block)}
  BY <1>2 DEF SpentIn
<1> QED
  BY <1>1, <1>2, <1>3 DEF new

\* A block that can follow keeps the chain well formed.
LEMMA ConnectedChainOK ==
    ASSUME chain \in Seq(Seq(Tx)), ChainOK(chain), NEW block \in Seq(Tx), Connectable(block)
    PROVE  ChainOK(Append(chain, block))
<1> DEFINE new == Append(chain, block)
           n == Len(chain) + 1
<1>1. /\ DOMAIN chain = 1 .. Len(chain) /\ DOMAIN new = 1 .. n /\ Len(chain) \in Nat
      /\ \A i \in DOMAIN chain : new[i] = chain[i]
      /\ new[n] = block
  BY Appended
<1> HIDE DEF new
<1>2. \A i \in DOMAIN new : i \in DOMAIN chain \/ i = n
  BY <1>1
<1>3. \A i \in DOMAIN chain, t \in Ran(block) : t \notin Ran(chain[i])
  BY DEF Connectable, ChainTx
<1>4. ASSUME NEW i \in DOMAIN new, NEW j \in DOMAIN new, NEW t \in Ran(new[i]), t \in Ran(new[j])
      PROVE  i = j
  <2>1. CASE i \in DOMAIN chain /\ j \in DOMAIN chain
    BY <1>1, <1>4, <2>1 DEF ChainOK
  <2>2. CASE i \in DOMAIN chain /\ j = n
    BY <1>1, <1>3, <1>4, <2>2
  <2>3. CASE i = n /\ j \in DOMAIN chain
    BY <1>1, <1>3, <1>4, <2>3
  <2> QED
    BY <1>2, <2>1, <2>2, <2>3
<1>5. ASSUME NEW i \in DOMAIN new, NEW t \in Ran(new[i]), NEW o \in Spends[t]
      PROVE  \E j \in 1 .. i : Creator[o] \in Ran(new[j])
  <2>1. CASE i \in DOMAIN chain
    <3>1. PICK j \in 1 .. i : Creator[o] \in Ran(chain[j])
      BY <1>1, <2>1 DEF ChainOK
    <3>2. j \in DOMAIN chain
      BY <1>1, <2>1
    <3> QED
      BY <1>1, <3>1, <3>2
  <2>2. CASE i = n
    <3>1. PICK k \in DOMAIN block : t = block[k]
      BY <1>1, <2>2 DEF Ran
    <3>2. CASE o \in Unspent(chain)
      <4>1. Creator[o] \in ChainTx(chain)
        BY <3>2 DEF Unspent
      <4>2. PICK j \in DOMAIN chain : Creator[o] \in Ran(chain[j])
        BY <4>1 DEF ChainTx
      <4>3. j \in 1 .. i /\ new[j] = chain[j]
        BY <1>1, <2>2, <4>2
      <4> QED
        BY <4>2, <4>3
    <3>3. CASE \E j \in 1 .. k - 1 : Creator[o] = block[j]
      <4>1. PICK j \in 1 .. k - 1 : Creator[o] = block[j]
        BY <3>3
      <4>2. j \in DOMAIN block
        BY <3>1, <4>1
      <4>3. Creator[o] \in Ran(new[n]) /\ n \in 1 .. i
        BY <1>1, <2>2, <4>1, <4>2 DEF Ran
      <4> QED
        BY <4>3
    <3> QED
      BY <3>1, <3>2, <3>3 DEF Connectable
  <2> QED
    BY <1>2, <2>1, <2>2
<1> QED
  BY <1>4, <1>5 DEF ChainOK, new

\* What may be spent after the block: the outputs that could be before and those
\* of the block that are not of a coinbase or coinstake, if the block does not
\* spend them.
LEMMA StillSpendable ==
    ASSUME chain \in Seq(Seq(Tx)), ChainOK(chain), NEW block \in Seq(Tx), Connectable(block),
           NEW o \in Outpoint, \A t \in Ran(block) : o \notin Spends[t],
           \/ o \in Unspent(chain) /\ Mature(chain, o)
           \/ Creator[o] \in Ran(block) \ Reward
    PROVE  o \in Unspent(Append(chain, block)) /\ Mature(Append(chain, block), o)
<1> DEFINE new == Append(chain, block)
           c == Creator[o]
<1>1. /\ Len(new) = Len(chain) + 1
      /\ DOMAIN chain = 1 .. Len(chain) /\ DOMAIN new = 1 .. Len(chain) + 1 /\ Len(chain) \in Nat
      /\ \A i \in DOMAIN chain : new[i] = chain[i]
      /\ new[Len(chain) + 1] = block
      /\ ChainTx(new) = ChainTx(chain) \cup Ran(block)
      /\ SpentIn(new) = SpentIn(chain) \cup UNION {Spends[t] : t \in Ran(block)}
  BY Appended
<1>2. ChainOK(new)
  BY ConnectedChainOK
<1> HIDE DEF new
<1>3. CASE o \in Unspent(chain) /\ Mature(chain, o)
  <2>1. c \in ChainTx(chain) /\ o \notin SpentIn(chain)
    BY <1>3 DEF Unspent
  <2>2. o \in Unspent(new)
    BY <1>1, <2>1 DEF Unspent
  <2>3. PICK i \in DOMAIN chain : c \in Ran(chain[i])
    BY <2>1 DEF ChainTx
  <2>4. HeightOf(chain, c) = i
    BY <2>3, HeightIs
  <2>5. i \in DOMAIN new /\ c \in Ran(new[i])
    BY <1>1, <2>3
  <2>6. HeightOf(new, c) = i
    BY <1>2, <2>5, HeightIs
  <2>7. Mature(new, o)
    <3>1. c \in Reward => Len(chain) + 1 - i >= Maturity
      BY <1>3, <2>4 DEF Mature
    <3>2. i \in Int /\ Maturity \in Int
      BY <1>1, BoundsAssumption
    <3>3. c \in Reward => Len(new) + 1 - i >= Maturity
      BY <1>1, <3>1, <3>2
    <3> QED
      BY <2>6, <3>3 DEF Mature
  <2> QED
    BY <2>2, <2>7 DEF new
<1>4. CASE c \in Ran(block) \ Reward
  <2>1. c \notin ChainTx(chain)
    BY <1>4 DEF Connectable
  <2>2. o \notin SpentIn(chain)
    <3> SUFFICES ASSUME o \in SpentIn(chain) PROVE FALSE
      OBVIOUS
    <3>1. PICK t \in ChainTx(chain) : o \in Spends[t]
      BY DEF SpentIn
    <3>2. c \in ChainTx(chain)
      BY <1>1, <3>1, ChainClosed
    <3> QED
      BY <2>1, <3>2
  <2>3. o \in Unspent(new)
    BY <1>1, <1>4, <2>2 DEF Unspent
  <2>4. Mature(new, o)
    BY <1>4 DEF Mature
  <2> QED
    BY <2>3, <2>4 DEF new
<1> QED
  BY <1>3, <1>4

\* Taking the last block off.
LEMMA Shortened ==
    ASSUME NEW ch \in Seq(Seq(Tx)), Len(ch) > 1, ChainOK(ch)
    PROVE  LET rest == SubSeq(ch, 1, Len(ch) - 1)
               block == ch[Len(ch)]
           IN
           /\ rest \in Seq(Seq(Tx)) /\ Len(rest) = Len(ch) - 1 /\ block \in Seq(Tx)
           /\ DOMAIN rest = 1 .. Len(rest) /\ Len(rest) \in Nat
           /\ ChainOK(rest)
           /\ ChainTx(rest) \subseteq ChainTx(ch)
           /\ Unspent(ch) \subseteq Unspent(rest) \cup {o \in Outpoint : Creator[o] \in Ran(block)}
<1> DEFINE rest == SubSeq(ch, 1, Len(ch) - 1)
           block == ch[Len(ch)]
           n == Len(ch)
<1>1. n \in Nat /\ DOMAIN ch = 1 .. n /\ block \in Seq(Tx)
  OBVIOUS
<1>2. /\ rest \in Seq(Seq(Tx)) /\ Len(rest) = n - 1 /\ DOMAIN rest = 1 .. (n - 1)
      /\ \A i \in 1 .. (n - 1) : rest[i] = ch[i]
  OBVIOUS
<1> HIDE DEF rest
<1>3. ChainOK(rest)
  <2>1. \A i \in DOMAIN rest : i \in DOMAIN ch /\ rest[i] = ch[i]
    <3> HIDE DEF n
    <3>1. \A i \in 1 .. (n - 1) : i \in 1 .. n
      BY <1>1
    <3> QED
      BY <1>1, <1>2, <3>1
  <2>2. \A i, j \in DOMAIN rest : \A t \in Ran(rest[i]) : t \in Ran(rest[j]) => i = j
    BY <2>1 DEF ChainOK
  <2>3. ASSUME NEW i \in DOMAIN rest, NEW t \in Ran(rest[i]), NEW o \in Spends[t]
        PROVE  \E j \in 1 .. i : Creator[o] \in Ran(rest[j])
    <3>1. PICK j \in 1 .. i : Creator[o] \in Ran(ch[j])
      BY <2>1 DEF ChainOK
    <3>2. j \in 1 .. (n - 1)
      BY <1>1, <1>2
    <3> QED
      BY <1>2, <3>1, <3>2
  <2> QED
    BY <2>2, <2>3 DEF ChainOK
<1>4. ChainTx(rest) \subseteq ChainTx(ch)
  <2>1. \A i \in DOMAIN rest : i \in DOMAIN ch /\ rest[i] = ch[i]
    <3> HIDE DEF n
    <3>1. \A i \in 1 .. (n - 1) : i \in 1 .. n
      BY <1>1
    <3> QED
      BY <1>1, <1>2, <3>1
  <2> QED
    BY <2>1 DEF ChainTx
<1>5. \A t \in ChainTx(ch) : t \in ChainTx(rest) \/ t \in Ran(block)
  <2> SUFFICES ASSUME NEW t \in ChainTx(ch) PROVE t \in ChainTx(rest) \/ t \in Ran(block)
    OBVIOUS
  <2>1. PICK i \in DOMAIN ch : t \in Ran(ch[i])
    BY DEF ChainTx
  <2>2. CASE i = n
    BY <2>1, <2>2
  <2>3. CASE i # n
    <3>1. i \in 1 .. (n - 1)
      BY <1>1, <2>3
    <3> QED
      BY <1>2, <2>1, <3>1 DEF ChainTx
  <2> QED
    BY <2>2, <2>3
<1>6. SpentIn(rest) \subseteq SpentIn(ch)
  BY <1>4 DEF SpentIn
<1>7. Unspent(ch) \subseteq Unspent(rest) \cup {o \in Outpoint : Creator[o] \in Ran(block)}
  BY <1>5, <1>6 DEF Unspent
<1> QED
  BY <1>1, <1>2, <1>3, <1>4, <1>7 DEF rest

------------------------------------------------------------------------------
(* The chain and the pool.                                                  *)

Spendable == {o \in Unspent(chain) : Mature(chain, o)}

ChainInv == chain \in Seq(Seq(Tx)) /\ Len(chain) \in 1 .. MaxHeight /\ ChainOK(chain)

PoolInv == pool \in Pools /\ Backed(pool, Spendable) /\ pool.tx \cap ChainTx(chain) = {}

\* A transaction is let in.
LEMMA AcceptStep ==
    ASSUME ChainInv, PoolInv, NEW t \in Tx, NEW refuse,
           Verdict(pool, chain, t, refuse) = "accepted", pool' = Add(pool, t), UNCHANGED chain
    PROVE  ChainInv' /\ PoolInv'
<1>1. ChainInv'
  BY DEF ChainInv, ChainOK
<1>2. pool \in Pools /\ Backed(pool, Spendable) /\ pool.tx \cap ChainTx(chain) = {}
  BY DEF PoolInv
<1>3. Add(pool, t) \in Pools /\ Add(pool, t).tx = pool.tx \cup {t}
  <2>1. /\ t \notin Reward /\ t \notin pool.tx /\ Spends[t] \cap DOMAIN pool.next = {}
    BY AcceptedMeans
  <2> QED
    BY <1>2, <2>1, AddKeeps
<1>4. Backed(Add(pool, t), Spendable)
  <2>1. {o \in Unspent(chain) : Mature(chain, o)} \subseteq Spendable
    BY DEF Spendable
  <2>2. Backed(Add(pool, t), {o \in Spendable : Creator[o] # t})
    BY <1>2, <2>1, AcceptKeeps
  <2> QED
    BY <2>2, BackedMore
<1>5. t \notin ChainTx(chain)
  <2>1. DOMAIN chain = 1 .. Len(chain) /\ Len(chain) \in Nat /\ ChainOK(chain)
    BY DEF ChainInv
  <2> QED
    BY <1>2, <2>1, AcceptedNotInChain
<1>6. Spendable' = Spendable /\ ChainTx(chain)' = ChainTx(chain)
  BY DEF Spendable, Unspent, Mature, HeightOf, ChainTx, SpentIn, Ran
<1>7. pool'.tx \cap ChainTx(chain) = {}
  BY <1>2, <1>3, <1>5
<1>8. PoolInv'
  BY <1>3, <1>4, <1>6, <1>7 DEF PoolInv, Backed
<1> QED
  BY <1>1, <1>8

\* ConnectTip.
LEMMA ConnectStep ==
    ASSUME ChainInv, PoolInv, NEW block \in Blocks, ConnectTip(block)
    PROVE  ChainInv' /\ PoolInv'
<1> DEFINE new == Append(chain, block)
           R == RemoveForBlock(pool, block)
<1>1. /\ pool' = R /\ chain' = new /\ Connectable(block) /\ Len(chain) < MaxHeight
  BY DEF ConnectTip
<1>2. chain \in Seq(Seq(Tx)) /\ Len(chain) \in 1 .. MaxHeight /\ ChainOK(chain)
  BY DEF ChainInv
<1>3. block \in Seq(Tx)
  BY BlocksAssumption
<1>4. pool \in Pools /\ Backed(pool, Spendable) /\ pool.tx \cap ChainTx(chain) = {}
  BY DEF PoolInv
<1>5. /\ new \in Seq(Seq(Tx)) /\ Len(new) = Len(chain) + 1
      /\ ChainTx(new) = ChainTx(chain) \cup Ran(block)
  BY <1>2, <1>3, Appended
<1>6. ChainOK(new)
  BY <1>1, <1>2, <1>3, ConnectedChainOK
<1>7. /\ R \in Pools
      /\ R.tx \subseteq pool.tx \ Ran(block)
      /\ \A t \in R.tx, u \in Ran(block) : Spends[t] \cap Spends[u] = {}
      /\ Backed(R, Spendable \cup {o \in Outpoint : Creator[o] \in Ran(block) \ Reward})
  <2> HIDE DEF new
  <2>1. AfterBlock(RemoveForBlock(pool, block), pool, block, Spendable)
    BY <1>3, <1>4, ForBlockKeeps
  <2> QED
    BY <2>1 DEF AfterBlock
<1> DEFINE S == {o \in Unspent(new) : Mature(new, o)}
<1> HIDE DEF new, R
<1>8. Backed(R, S)
  <2> SUFFICES ASSUME NEW t \in R.tx, NEW o \in Spends[t], Creator[o] \notin R.tx
               PROVE  o \in Unspent(new) /\ Mature(new, o)
    BY DEF Backed
  <2>1. o \in Outpoint
    BY <1>7, PoolType, SpendsAssumption
  <2>2. \A u \in Ran(block) : o \notin Spends[u]
    BY <1>7
  <2>3. o \in Spendable \/ Creator[o] \in Ran(block) \ Reward
    BY <1>7 DEF Backed
  <2>4. \/ o \in Unspent(chain) /\ Mature(chain, o)
        \/ Creator[o] \in Ran(block) \ Reward
    BY <2>3 DEF Spendable
  <2> QED
    BY <1>1, <1>2, <1>3, <2>1, <2>2, <2>4, StillSpendable DEF new
<1>9. R.tx \cap ChainTx(new) = {}
  BY <1>4, <1>5, <1>7
<1>10. Len(new) \in 1 .. MaxHeight
  BY <1>1, <1>2, <1>5, BoundsAssumption
<1>11. ChainInv'
  BY <1>1, <1>5, <1>6, <1>10 DEF ChainInv, ChainOK, Ran
<1>12. Spendable' = S /\ ChainTx(chain)' = ChainTx(new)
  BY <1>1 DEF Spendable, Unspent, Mature, HeightOf, ChainTx, SpentIn, Ran
<1> HIDE DEF S
<1>13. PoolInv'
  BY <1>1, <1>7, <1>8, <1>9, <1>12 DEF PoolInv, Backed
<1> QED
  BY <1>11, <1>13

\* What the pool is after the loop of DisconnectTip.
LEMMA ResurrectStep ==
    ASSUME ChainInv, PoolInv, Len(chain) > 1, NEW refuse
    PROVE  LET rest == SubSeq(chain, 1, Len(chain) - 1)
               R == Resurrect(pool, rest, chain[Len(chain)], refuse)
           IN
           /\ R \in Pools /\ R.tx \cap ChainTx(rest) = {} /\ Backed(R, Unspent(rest))
           /\ rest \in Seq(Seq(Tx)) /\ Len(rest) = Len(chain) - 1 /\ ChainOK(rest)
<1> DEFINE rest == SubSeq(chain, 1, Len(chain) - 1)
           block == chain[Len(chain)]
           U == Unspent(rest) \cup {o \in Outpoint : Creator[o] \in Ran(block)}
<1>1. chain \in Seq(Seq(Tx)) /\ ChainOK(chain)
  BY DEF ChainInv
<1>2. /\ rest \in Seq(Seq(Tx)) /\ Len(rest) = Len(chain) - 1 /\ block \in Seq(Tx)
      /\ DOMAIN rest = 1 .. Len(rest) /\ Len(rest) \in Nat
      /\ ChainOK(rest)
      /\ ChainTx(rest) \subseteq ChainTx(chain)
      /\ Unspent(chain) \subseteq U
  BY <1>1, Shortened
<1>3. pool \in Pools /\ Backed(pool, Spendable) /\ pool.tx \cap ChainTx(chain) = {}
  BY DEF PoolInv
<1> HIDE DEF rest, block
<1>4. Backed(pool, U)
  <2> HIDE DEF U
  <2> QED
    BY <1>2, <1>3, BackedMore DEF Spendable
<1>5. pool.tx \cap ChainTx(rest) = {}
  BY <1>2, <1>3
<1>6. /\ Resurrect(pool, rest, block, refuse) \in Pools
      /\ Resurrect(pool, rest, block, refuse).tx \cap ChainTx(rest) = {}
      /\ Backed(Resurrect(pool, rest, block, refuse), Unspent(rest))
  BY <1>2, <1>3, <1>4, <1>5, ResurrectKeeps
<1> QED
  BY <1>2, <1>6 DEF rest, block

\* DisconnectTip.
LEMMA DisconnectStep ==
    ASSUME ChainInv, PoolInv, NEW refuse, DisconnectTip(refuse)
    PROVE  ChainInv' /\ PoolInv'
<1> DEFINE rest == SubSeq(chain, 1, Len(chain) - 1)
           Q == Resurrect(pool, rest, chain[Len(chain)], refuse)
           R == RemoveCoinbaseSpends(Q, rest)
           S == {o \in Unspent(rest) : Mature(rest, o)}
<1>1. Len(chain) > 1 /\ chain' = rest /\ pool' = R
  BY DEF DisconnectTip
<1>2. /\ Q \in Pools /\ Q.tx \cap ChainTx(rest) = {} /\ Backed(Q, Unspent(rest))
      /\ rest \in Seq(Seq(Tx)) /\ Len(rest) = Len(chain) - 1 /\ ChainOK(rest)
  BY <1>1, ResurrectStep
<1> HIDE DEF Q, rest
<1>3. R \in Pools /\ R.tx \subseteq Q.tx /\ Backed(R, S)
  BY <1>2, CoinbaseSpendsKeeps
<1> HIDE DEF R
<1>4. Len(rest) \in 1 .. MaxHeight
  <2>1. Len(chain) \in 1 .. MaxHeight
    BY DEF ChainInv
  <2> QED
    BY <1>1, <1>2, <2>1, BoundsAssumption
<1>5. ChainInv'
  BY <1>1, <1>2, <1>4 DEF ChainInv, ChainOK, Ran
<1>6. Spendable' = S /\ ChainTx(chain)' = ChainTx(rest)
  BY <1>1 DEF Spendable, Unspent, Mature, HeightOf, ChainTx, SpentIn, Ran
<1>7. R.tx \cap ChainTx(rest) = {}
  BY <1>2, <1>3
<1> HIDE DEF S
<1>8. PoolInv'
  BY <1>1, <1>3, <1>6, <1>7 DEF PoolInv, Backed
<1> QED
  BY <1>5, <1>8

\* Nothing changes.
LEMMA SamePool ==
    ASSUME ChainInv, PoolInv, UNCHANGED <<pool, chain>>
    PROVE  ChainInv' /\ PoolInv'
<1>1. Spendable' = Spendable /\ ChainTx(chain)' = ChainTx(chain)
  BY DEF Spendable, Unspent, Mature, HeightOf, ChainTx, SpentIn, Ran
<1> QED
  BY <1>1 DEF ChainInv, ChainOK, Ran, PoolInv, Backed

------------------------------------------------------------------------------
(* The orphan maps.                                                         *)

\* byPrev is the index of the orphans D by their parents.
Indexed(D, byPrev) ==
    /\ DOMAIN byPrev = UNION {Parents(t) : t \in D}
    /\ \A u \in DOMAIN byPrev : byPrev[u] = {t \in D : u \in Parents(t)}

OrphanInv ==
    /\ DOMAIN mapOrphanTransactions \subseteq Tx \ Reward
    /\ \A t \in DOMAIN mapOrphanTransactions : mapOrphanTransactions[t] \in Peer
    /\ Cardinality(DOMAIN mapOrphanTransactions) <= MaxOrphans
    /\ Indexed(DOMAIN mapOrphanTransactions, mapOrphanTransactionsByPrev)

\* AddOrphanTx.
LEMMA IndexKeeps ==
    ASSUME NEW D, NEW byPrev, Indexed(D, byPrev), NEW t
    PROVE  Indexed(D \cup {t}, IndexOrphan(byPrev, t))
<1> DEFINE new == IndexOrphan(byPrev, t)
           at(u) == (IF u \in DOMAIN byPrev THEN byPrev[u] ELSE {}) \cup
                    (IF u \in Parents(t) THEN {t} ELSE {})
<1>1. DOMAIN new = DOMAIN byPrev \cup Parents(t)
  BY DEF IndexOrphan
<1>2. \A u \in DOMAIN new : new[u] = at(u)
  BY DEF IndexOrphan
<1>3. DOMAIN new = UNION {Parents(s) : s \in D \cup {t}}
  BY <1>1 DEF Indexed
<1>4. ASSUME NEW u \in DOMAIN new PROVE at(u) = {s \in D \cup {t} : u \in Parents(s)}
  <2>1. CASE u \in DOMAIN byPrev
    BY <2>1 DEF Indexed
  <2>2. CASE u \notin DOMAIN byPrev
    <3>1. \A s \in D : u \notin Parents(s)
      BY <2>2 DEF Indexed
    <3> QED
      BY <1>1, <2>2, <3>1
  <2> QED
    BY <2>1, <2>2
<1> HIDE DEF new, at
<1> QED
  BY <1>2, <1>3, <1>4 DEF Indexed, new

\* EraseOrphanTx.
LEMMA UnindexKeeps ==
    ASSUME NEW D, NEW byPrev, Indexed(D, byPrev), NEW S
    PROVE  Indexed(D \ S, UnindexOrphans(byPrev, S))
<1> DEFINE new == UnindexOrphans(byPrev, S)
<1>1. /\ DOMAIN new = {v \in DOMAIN byPrev : byPrev[v] \ S # {}}
      /\ \A u \in DOMAIN new : new[u] = byPrev[u] \ S
  BY DEF UnindexOrphans
<1> HIDE DEF new
<1>2. ASSUME NEW u \in DOMAIN new PROVE new[u] = {t \in D \ S : u \in Parents(t)}
  <2>1. u \in DOMAIN byPrev /\ new[u] = byPrev[u] \ S
    BY <1>1
  <2>2. byPrev[u] = {t \in D : u \in Parents(t)}
    BY <2>1 DEF Indexed
  <2> QED
    BY <2>1, <2>2
<1>3. ASSUME NEW u \in DOMAIN new PROVE \E t \in D \ S : u \in Parents(t)
  BY <1>1, <1>2
<1>4. ASSUME NEW t \in D \ S, NEW u \in Parents(t) PROVE u \in DOMAIN new
  <2>1. u \in DOMAIN byPrev
    BY DEF Indexed
  <2>2. byPrev[u] = {s \in D : u \in Parents(s)}
    BY <2>1 DEF Indexed
  <2>3. t \in byPrev[u] \ S
    BY <2>2
  <2> QED
    BY <1>1, <2>1, <2>3
<1>5. DOMAIN new = UNION {Parents(t) : t \in D \ S}
  BY <1>3, <1>4
<1> QED
  BY <1>2, <1>5 DEF Indexed, new

\* Erasing some of the orphans.
LEMMA EraseStep ==
    ASSUME OrphanInv, NEW S, EraseOrphans(mapOrphanTransactions, mapOrphanTransactionsByPrev, S)
    PROVE  /\ OrphanInv'
           /\ DOMAIN mapOrphanTransactions' = DOMAIN mapOrphanTransactions \ S
           /\ \A t \in DOMAIN mapOrphanTransactions' :
                  mapOrphanTransactions'[t] = mapOrphanTransactions[t]
<1> DEFINE D == DOMAIN mapOrphanTransactions
<1>1. /\ mapOrphanTransactions' = [t \in D \ S |-> mapOrphanTransactions[t]]
      /\ mapOrphanTransactionsByPrev' = UnindexOrphans(mapOrphanTransactionsByPrev, S)
  BY DEF EraseOrphans
<1>2. DOMAIN mapOrphanTransactions' = D \ S
  BY <1>1
<1>3. \A t \in DOMAIN mapOrphanTransactions' :
          mapOrphanTransactions'[t] = mapOrphanTransactions[t]
  BY <1>1
<1>4. Indexed(D \ S, mapOrphanTransactionsByPrev')
  BY <1>1, UnindexKeeps DEF OrphanInv
<1>5. Cardinality(D \ S) <= MaxOrphans
  <2>1. D \subseteq Tx /\ Cardinality(D) <= MaxOrphans
    BY DEF OrphanInv
  <2>2. IsFiniteSet(D) /\ IsFiniteSet(D \ S)
    BY <2>1, FiniteAssumption, FS_Subset
  <2>3. Cardinality(D \ S) <= Cardinality(D)
    BY <2>2, FS_Subset
  <2>4. Cardinality(D) \in Nat /\ Cardinality(D \ S) \in Nat /\ MaxOrphans \in Nat
    BY <2>2, FS_CardinalityType, BoundsAssumption
  <2> HIDE DEF D
  <2> QED
    BY <2>1, <2>3, <2>4
<1>6. OrphanInv'
  <2>1. /\ D \subseteq Tx \ Reward
        /\ \A t \in D : mapOrphanTransactions[t] \in Peer
    BY DEF OrphanInv
  <2>2. /\ DOMAIN mapOrphanTransactions' \subseteq Tx \ Reward
        /\ \A t \in DOMAIN mapOrphanTransactions' : mapOrphanTransactions'[t] \in Peer
    BY <1>2, <1>3, <2>1
  <2>3. Indexed(DOMAIN mapOrphanTransactions, mapOrphanTransactionsByPrev)'
    BY <1>2, <1>4 DEF Indexed
  <2> HIDE DEF D
  <2> QED
    BY <1>2, <1>5, <2>2, <2>3 DEF OrphanInv
<1> QED
  BY <1>2, <1>3, <1>6

\* The verdict that makes a transaction an orphan.
LEMMA MissingMeans ==
    ASSUME NEW P, NEW ch, NEW t, NEW refuse
    PROVE  Verdict(P, ch, t, refuse) = "missing inputs" <=>
               /\ t \notin Reward /\ t \notin refuse /\ t \notin P.tx
               /\ Spends[t] \cap DOMAIN P.next = {}
               /\ ~ HaveCoins(P, ch, t)
               /\ \E u \in Parents(t) : ~ HaveCoins(P, ch, u)
  BY DEF Verdict, IsLoose

\* The same, from what it takes.
LEMMA MissingIf ==
    ASSUME NEW P, NEW ch, NEW t, t \notin Reward, t \notin P.tx,
           Spends[t] \cap DOMAIN P.next = {}, ~ HaveCoins(P, ch, t),
           NEW u \in Parents(t), ~ HaveCoins(P, ch, u)
    PROVE  Verdict(P, ch, t, {}) = "missing inputs"
  BY DEF Verdict, IsLoose

\* A transaction is kept as an orphan, and others make room.
LEMMA OrphanedStep ==
    ASSUME OrphanInv, NEW t \in Tx, NEW peer \in Peer, TxOrphaned(t, peer)
    PROVE  OrphanInv'
<1> DEFINE D == DOMAIN mapOrphanTransactions
           orphans == [u \in D \cup {t} |-> IF u = t THEN peer ELSE mapOrphanTransactions[u]]
           excess == Cardinality(DOMAIN orphans) - MaxOrphans
           byPrev == IndexOrphan(mapOrphanTransactionsByPrev, t)
<1>1. PICK S \in SUBSET DOMAIN orphans :
          /\ Cardinality(S) = IF excess > 0 THEN excess ELSE 0
          /\ EraseOrphans(orphans, byPrev, S)
  BY DEF TxOrphaned
<1>2. DOMAIN orphans = D \cup {t}
  OBVIOUS
<1>3. D \subseteq Tx \ Reward /\ \A u \in D : mapOrphanTransactions[u] \in Peer
  BY DEF OrphanInv
<1>4. t \notin Reward
  BY MissingMeans DEF TxOrphaned
<1>5. \A u \in D \cup {t} : orphans[u] \in Peer
  BY <1>3
<1> HIDE DEF orphans
<1>6. /\ mapOrphanTransactions' = [u \in (D \cup {t}) \ S |-> orphans[u]]
      /\ mapOrphanTransactionsByPrev' = UnindexOrphans(byPrev, S)
  BY <1>1, <1>2 DEF EraseOrphans
<1>7. DOMAIN mapOrphanTransactions' = (D \cup {t}) \ S
  BY <1>6
<1>8. Indexed((D \cup {t}) \ S, mapOrphanTransactionsByPrev')
  <2>1. Indexed(D \cup {t}, byPrev)
    BY IndexKeeps DEF OrphanInv
  <2> HIDE DEF byPrev
  <2> QED
    BY <1>6, <2>1, UnindexKeeps
<1>9. Cardinality((D \cup {t}) \ S) <= MaxOrphans
  <2> DEFINE E == D \cup {t}
  <2>1. IsFiniteSet(E) /\ S \subseteq E
    BY <1>1, <1>2, <1>3, FiniteAssumption, FS_Subset
  <2>2. Cardinality(E \ S) = Cardinality(E) - Cardinality(E \cap S)
    BY <2>1, FS_Difference
  <2>3. E \cap S = S
    BY <2>1
  <2>4. Cardinality(E) \in Nat /\ MaxOrphans \in Nat
    BY <2>1, FS_CardinalityType, BoundsAssumption
  <2>5. excess = Cardinality(E) - MaxOrphans
    BY <1>2
  <2>6. Cardinality(S) = IF excess > 0 THEN excess ELSE 0
    BY <1>1
  <2> HIDE DEF E, excess, D
  <2>7. Cardinality(E \ S) <= MaxOrphans
    BY <2>2, <2>3, <2>4, <2>5, <2>6
  <2> QED
    BY <2>7 DEF E
<1>10. /\ DOMAIN mapOrphanTransactions' \subseteq Tx \ Reward
       /\ \A u \in DOMAIN mapOrphanTransactions' : mapOrphanTransactions'[u] \in Peer
  BY <1>3, <1>4, <1>5, <1>6, <1>7
<1>11. Indexed(DOMAIN mapOrphanTransactions, mapOrphanTransactionsByPrev)'
  BY <1>7, <1>8 DEF Indexed
<1> HIDE DEF D
<1> QED
  BY <1>7, <1>9, <1>10, <1>11 DEF OrphanInv

------------------------------------------------------------------------------
(* The "tx" handler.                                                        *)

WorkType ==
    [queue : Seq(Tx), tried : SUBSET Tx, erase : SUBSET Tx, misbehaving : SUBSET Peer,
     accepted : SUBSET Tx]

\* The handler will look at t, for a transaction that is still in its queue.
Pending(t) ==
    \E k \in DOMAIN work.queue : work.queue[k] \in Parents(t) /\ (k > 1 \/ t \notin work.tried)

\* An orphan that waits for something the handler has let in will be looked at, or
\* was looked at in vain.
Settled(t) ==
    \/ Parents(t) \cap work.accepted = {}
    \/ mapOrphanTransactions[t] \in work.misbehaving
    \/ Spends[t] \cap DOMAIN pool.next # {}
    \/ Verdict(pool, chain, t, {}) = "missing inputs"
    \/ Pending(t)

\* What is in the queue is in the pool, and what spends it there came in after it.
QueueFresh ==
    \A k \in DOMAIN work.queue :
        /\ work.queue[k] \in pool.tx
        /\ \A t \in pool.tx : work.queue[k] \in Parents(t) => t \in work.erase

WorkInv ==
    /\ work \in WorkType
    /\ work.queue = <<>> => work = Idle
    /\ QueueFresh
    /\ work # Idle => \A t \in DOMAIN mapOrphanTransactions \ work.erase : Settled(t)

Inv == ChainInv /\ PoolInv /\ OrphanInv /\ WorkInv

\* Nothing is asked of an idle handler.
LEMMA IdleWork ==
    ASSUME work' = Idle
    PROVE  WorkInv'
<1>1. Idle \in WorkType /\ Idle.queue = <<>>
  BY DEF Idle, WorkType
<1>2. DOMAIN Idle.queue = {}
  BY <1>1
<1>3. QueueFresh'
  BY <1>2 DEF QueueFresh
<1> QED
  BY <1>1, <1>3 DEF WorkInv

\* The head of the queue is in the pool and not in the chain; so its orphans, and
\* theirs, are not in the chain either.
LEMMA OutsideChain ==
    ASSUME ChainInv, PoolInv, NEW h \in pool.tx, NEW t, h \in Parents(t)
    PROVE  /\ t \notin ChainTx(chain) /\ CoinsOf(chain, t) = {}
           /\ \A s : t \in Parents(s) => s \notin ChainTx(chain) /\ CoinsOf(chain, s) = {}
<1>1. DOMAIN chain = 1 .. Len(chain) /\ Len(chain) \in Nat /\ ChainOK(chain)
  BY DEF ChainInv
<1>2. h \notin ChainTx(chain)
  BY DEF PoolInv
<1>3. \A s \in ChainTx(chain) : Parents(s) \subseteq ChainTx(chain)
  BY <1>1, ChainClosed DEF Parents
<1>4. \A s : CoinsOf(chain, s) # {} => s \in ChainTx(chain)
  BY DEF CoinsOf, Unspent
<1> QED
  BY <1>2, <1>3, <1>4

\* Something that neither the pool nor the coins have: nothing in the pool spends it.
LEMMA NoChildInPool ==
    ASSUME ChainInv, PoolInv, NEW t, ~ HaveCoins(pool, chain, t), NEW s \in pool.tx
    PROVE  t \notin Parents(s)
<1> SUFFICES ASSUME t \in Parents(s) PROVE FALSE
  OBVIOUS
<1>1. PICK o \in Spends[s] : Creator[o] = t
  BY DEF Parents
<1>2. t \notin pool.tx /\ CoinsOf(chain, t) = {}
  BY DEF HaveCoins
<1>3. o \in Unspent(chain)
  BY <1>1, <1>2 DEF PoolInv, Backed, Spendable
<1>4. o \in CoinsOf(chain, t)
  BY <1>1, <1>3 DEF CoinsOf
<1> QED
  BY <1>2, <1>4

\* The orphan of a peer that misbehaved, or one that misses another parent.
LEMMA SkipStep ==
    ASSUME Inv, work # Idle, NEW t \in Tx,
           UNCHANGED <<pool, chain, orphanVars>>, work' \in WorkType,
           work'.queue = work.queue, work'.tried = work.tried \cup {t},
           work'.erase = work.erase, work'.misbehaving = work.misbehaving,
           work'.accepted = work.accepted,
           \/ mapOrphanTransactions[t] \in work.misbehaving
           \/ Verdict(pool, chain, t, {}) = "missing inputs"
    PROVE  WorkInv'
<1>1. /\ work \in WorkType /\ work.queue # <<>> /\ QueueFresh
      /\ \A s \in DOMAIN mapOrphanTransactions \ work.erase : Settled(s)
  BY DEF Inv, WorkInv
<1>2. QueueFresh'
  BY <1>1 DEF QueueFresh
<1>3. ASSUME NEW s \in DOMAIN mapOrphanTransactions' \ work'.erase PROVE Settled(s)'
  <2>1. Settled(s)
    BY <1>1 DEF orphanVars
  <2>2. CASE s = t
    BY <2>2 DEF Settled, orphanVars
  <2>3. CASE s # t
    <3>1. Pending(s) => Pending(s)'
      BY <2>3 DEF Pending
    <3> QED
      BY <2>1, <3>1 DEF Settled, orphanVars
  <2> QED
    BY <2>2, <2>3
<1> QED
  BY <1>1, <1>2, <1>3 DEF WorkInv

\* An orphan that is let in.
LEMMA LetInStep ==
    ASSUME Inv, work # Idle, NEW t \in Tx, NEW refuse,
           Verdict(pool, chain, t, refuse) = "accepted", pool' = Add(pool, t),
           UNCHANGED <<chain, orphanVars>>, work' \in WorkType,
           work'.queue = Append(work.queue, t), work'.tried = work.tried \cup {t},
           work'.erase = work.erase \cup {t}, work'.misbehaving = work.misbehaving,
           work'.accepted = work.accepted \cup {t}
    PROVE  WorkInv'
<1>1. /\ work \in WorkType /\ work.queue \in Seq(Tx) /\ work.queue # <<>> /\ QueueFresh
      /\ \A s \in DOMAIN mapOrphanTransactions \ work.erase : Settled(s)
  BY DEF Inv, WorkInv, WorkType
<1> DEFINE n == Len(work.queue)
<1>2. /\ n \in Nat \ {0} /\ DOMAIN work.queue = 1 .. n
      /\ DOMAIN work'.queue = 1 .. (n + 1)
      /\ \A k \in 1 .. n : work'.queue[k] = work.queue[k]
      /\ work'.queue[n + 1] = t
      /\ work'.queue # <<>>
  BY <1>1
<1>3. /\ t \notin Reward /\ t \notin pool.tx /\ Spends[t] \cap DOMAIN pool.next = {}
      /\ CoinsOf(chain, t) = {} /\ \A u \in Parents(t) : HaveCoins(pool, chain, u)
  BY AcceptedMeans
<1>4. pool'.tx = pool.tx \cup {t} /\ DOMAIN pool'.next = DOMAIN pool.next \cup Spends[t]
  <2>1. pool \in Pools
    BY DEF Inv, PoolInv
  <2> QED
    BY <1>3, <2>1, AddKeeps
<1>5. ~ HaveCoins(pool, chain, t)
  BY <1>3 DEF HaveCoins
<1>6. t \notin Parents(t)
  BY <1>3, <1>5
<1>7. \A s \in pool.tx : t \notin Parents(s)
  BY <1>5, NoChildInPool DEF Inv
<1> HIDE DEF n
<1>8. QueueFresh'
  <2> SUFFICES ASSUME NEW k \in 1 .. (n + 1)
               PROVE  /\ work'.queue[k] \in pool'.tx
                      /\ \A s \in pool'.tx : work'.queue[k] \in Parents(s) => s \in work'.erase
    BY <1>2 DEF QueueFresh
  <2>1. CASE k = n + 1
    BY <1>2, <1>4, <1>6, <1>7, <2>1
  <2>2. CASE k # n + 1
    <3>1. k \in 1 .. n
      BY <1>2, <2>2
    <3>2. /\ work.queue[k] \in pool.tx
          /\ \A s \in pool.tx : work.queue[k] \in Parents(s) => s \in work.erase
      BY <1>1, <1>2, <3>1 DEF QueueFresh
    <3> QED
      BY <1>2, <1>4, <3>1, <3>2
  <2> QED
    BY <2>1, <2>2
<1>9. ASSUME NEW s \in DOMAIN mapOrphanTransactions' \ work'.erase PROVE Settled(s)'
  <2>1. s \in DOMAIN mapOrphanTransactions \ work.erase /\ s # t
    BY DEF orphanVars
  <2>2. Settled(s)
    BY <1>1, <2>1
  <2>3. CASE t \in Parents(s)
    <3>1. n + 1 \in DOMAIN work'.queue /\ n + 1 > 1
      BY <1>2
    <3>2. Pending(s)'
      BY <1>2, <2>3, <3>1 DEF Pending
    <3> QED
      BY <3>2 DEF Settled
  <2>4. CASE t \notin Parents(s)
    <3>1. CASE Parents(s) \cap work.accepted = {}
      BY <2>4, <3>1 DEF Settled
    <3>2. CASE mapOrphanTransactions[s] \in work.misbehaving
      BY <3>2 DEF Settled, orphanVars
    <3>3. CASE Spends[s] \cap DOMAIN pool.next # {}
      BY <1>4, <3>3 DEF Settled
    <3>4. CASE Verdict(pool, chain, s, {}) = "missing inputs"
      <4>1. /\ s \notin Reward /\ s \notin pool.tx /\ ~ HaveCoins(pool, chain, s)
            /\ \E u \in Parents(s) : ~ HaveCoins(pool, chain, u)
        BY <3>4, MissingMeans
      <4>2. \A u : u # t => (HaveCoins(pool, chain, u)' <=> HaveCoins(pool, chain, u))
        BY <1>4 DEF HaveCoins, CoinsOf, Unspent, ChainTx, SpentIn, Ran
      <4>3. CASE Spends[s] \cap DOMAIN pool'.next # {}
        BY <4>3 DEF Settled
      <4>4. CASE Spends[s] \cap DOMAIN pool'.next = {}
        <5>1. /\ s \notin pool'.tx /\ ~ HaveCoins(pool', chain', s)
              /\ \E u \in Parents(s) : ~ HaveCoins(pool', chain', u)
          BY <1>4, <2>1, <2>4, <4>1, <4>2
        <5>2. Verdict(pool', chain', s, {}) = "missing inputs"
          BY <4>1, <4>4, <5>1, MissingIf
        <5> QED
          BY <5>2 DEF Settled
      <4> QED
        BY <4>3, <4>4
    <3>5. CASE Pending(s)
      <4>1. PICK k \in DOMAIN work.queue :
                work.queue[k] \in Parents(s) /\ (k > 1 \/ s \notin work.tried)
        BY <3>5 DEF Pending
      <4>2. k \in DOMAIN work'.queue /\ work'.queue[k] = work.queue[k]
        BY <1>2, <4>1
      <4>3. Pending(s)'
        BY <2>1, <4>1, <4>2 DEF Pending
      <4> QED
        BY <4>3 DEF Settled
    <3> QED
      BY <2>2, <3>1, <3>2, <3>3, <3>4, <3>5 DEF Settled
  <2> QED
    BY <2>3, <2>4
<1> QED
  BY <1>2, <1>8, <1>9 DEF WorkInv

\* An orphan that is refused for good.
LEMMA DropStep ==
    ASSUME Inv, work # Idle, NEW t \in DOMAIN mapOrphanTransactions,
           UNCHANGED <<pool, chain, orphanVars>>, work' \in WorkType,
           work'.queue = work.queue, work'.tried = work.tried \cup {t},
           work'.erase = work.erase \cup {t}, work.misbehaving \subseteq work'.misbehaving,
           work'.accepted = work.accepted
    PROVE  WorkInv'
<1>1. /\ work \in WorkType /\ work.queue \in Seq(Tx) /\ work.queue # <<>> /\ QueueFresh
      /\ \A s \in DOMAIN mapOrphanTransactions \ work.erase : Settled(s)
  BY DEF Inv, WorkInv, WorkType
<1>2. 1 \in DOMAIN work.queue
  BY <1>1
<1>3. QueueFresh'
  BY <1>1 DEF QueueFresh
<1>4. ASSUME NEW s \in DOMAIN mapOrphanTransactions' \ work'.erase PROVE Settled(s)'
  <2>1. s \in DOMAIN mapOrphanTransactions \ work.erase /\ s # t
    BY DEF orphanVars
  <2>2. Settled(s)
    BY <1>1, <2>1
  <2>3. Pending(s) => Pending(s)'
    BY <2>1 DEF Pending
  <2> QED
    BY <2>2, <2>3 DEF Settled, orphanVars
<1> QED
  BY <1>1, <1>3, <1>4 DEF WorkInv

\* What the orphans that wait for the head are.
LEMMA WaitingMeans ==
    ASSUME Inv, work # Idle
    PROVE  /\ 1 \in DOMAIN work.queue /\ Head(work.queue) = work.queue[1]
           /\ Waiting = {t \in DOMAIN mapOrphanTransactions :
                            work.queue[1] \in Parents(t) /\ t \notin work.tried}
<1> DEFINE h == work.queue[1]
           D == DOMAIN mapOrphanTransactions
           byPrev == mapOrphanTransactionsByPrev
<1>1. work.queue \in Seq(Tx) /\ work.queue # <<>>
  BY DEF Inv, WorkInv, WorkType
<1>2. 1 \in DOMAIN work.queue /\ Head(work.queue) = h
  BY <1>1
<1>3. Indexed(D, byPrev)
  BY DEF Inv, OrphanInv
<1>4. Waiting = IF h \in DOMAIN byPrev THEN byPrev[h] \ work.tried ELSE {}
  BY <1>2 DEF Waiting
<1> HIDE DEF h, D, byPrev
<1>5. Waiting = {t \in D : h \in Parents(t) /\ t \notin work.tried}
  <2>1. CASE h \in DOMAIN byPrev
    <3>1. byPrev[h] = {t \in D : h \in Parents(t)}
      BY <1>3, <2>1 DEF Indexed
    <3>2. Waiting = byPrev[h] \ work.tried
      BY <1>4, <2>1
    <3> QED
      BY <3>1, <3>2
  <2>2. CASE h \notin DOMAIN byPrev
    <3>1. \A t \in D : h \notin Parents(t)
      BY <1>3, <2>2 DEF Indexed
    <3>2. Waiting = {}
      BY <1>4, <2>2
    <3> QED
      BY <3>1, <3>2
  <2> QED
    BY <2>1, <2>2
<1> QED
  BY <1>2, <1>5 DEF h, D

\* One orphan.
LEMMA OrphanStep ==
    ASSUME Inv, NEW t \in Tx, NEW refuse, ProcessOrphan(t, refuse)
    PROVE  Inv'
<1> DEFINE verdict == Verdict(pool, chain, t, refuse)
           peer == mapOrphanTransactions[t]
           tried == [work EXCEPT !.tried = @ \cup {t}]
<1>1. work # Idle /\ t \in Waiting /\ UNCHANGED <<chain, orphanVars>>
  BY DEF ProcessOrphan
<1>2. t \in DOMAIN mapOrphanTransactions /\ work.queue[1] \in Parents(t)
  BY <1>1, WaitingMeans
<1>3. peer \in Peer
  BY <1>2 DEF Inv, OrphanInv
<1>4. work \in WorkType
  BY DEF Inv, WorkInv
<1>5. OrphanInv'
  BY <1>1 DEF Inv, OrphanInv, Indexed, orphanVars
<1>6. tried \in WorkType /\ tried.queue = work.queue /\ tried.tried = work.tried \cup {t}
      /\ tried.erase = work.erase /\ tried.misbehaving = work.misbehaving
      /\ tried.accepted = work.accepted
  BY <1>4 DEF WorkType
<1>7. CASE peer \in work.misbehaving \/ verdict = "missing inputs"
  <2>1. work' = tried /\ UNCHANGED pool
    BY <1>7 DEF ProcessOrphan
  <2>2. mapOrphanTransactions[t] \in work.misbehaving \/ Verdict(pool, chain, t, {}) = "missing inputs"
    <3>1. CASE peer \in work.misbehaving
      BY <3>1
    <3>2. CASE verdict = "missing inputs"
      <4>1. /\ t \notin Reward /\ t \notin pool.tx
            /\ Spends[t] \cap DOMAIN pool.next = {}
            /\ ~ HaveCoins(pool, chain, t)
            /\ \E u \in Parents(t) : ~ HaveCoins(pool, chain, u)
        BY <3>2, MissingMeans
      <4> QED
        BY <4>1, MissingIf
    <3> QED
      BY <1>7, <3>1, <3>2
  <2> HIDE DEF tried
  <2>3. WorkInv'
    BY <1>1, <1>6, <2>1, <2>2, SkipStep
  <2>4. ChainInv' /\ PoolInv'
    BY <1>1, <2>1, SamePool DEF Inv
  <2> QED
    BY <1>5, <2>3, <2>4 DEF Inv
<1>8. CASE peer \notin work.misbehaving /\ verdict = "accepted"
  <2>1. /\ pool' = Add(pool, t)
        /\ work' = [tried EXCEPT !.queue = Append(@, t), !.erase = @ \cup {t},
                                 !.accepted = @ \cup {t}]
    BY <1>8 DEF ProcessOrphan
  <2> HIDE DEF tried
  <2>2. /\ work' \in WorkType /\ work'.queue = Append(work.queue, t)
        /\ work'.tried = work.tried \cup {t} /\ work'.erase = work.erase \cup {t}
        /\ work'.misbehaving = work.misbehaving
        /\ work'.accepted = work.accepted \cup {t}
    <3> DEFINE q == Append(work.queue, t)
               e == work.erase \cup {t}
               a == work.accepted \cup {t}
    <3>1. q \in Seq(Tx) /\ e \in SUBSET Tx /\ a \in SUBSET Tx
      BY <1>4 DEF WorkType
    <3>2. work' = [tried EXCEPT !.queue = q, !.erase = e, !.accepted = a]
      BY <1>6, <2>1
    <3> HIDE DEF q, e, a
    <3>3. /\ work' \in WorkType /\ work'.queue = q /\ work'.erase = e /\ work'.accepted = a
          /\ work'.tried = tried.tried /\ work'.misbehaving = tried.misbehaving
      BY <1>6, <3>1, <3>2 DEF WorkType
    <3> QED
      BY <1>6, <3>3 DEF q, e, a
  <2>3. WorkInv'
    BY <1>1, <1>8, <2>1, <2>2, LetInStep
  <2>4. ChainInv' /\ PoolInv'
    BY <1>1, <1>8, <2>1, AcceptStep DEF Inv
  <2> QED
    BY <1>5, <2>3, <2>4 DEF Inv
<1>9. CASE peer \notin work.misbehaving /\ verdict \notin {"missing inputs", "accepted"}
  <2>1. /\ UNCHANGED pool
        /\ work' = [tried EXCEPT !.erase = @ \cup {t},
                                 !.misbehaving = IF verdict = "invalid"
                                                 THEN @ \cup {peer} ELSE @]
    BY <1>9 DEF ProcessOrphan
  <2> HIDE DEF tried, verdict, peer
  <2>2. /\ work' \in WorkType /\ work'.queue = work.queue
        /\ work'.tried = work.tried \cup {t} /\ work'.erase = work.erase \cup {t}
        /\ work.misbehaving \subseteq work'.misbehaving /\ work'.accepted = work.accepted
    BY <1>3, <1>6, <2>1 DEF WorkType
  <2>3. WorkInv'
    BY <1>1, <1>2, <2>1, <2>2, DropStep
  <2>4. ChainInv' /\ PoolInv'
    BY <1>1, <2>1, SamePool DEF Inv
  <2> QED
    BY <1>5, <2>3, <2>4 DEF Inv
<1> QED
  BY <1>7, <1>8, <1>9

\* On to the next in the queue, or the end.
LEMMA QueueStep ==
    ASSUME Inv, NextInQueue
    PROVE  Inv'
<1>1. work # Idle /\ Waiting = {} /\ UNCHANGED <<pool, chain>>
  BY DEF NextInQueue
<1>2. ChainInv' /\ PoolInv'
  BY <1>1, SamePool DEF Inv
<1>3. CASE Len(work.queue) > 1
  <2>1. work' = [work EXCEPT !.queue = Tail(@), !.tried = {}] /\ UNCHANGED orphanVars
    BY <1>3 DEF NextInQueue
  <2>2. work \in WorkType /\ work.queue \in Seq(Tx) /\ QueueFresh
    BY DEF Inv, WorkInv, WorkType
  <2>3. /\ work' \in WorkType /\ work'.queue = Tail(work.queue) /\ work'.tried = {}
        /\ work'.erase = work.erase /\ work'.misbehaving = work.misbehaving
        /\ work'.accepted = work.accepted
    <3> DEFINE q == Tail(work.queue)
    <3>1. q \in Seq(Tx)
      BY <1>3, <2>2
    <3>2. work' = [work EXCEPT !.queue = q, !.tried = {}]
      BY <2>1
    <3> HIDE DEF q
    <3>3. /\ work' \in WorkType /\ work'.queue = q /\ work'.tried = {}
          /\ work'.erase = work.erase /\ work'.misbehaving = work.misbehaving
          /\ work'.accepted = work.accepted
      BY <2>2, <3>1, <3>2 DEF WorkType
    <3> QED
      BY <3>3 DEF q
  <2> DEFINE n == Len(work.queue)
  <2>4. /\ n \in Nat /\ n > 1 /\ DOMAIN work.queue = 1 .. n
        /\ DOMAIN work'.queue = 1 .. (n - 1)
        /\ \A k \in 1 .. (n - 1) : work'.queue[k] = work.queue[k + 1]
        /\ work'.queue # <<>>
    <3> DEFINE q == work.queue
    <3>1. q \in Seq(Tx) /\ Len(q) > 1
      BY <1>3, <2>2
    <3>2. work'.queue = Tail(q)
      BY <2>3
    <3> HIDE DEF q
    <3>3. /\ Len(q) \in Nat /\ DOMAIN q = 1 .. Len(q)
          /\ DOMAIN Tail(q) = 1 .. (Len(q) - 1)
          /\ \A k \in 1 .. (Len(q) - 1) : Tail(q)[k] = q[k + 1]
          /\ Tail(q) # <<>>
      BY <3>1
    <3> QED
      BY <3>1, <3>2, <3>3 DEF q
  <2> HIDE DEF n
  <2>5. OrphanInv'
    BY <2>1 DEF Inv, OrphanInv, Indexed, orphanVars
  <2>6. QueueFresh'
    <3>1. \A k \in 1 .. (n - 1) : k + 1 \in 1 .. n
      BY <2>4
    <3> QED
      BY <1>1, <2>2, <2>3, <2>4, <3>1 DEF QueueFresh
  <2>7. ASSUME NEW t \in DOMAIN mapOrphanTransactions' \ work'.erase PROVE Settled(t)'
    <3>1. t \in DOMAIN mapOrphanTransactions \ work.erase
      BY <2>1, <2>3 DEF orphanVars
    <3>2. Settled(t)
      BY <1>1, <3>1 DEF Inv, WorkInv
    <3>3. CASE Pending(t)
      <4>1. PICK k \in DOMAIN work.queue :
                work.queue[k] \in Parents(t) /\ (k > 1 \/ t \notin work.tried)
        BY <3>3 DEF Pending
      <4>2. k > 1
        <5> SUFFICES ASSUME ~ (k > 1) PROVE FALSE
          OBVIOUS
        <5>1. k = 1
          BY <2>4
        <5>2. t \in Waiting
          BY <1>1, <3>1, <4>1, <5>1, WaitingMeans
        <5> QED
          BY <1>1, <5>2
      <4>3. k - 1 \in 1 .. (n - 1) /\ (k - 1) + 1 = k
        BY <2>4, <4>2
      <4>4. work'.queue[k - 1] \in Parents(t)
        BY <2>4, <4>1, <4>3
      <4>5. Pending(t)'
        BY <2>3, <2>4, <4>3, <4>4 DEF Pending
      <4> QED
        BY <4>5 DEF Settled
    <3>4. CASE ~ Pending(t)
      BY <1>1, <2>1, <2>3, <3>2, <3>4 DEF Settled, orphanVars
    <3> QED
      BY <3>3, <3>4
  <2>8. WorkInv'
    BY <2>3, <2>4, <2>6, <2>7 DEF WorkInv
  <2> QED
    BY <1>2, <2>5, <2>8 DEF Inv
<1>4. CASE ~ (Len(work.queue) > 1)
  <2>1. /\ work' = Idle
        /\ EraseOrphans(mapOrphanTransactions, mapOrphanTransactionsByPrev, work.erase)
    BY <1>4 DEF NextInQueue
  <2>2. OrphanInv'
    BY <2>1, EraseStep DEF Inv
  <2>3. WorkInv'
    BY <2>1, IdleWork
  <2> QED
    BY <1>2, <2>2, <2>3 DEF Inv
<1> QED
  BY <1>3, <1>4

------------------------------------------------------------------------------
(* The specification.                                                       *)

\* The first state.
LEMMA InitInv ==
    ASSUME Init
    PROVE  Inv
<1>1. /\ pool = [tx |-> {}, next |-> <<>>] /\ chain = <<GenesisBlock>>
      /\ mapOrphanTransactions = <<>> /\ mapOrphanTransactionsByPrev = <<>> /\ work = Idle
  BY DEF Init
<1>2. /\ chain \in Seq(Seq(Tx)) /\ Len(chain) = 1 /\ DOMAIN chain = {1}
      /\ chain[1] = GenesisBlock
  BY <1>1, BlocksAssumption
<1>3. ChainInv
  <2>1. \A t \in Ran(GenesisBlock) : Spends[t] = {}
    BY InputsAssumption DEF Ran
  <2>2. ChainOK(chain)
    BY <1>2, <2>1 DEF ChainOK
  <2>3. 1 \in 1 .. MaxHeight
    BY BoundsAssumption
  <2> QED
    BY <1>2, <2>2, <2>3 DEF ChainInv
<1>4. PoolInv
  <2> DEFINE none == <<>>
  <2>1. none \in [UNION {Spends[t] : t \in {}} -> Tx]
    OBVIOUS
  <2> HIDE DEF none
  <2>2. [tx |-> {}, next |-> none] \in Pools
    BY <2>1, PoolIntro
  <2>3. pool \in Pools /\ pool.tx = {}
    BY <1>1, <2>2 DEF none
  <2> QED
    BY <2>3 DEF PoolInv, Backed
<1>5. OrphanInv
  <2>1. DOMAIN mapOrphanTransactions = {} /\ DOMAIN mapOrphanTransactionsByPrev = {}
    BY <1>1
  <2>2. Cardinality({}) <= MaxOrphans
    BY FS_EmptySet, BoundsAssumption
  <2> QED
    BY <2>1, <2>2 DEF OrphanInv, Indexed
<1>6. WorkInv
  <2>1. Idle \in WorkType /\ Idle.queue = <<>>
    BY DEF Idle, WorkType
  <2>2. DOMAIN work.queue = {}
    BY <1>1, <2>1
  <2> QED
    BY <1>1, <2>1, <2>2 DEF WorkInv, QueueFresh
<1> QED
  BY <1>3, <1>4, <1>5, <1>6 DEF Inv

\* Every step keeps the invariant.
LEMMA NextInv ==
    ASSUME Inv, [Next]_vars
    PROVE  Inv'
<1>0. UNCHANGED orphanVars => OrphanInv'
  BY DEF Inv, OrphanInv, Indexed, orphanVars
<1>1. ASSUME NEW t \in Tx, SendTransaction(t, {}) PROVE Inv'
  <2>1. ChainInv' /\ PoolInv'
    BY <1>1, AcceptStep DEF SendTransaction, Inv
  <2>2. work' = Idle /\ UNCHANGED orphanVars
    BY <1>1 DEF SendTransaction
  <2> QED
    BY <1>0, <2>1, <2>2, IdleWork DEF Inv
<1>2. ASSUME NEW block \in Blocks, ConnectTip(block) PROVE Inv'
  <2>1. ChainInv' /\ PoolInv'
    BY <1>2, ConnectStep DEF Inv
  <2>2. work' = Idle /\ UNCHANGED orphanVars
    BY <1>2 DEF ConnectTip
  <2> QED
    BY <1>0, <2>1, <2>2, IdleWork DEF Inv
<1>3. ASSUME NEW refuse \in SUBSET Refusable, DisconnectTip(refuse) PROVE Inv'
  <2>1. ChainInv' /\ PoolInv'
    BY <1>3, DisconnectStep DEF Inv
  <2>2. work' = Idle /\ UNCHANGED orphanVars
    BY <1>3 DEF DisconnectTip
  <2> QED
    BY <1>0, <2>1, <2>2, IdleWork DEF Inv
<1>4. ASSUME NEW t \in Tx, TxAccepted(t, {}) PROVE Inv'
  <2>1. /\ Verdict(pool, chain, t, {}) = "accepted" /\ pool' = Add(pool, t)
        /\ work' = [Idle EXCEPT !.queue = <<t>>, !.accepted = {t}] /\ UNCHANGED chain /\ UNCHANGED orphanVars
    BY <1>4 DEF TxAccepted
  <2>2. ChainInv' /\ PoolInv'
    BY <2>1, AcceptStep DEF Inv
  <2>3. /\ work' \in WorkType /\ work'.queue = <<t>> /\ work'.tried = {} /\ work'.erase = {}
        /\ work'.accepted = {t}
    <3>1. <<t>> \in Seq(Tx)
      OBVIOUS
    <3> DEFINE q == <<t>>
               i == <<>>
    <3>2. i \in Seq(Tx)
      OBVIOUS
    <3> HIDE DEF q, i
    <3>3. work' = [[queue |-> i, tried |-> {}, erase |-> {}, misbehaving |-> {}, accepted |-> {}]
                      EXCEPT !.queue = q, !.accepted = {t}]
      BY <2>1 DEF Idle, q, i
    <3>4. /\ work' \in WorkType /\ work'.queue = q /\ work'.tried = {} /\ work'.erase = {}
          /\ work'.accepted = {t}
      BY <3>1, <3>2, <3>3 DEF WorkType, q
    <3> QED
      BY <3>4 DEF q
  <2>4. DOMAIN work'.queue = {1} /\ work'.queue[1] = t /\ work'.queue # <<>>
    BY <2>3
  <2>5. /\ t \notin Reward /\ t \notin pool.tx /\ Spends[t] \cap DOMAIN pool.next = {}
        /\ CoinsOf(chain, t) = {} /\ \A u \in Parents(t) : HaveCoins(pool, chain, u)
    BY <2>1, AcceptedMeans
  <2>6. pool'.tx = pool.tx \cup {t}
    <3>1. pool \in Pools
      BY DEF Inv, PoolInv
    <3> QED
      BY <2>1, <2>5, <3>1, AddKeeps
  <2>7. ~ HaveCoins(pool, chain, t)
    BY <2>5 DEF HaveCoins
  <2>8. \A s \in pool.tx \cup {t} : t \notin Parents(s)
    BY <2>5, <2>7, NoChildInPool DEF Inv
  <2>9. QueueFresh'
    BY <2>4, <2>6, <2>8 DEF QueueFresh
  <2>10. ASSUME NEW s PROVE Settled(s)'
    <3>1. CASE t \in Parents(s)
      <4>1. Pending(s)'
        BY <2>3, <2>4, <3>1 DEF Pending
      <4> QED
        BY <4>1 DEF Settled
    <3>2. CASE t \notin Parents(s)
      BY <2>3, <2>4, <3>2 DEF Settled
    <3> QED
      BY <3>1, <3>2
  <2>11. WorkInv'
    BY <2>3, <2>4, <2>9, <2>10 DEF WorkInv
  <2> QED
    BY <1>0, <2>1, <2>2, <2>11 DEF Inv
<1>5. ASSUME NEW t \in Tx, NEW peer \in Peer, TxOrphaned(t, peer) PROVE Inv'
  <2>1. OrphanInv'
    BY <1>5, OrphanedStep DEF Inv
  <2>2. work' = Idle /\ UNCHANGED <<pool, chain>>
    BY <1>5 DEF TxOrphaned
  <2> QED
    BY <2>1, <2>2, SamePool, IdleWork DEF Inv
<1>6. ASSUME NEW t \in Tx, NEW refuse \in SUBSET Refusable, ProcessOrphan(t, refuse) PROVE Inv'
  BY <1>6, OrphanStep
<1>7. CASE NextInQueue
  BY <1>7, QueueStep
<1>8. ASSUME NEW peer \in Peer, EraseOrphansFor(peer) PROVE Inv'
  <2>1. PICK S : EraseOrphans(mapOrphanTransactions, mapOrphanTransactionsByPrev, S)
    BY <1>8 DEF EraseOrphansFor
  <2>2. OrphanInv'
    BY <2>1, EraseStep DEF Inv
  <2>3. work' = Idle /\ UNCHANGED <<pool, chain>>
    BY <1>8 DEF EraseOrphansFor
  <2> QED
    BY <2>2, <2>3, SamePool, IdleWork DEF Inv
<1>9. CASE UNCHANGED vars
  <2>1. UNCHANGED <<pool, chain>> /\ UNCHANGED orphanVars /\ UNCHANGED work
    BY <1>9 DEF vars
  <2>2. ChainInv' /\ PoolInv'
    BY <2>1, SamePool DEF Inv
  <2>3. WorkInv'
    BY <2>1 DEF Inv, WorkInv, QueueFresh, Settled, Pending, orphanVars
  <2> QED
    BY <1>0, <2>1, <2>2, <2>3 DEF Inv
<1> QED
  BY <1>1, <1>2, <1>3, <1>4, <1>5, <1>6, <1>7, <1>8, <1>9 DEF Next

\* The invariant holds for any transactions, blocks and policies, and however many
\* orphans there may be.
THEOREM SpecInv == Spec => []Inv
  BY InitInv, NextInv, PTL DEF Spec

\* What CTxMemPool::check asserts always holds: the inputs of the pool are in the
\* pool or spendable coins of the chain, and mapNextTx has exactly them.
THEOREM SpecPoolConsistent == Spec => []PoolConsistent
<1>1. Inv => PoolConsistent
  <2> SUFFICES ASSUME Inv PROVE PoolConsistent
    OBVIOUS
  <2>1. /\ pool.tx \subseteq Tx \ Reward
        /\ DOMAIN pool.next \subseteq Outpoint
        /\ \A o \in DOMAIN pool.next : pool.next[o] \in pool.tx
    BY PoolType DEF Inv, PoolInv
  <2>2. Ran(pool.next) \subseteq Tx
    BY <2>1 DEF Ran
  <2>3. Exact(pool)
    BY DEF Inv, PoolInv, Pools
  <2>4. Ran(mapOrphanTransactions) \subseteq Peer
    BY DEF Inv, OrphanInv, Ran
  <2>5. TypeOK
    BY <2>1, <2>2, <2>4 DEF TypeOK, Inv, ChainInv, OrphanInv, WorkInv, WorkType
  <2>6. \A t \in pool.tx : \A o \in Spends[t] :
            Creator[o] \in pool.tx \/ (o \in Unspent(chain) /\ Mature(chain, o))
    BY DEF Inv, PoolInv, Backed, Spendable
  <2> QED
    BY <2>3, <2>5, <2>6 DEF PoolConsistent, Exact
<1> QED
  BY <1>1, SpecInv, PTL

\* The assertion in removeCoinbaseSpends never fires, whatever AcceptToMemoryPool
\* refuses while DisconnectTip puts the transactions of a block back.
THEOREM SpecDisconnectAssertHolds == Spec => []DisconnectAssertHolds
<1>1. Inv => DisconnectAssertHolds
  <2> SUFFICES ASSUME Inv, work = Idle, Len(chain) > 1, NEW refuse \in SUBSET Refusable
               PROVE  LET rest == SubSeq(chain, 1, Len(chain) - 1)
                          R == Resurrect(pool, rest, chain[Len(chain)], refuse)
                      IN  \A t \in R.tx : \A u \in Parents(t) :
                              u \in R.tx \/ CoinsOf(rest, u) # {}
    BY DEF DisconnectAssertHolds
  <2> DEFINE rest == SubSeq(chain, 1, Len(chain) - 1)
             R == Resurrect(pool, rest, chain[Len(chain)], refuse)
  <2>1. Backed(R, Unspent(rest))
    BY ResurrectStep DEF Inv
  <2> HIDE DEF R, rest
  <2>2. \A t \in R.tx : \A u \in Parents(t) : u \in R.tx \/ CoinsOf(rest, u) # {}
    BY <2>1 DEF Backed, Parents, CoinsOf
  <2> QED
    BY <2>2 DEF R, rest
<1> QED
  BY <1>1, SpecInv, PTL

\* The two orphan maps always agree.
THEOREM SpecOrphanIndexExact == Spec => []OrphanIndexExact
<1>1. Inv => OrphanIndexExact
  BY DEF Inv, OrphanInv, Indexed, OrphanIndexExact
<1> QED
  BY <1>1, SpecInv, PTL

\* The "tx" handler leaves no orphan behind that it could have let in.
THEOREM SpecOrphansResolved == Spec => OrphansResolved
<1> DEFINE Resolved ==
        (work # Idle /\ work' = Idle) =>
            \A t \in DOMAIN mapOrphanTransactions' :
                \/ Parents(t) \cap work.accepted = {}
                \/ mapOrphanTransactions[t] \in work.misbehaving
                \/ Spends[t] \cap DOMAIN pool.next # {}
                \/ Verdict(pool, chain, t, {}) = "missing inputs"
<1>1. Inv /\ [Next]_vars => [Resolved]_vars
  <2> SUFFICES ASSUME Inv, Next, work # Idle, work' = Idle,
                      NEW t \in DOMAIN mapOrphanTransactions'
               PROVE  \/ Parents(t) \cap work.accepted = {}
                      \/ mapOrphanTransactions[t] \in work.misbehaving
                      \/ Spends[t] \cap DOMAIN pool.next # {}
                      \/ Verdict(pool, chain, t, {}) = "missing inputs"
    OBVIOUS
  <2>1. work \in WorkType /\ work.queue \in Seq(Tx) /\ work.queue # <<>>
    BY DEF Inv, WorkInv, WorkType
  <2>2. Idle.queue = <<>> /\ Idle.tried = {}
    BY DEF Idle
  <2>3. NextInQueue
    <3>1. ASSUME NEW s \in Tx, NEW refuse, ProcessOrphan(s, refuse) PROVE FALSE
      <4>1. work'.tried = work.tried \cup {s}
        <5>1. \/ work' = [work EXCEPT !.tried = @ \cup {s}]
              \/ work' = [[work EXCEPT !.tried = @ \cup {s}]
                             EXCEPT !.queue = Append(@, s), !.erase = @ \cup {s},
                                    !.accepted = @ \cup {s}]
              \/ \E m : work' = [[work EXCEPT !.tried = @ \cup {s}]
                             EXCEPT !.erase = @ \cup {s}, !.misbehaving = m]
          BY <3>1 DEF ProcessOrphan
        <5> QED
          BY <2>1, <5>1 DEF WorkType
      <4> QED
        BY <2>2, <4>1
    <3> QED
      BY <3>1 DEF Next, SendTransaction, ConnectTip, DisconnectTip, TxAccepted, TxOrphaned,
                  EraseOrphansFor
  <2>4. Len(work.queue) = 1
    <3> DEFINE n == Len(work.queue)
    <3>1. n \in Nat /\ n # 0
      BY <2>1
    <3>2. ASSUME n > 1 PROVE FALSE
      <4>1. work' = [work EXCEPT !.queue = Tail(@), !.tried = {}]
        BY <2>3, <3>2 DEF NextInQueue
      <4>2. work'.queue = Tail(work.queue)
        BY <2>1, <4>1 DEF WorkType
      <4>3. Tail(work.queue) # <<>>
        BY <2>1, <3>2
      <4> QED
        BY <2>2, <4>2, <4>3
    <3> HIDE DEF n
    <3>3. n = 1
      BY <3>1, <3>2
    <3> QED
      BY <3>3 DEF n
  <2>5. Waiting = {} /\ EraseOrphans(mapOrphanTransactions, mapOrphanTransactionsByPrev, work.erase)
    BY <2>3, <2>4 DEF NextInQueue
  <2>6. t \in DOMAIN mapOrphanTransactions \ work.erase
    BY <2>5, EraseStep DEF Inv
  <2>7. Settled(t)
    BY <2>6 DEF Inv, WorkInv
  <2>8. Head(work.queue) = work.queue[1] /\ DOMAIN work.queue = {1}
    BY <2>1, <2>4
  <2>9. ~ Pending(t)
    <3> SUFFICES ASSUME Pending(t) PROVE FALSE
      OBVIOUS
    <3>1. work.queue[1] \in Parents(t) /\ t \notin work.tried
      BY <2>8 DEF Pending
    <3>2. t \in Waiting
      BY <2>6, <3>1, WaitingMeans
    <3> QED
      BY <2>5, <3>2
  <2> QED
    BY <2>7, <2>8, <2>9 DEF Settled
<1> QED
  BY <1>1, SpecInv, PTL DEF Spec, OrphansResolved

=============================================================================
