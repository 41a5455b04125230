--------------------------- MODULE AddrManProofs ---------------------------
(***************************************************************************)
(* Proofs about AddrMan.  Every operation is put together from a few steps *)
(* (an entry comes or goes, gets or loses a place), each of which keeps    *)
(* Sound(m, k): the tables agree in everything, but k new entries are not  *)
(* counted, as within MakeTried, and an entry may be without a place, as   *)
(* within Add_ and Unserialize.                                            *)
(***************************************************************************)
EXTENDS AddrMan, WellFoundedInduction, FiniteSetTheorems, TLAPS

------------------------------------------------------------------------------
(* Induction over the natural numbers, for sets of numbers.                 *)

\* A set of numbers that is not empty has a least element.
LEMMA LeastNatural ==
    ASSUME NEW S \in SUBSET Nat, S # {}
    PROVE  \E m \in S : \A k \in S : m <= k
<1> DEFINE R == {ss \in Nat \X Nat : ss[1] < ss[2]}
<1>1. IsWellFoundedOn(R, Nat)
  BY NatLessThanWellFounded DEF OpToRel
<1>2. \A j, k \in Nat : j < k => <<j, k>> \in R
  OBVIOUS
<1> HIDE DEF R
<1>3. PICK m \in S : \A k \in S : ~ (<<k, m>> \in R)
  BY <1>1, WFMin
<1>4. \A k \in S : ~ (k < m)
  BY <1>2, <1>3
<1> QED
  BY <1>3, <1>4

\* Induction from each number to the next, up to N.
LEMMA UpToInduction ==
    ASSUME NEW N \in Nat, NEW S, 0 \in S, \A n \in 1 .. N : n - 1 \in S => n \in S
    PROVE  0 .. N \subseteq S
<1> DEFINE T == {n \in 0 .. N : n \notin S}
<1> SUFFICES ASSUME T # {} PROVE FALSE
  OBVIOUS
<1>1. PICK m \in T : \A k \in T : m <= k
  <2>1. T \in SUBSET Nat
    OBVIOUS
  <2> HIDE DEF T
  <2> QED
    BY <2>1, LeastNatural
<1>2. m \in 1 .. N /\ m \notin S
  BY <1>1
<1>3. m - 1 \in S
  BY <1>1, <1>2
<1> QED
  BY <1>2, <1>3

------------------------------------------------------------------------------
Fields == {"info", "addr", "random", "new", "tried", "nNew", "nTried", "nIdCount"}
Ids(m) == DOMAIN m.info
Entry(n) == [addr : Addr, source : Source, refs : 0 .. MaxRefs, tried : BOOLEAN, pos : 1 .. n]

TypeInv(m) ==
    /\ DOMAIN m = Fields
    /\ m.nIdCount \in Nat /\ m.nNew \in Int /\ m.nTried \in Int
    /\ Ids(m) \subseteq 0 .. m.nIdCount - 1
    /\ m.random \in Seq(Ids(m))
    /\ \A id \in Ids(m) : m.info[id] \in Entry(Len(m.random))
    /\ DOMAIN m.addr \subseteq Addr
    /\ m.new \in [NB \X Pos -> Ids(m) \cup {Nobody}]
    /\ m.tried \in [TB \X Pos -> Ids(m) \cup {Nobody}]

RandomInv(m) ==
    /\ \A id \in Ids(m) : m.random[m.info[id].pos] = id
    /\ \A i \in 1 .. Len(m.random) : m.info[m.random[i]].pos = i

AddrInv(m) ==
    /\ \A id \in Ids(m) : m.info[id].addr \in DOMAIN m.addr /\ m.addr[m.info[id].addr] = id
    /\ \A a \in DOMAIN m.addr : m.addr[a] \in Ids(m) /\ m.info[m.addr[a]].addr = a

NewInv(m) == \A id \in Ids(m) :
    /\ m.info[id].refs = Cardinality(NewPlaces(m, id))
    /\ m.info[id].tried => m.info[id].refs = 0
    /\ \A p \in NewPlaces(m, id) : p[2] = NewPos[<<m.info[id].addr, p[1]>>]

TriedInv(m) ==
    /\ \A id \in Ids(m) : m.info[id].tried <=> m.tried[TriedPlace(m.info[id].addr)] = id
    /\ \A p \in TB \X Pos : m.tried[p] # Nobody => TriedPlace(m.info[m.tried[p]].addr) = p

TriedIds(m) == {id \in Ids(m) : m.info[id].tried}
NewIds(m) == {id \in Ids(m) : ~ m.info[id].tried}
Unplaced(m) == {id \in Ids(m) : m.info[id].refs = 0 /\ ~ m.info[id].tried}

CountInv(m, k) == m.nTried = Cardinality(TriedIds(m)) /\ m.nNew + k = Cardinality(NewIds(m))

Sound(m, k) ==
    TypeInv(m) /\ RandomInv(m) /\ AddrInv(m) /\ NewInv(m) /\ TriedInv(m) /\ CountInv(m, k)

------------------------------------------------------------------------------
(* The constants.                                                           *)

LEMMA Counts ==
    /\ NewBuckets \in Nat /\ TriedBuckets \in Nat /\ BucketSize \in Nat
    /\ MaxRefs \in Nat /\ MaxIds \in Nat
    /\ NewBuckets > 0 /\ TriedBuckets > 0 /\ BucketSize > 0 /\ MaxRefs > 0 /\ MaxIds > 0
<1>1. \A n \in {NewBuckets, TriedBuckets, BucketSize, MaxRefs, MaxIds} : n \in Nat /\ n # 0
  BY CountAssumption
<1>2. \A n \in Nat : n # 0 => n > 0
  OBVIOUS
<1> QED
  BY <1>1, <1>2

LEMMA PlacesFinite ==
    IsFiniteSet(NB \X Pos) /\ IsFiniteSet(TB \X Pos)
<1>1. IsFiniteSet(NB) /\ IsFiniteSet(TB) /\ IsFiniteSet(Pos)
  BY Counts, FS_Interval DEF NB, TB, Pos
<1> QED
  BY <1>1, FS_Product

\* A place in the new table, and the tried one, for an address.
LEMMA NewPlaceType ==
    ASSUME NEW a \in Addr, NEW b \in NB
    PROVE  NewPlace(a, b) \in NB \X Pos /\ NewPlace(a, b)[1] = b
           /\ NewPlace(a, b)[2] = NewPos[<<a, b>>]
<1>1. NewPos[<<a, b>>] \in Pos
  BY HashAssumption
<1> QED
  BY <1>1 DEF NewPlace

LEMMA SourceBucketType ==
    ASSUME NEW a \in Addr, NEW s \in Source
    PROVE  NewBucket[<<a, s>>] \in NB
BY HashAssumption

LEMMA TriedPlaceType ==
    ASSUME NEW a \in Addr
    PROVE  TriedPlace(a) \in TB \X Pos
<1>1. TriedBucket[a] \in TB /\ TriedPos[a] \in Pos
  BY HashAssumption
<1> QED
  BY <1>1 DEF TriedPlace

\* The ids of a table are a finite set of numbers.
LEMMA IdsFinite ==
    ASSUME NEW m, TypeInv(m)
    PROVE  IsFiniteSet(Ids(m)) /\ Ids(m) \subseteq Nat /\ Nobody \notin Ids(m)
           /\ IsFiniteSet(TriedIds(m)) /\ IsFiniteSet(NewIds(m))
<1>1. m.nIdCount \in Nat /\ Ids(m) \subseteq 0 .. m.nIdCount - 1
  BY DEF TypeInv
<1> DEFINE N == m.nIdCount
           D == Ids(m)
<1>2. D \subseteq 0 .. N - 1 /\ N \in Nat
  BY <1>1
<1>3. TriedIds(m) \subseteq D /\ NewIds(m) \subseteq D
  BY DEF TriedIds, NewIds
<1> HIDE DEF N, D
<1>4. IsFiniteSet(0 .. N - 1)
  BY <1>2, FS_Interval
<1>5. IsFiniteSet(D)
  BY <1>2, <1>4, FS_Subset
<1>6. IsFiniteSet(TriedIds(m)) /\ IsFiniteSet(NewIds(m))
  BY <1>3, <1>5, FS_Subset
<1>7. D \subseteq Nat /\ Nobody \notin D
  BY <1>2 DEF Nobody
<1> QED
  BY <1>5, <1>6, <1>7 DEF D

LEMMA CardRemove ==
    ASSUME NEW S, NEW T, NEW x, IsFiniteSet(S), T = S \ {x}, x \in S
    PROVE  Cardinality(T) = Cardinality(S) - 1 /\ Cardinality(S) \in Nat
BY FS_RemoveElement, FS_CardinalityType

LEMMA NewPlacesFinite ==
    ASSUME NEW m, NEW id
    PROVE  IsFiniteSet(NewPlaces(m, id))
<1>1. NewPlaces(m, id) \subseteq NB \X Pos
  BY DEF NewPlaces
<1> QED
  BY <1>1, PlacesFinite, FS_Subset

------------------------------------------------------------------------------
(* An entry comes: Create.                                                  *)

Fresh(m, a, s) ==
    [addr |-> a, source |-> s, refs |-> 0, tried |-> FALSE, pos |-> Len(m.random) + 1]

LEMMA CreateFields ==
    ASSUME NEW m, DOMAIN m = Fields, NEW a, NEW s
    PROVE  LET r == Create(m, a, s) IN
           /\ DOMAIN r = Fields /\ r.nIdCount = m.nIdCount + 1
           /\ r.info = With(m.info, m.nIdCount, Fresh(m, a, s))
           /\ r.addr = With(m.addr, a, m.nIdCount)
           /\ r.random = Append(m.random, m.nIdCount)
           /\ r.new = m.new /\ r.tried = m.tried /\ r.nNew = m.nNew /\ r.nTried = m.nTried
BY DEF Create, Fields, Fresh

\* What Create does to the entries.
LEMMA CreateEntries ==
    ASSUME NEW m, TypeInv(m), NEW a \in Addr, NEW s \in Source
    PROVE  LET r == Create(m, a, s) IN
           /\ m.nIdCount \notin Ids(m) /\ m.nIdCount \in Nat
           /\ Ids(r) = Ids(m) \cup {m.nIdCount}
           /\ r.info[m.nIdCount] = Fresh(m, a, s)
           /\ \A x \in Ids(m) : r.info[x] = m.info[x]
<1> DEFINE r == Create(m, a, s)
           id == m.nIdCount
           e == Fresh(m, a, s)
<1>1. DOMAIN m = Fields /\ id \in Nat /\ Ids(m) \subseteq 0 .. id - 1
  BY DEF TypeInv
<1>2. r.info = With(m.info, id, e)
  BY <1>1, CreateFields
<1> HIDE DEF r, id, e
<1>3. id \notin Ids(m)
  BY <1>1
<1>4. Ids(r) = Ids(m) \cup {id}
  BY <1>2 DEF Ids, With
<1>5. r.info[id] = e
  BY <1>2 DEF With
<1>6. \A x \in Ids(m) : r.info[x] = m.info[x]
  BY <1>2, <1>3 DEF With, Ids
<1> QED
  BY <1>1, <1>3, <1>4, <1>5, <1>6 DEF r, id, e

LEMMA CreateSound ==
    ASSUME NEW m, NEW k \in Nat, Sound(m, k), NEW a \in Addr, NEW s \in Source, a \notin DOMAIN m.addr
    PROVE  Sound(Create(m, a, s), k + 1)
<1> DEFINE r == Create(m, a, s)
           id == m.nIdCount
           e == Fresh(m, a, s)
           L == Len(m.random)
<1>t. TypeInv(m) /\ DOMAIN m = Fields
  BY DEF Sound, TypeInv
<1>f. /\ DOMAIN r = Fields /\ r.nIdCount = id + 1
      /\ r.addr = With(m.addr, a, id) /\ r.random = Append(m.random, id)
      /\ r.new = m.new /\ r.tried = m.tried /\ r.nNew = m.nNew /\ r.nTried = m.nTried
  BY <1>t, CreateFields
<1>e. /\ id \notin Ids(m) /\ id \in Nat /\ Ids(r) = Ids(m) \cup {id}
      /\ r.info[id] = e /\ \A x \in Ids(m) : r.info[x] = m.info[x]
  BY <1>t, CreateEntries
<1>r. m.random \in Seq(Ids(m)) /\ L \in Nat
  BY <1>t DEF TypeInv
<1>n. e.addr = a /\ e.source = s /\ e.refs = 0 /\ e.tried = FALSE /\ e.pos = L + 1
  BY DEF Fresh
<1>E. e \in Entry(L + 1)
  <2>1. 0 \in 0 .. MaxRefs /\ L + 1 \in 1 .. L + 1
    BY Counts, <1>r
  <2> QED
    BY <2>1 DEF Entry, Fresh
<1> HIDE DEF r, id, e
<1>l. Len(r.random) = L + 1 /\ r.random \in Seq(Ids(r)) /\ r.random[L + 1] = id
      /\ \A i \in 1 .. L : r.random[i] = m.random[i]
  <2>1. m.random \in Seq(Ids(r)) /\ id \in Ids(r)
    BY <1>e, <1>r
  <2> QED
    BY <2>1, <1>f, <1>r
<1> HIDE DEF L
<1>1. TypeInv(r)
  <2>1. r.nIdCount \in Nat /\ r.nNew \in Int /\ r.nTried \in Int
    BY <1>f, <1>e, <1>t DEF TypeInv
  <2>2. Ids(r) \subseteq 0 .. r.nIdCount - 1
    <3>1. Ids(m) \subseteq 0 .. id - 1
      BY <1>t DEF TypeInv, id
    <3> QED
      BY <3>1, <1>e, <1>f
  <2>3. ASSUME NEW x \in Ids(r) PROVE r.info[x] \in Entry(Len(r.random))
    <3>1. CASE x = id
      BY <3>1, <1>e, <1>E, <1>l
    <3>2. CASE x # id
      <4>1. x \in Ids(m) /\ r.info[x] = m.info[x]
        BY <3>2, <1>e
      <4>2. m.info[x] \in Entry(L)
        BY <4>1, <1>t DEF TypeInv, L
      <4>3. 1 .. L \subseteq 1 .. L + 1
        BY <1>r DEF L
      <4> QED
        BY <4>1, <4>2, <4>3, <1>l DEF Entry
    <3> QED
      BY <3>1, <3>2
  <2>4. DOMAIN r.addr \subseteq Addr
    BY <1>f, <1>t DEF TypeInv, With
  <2>5. r.new \in [NB \X Pos -> Ids(r) \cup {Nobody}] /\ r.tried \in [TB \X Pos -> Ids(r) \cup {Nobody}]
    BY <1>f, <1>t, <1>e DEF TypeInv
  <2> QED
    BY <2>1, <2>2, <2>3, <2>4, <2>5, <1>f, <1>l DEF TypeInv
<1>2. RandomInv(r)
  <2>1. ASSUME NEW x \in Ids(r) PROVE r.random[r.info[x].pos] = x
    <3>1. CASE x = id
      BY <3>1, <1>e, <1>n, <1>l
    <3>2. CASE x # id
      <4>1. x \in Ids(m) /\ r.info[x] = m.info[x]
        BY <3>2, <1>e
      <4>2. m.info[x].pos \in 1 .. L /\ m.random[m.info[x].pos] = x
        BY <4>1, <1>t DEF TypeInv, L, Entry, Sound, RandomInv
      <4> QED
        BY <4>1, <4>2, <1>l
    <3> QED
      BY <3>1, <3>2
  <2>2. ASSUME NEW i \in 1 .. Len(r.random) PROVE r.info[r.random[i]].pos = i
    <3>1. CASE i = L + 1
      BY <3>1, <1>e, <1>n, <1>l
    <3>2. CASE i # L + 1
      <4>1. i \in 1 .. L
        BY <3>2, <1>l, <1>r DEF L
      <4>2. r.random[i] = m.random[i] /\ m.random[i] \in Ids(m)
        BY <4>1, <1>l, <1>r DEF L
      <4>3. m.info[m.random[i]].pos = i
        BY <4>1 DEF Sound, RandomInv, L
      <4> QED
        BY <4>2, <4>3, <1>e
    <3> QED
      BY <3>1, <3>2
  <2> QED
    BY <2>1, <2>2 DEF RandomInv
<1>3. AddrInv(r)
  <2>0. DOMAIN r.addr = DOMAIN m.addr \cup {a} /\ r.addr[a] = id
        /\ \A x \in DOMAIN m.addr : r.addr[x] = m.addr[x]
    BY <1>f DEF With
  <2>1. ASSUME NEW x \in Ids(r) PROVE r.info[x].addr \in DOMAIN r.addr /\ r.addr[r.info[x].addr] = x
    <3>1. CASE x = id
      BY <3>1, <1>e, <1>n, <2>0
    <3>2. CASE x # id
      <4>1. x \in Ids(m) /\ r.info[x] = m.info[x]
        BY <3>2, <1>e
      <4>2. m.info[x].addr \in DOMAIN m.addr /\ m.addr[m.info[x].addr] = x
        BY <4>1 DEF Sound, AddrInv
      <4> QED
        BY <4>1, <4>2, <2>0
    <3> QED
      BY <3>1, <3>2
  <2>2. ASSUME NEW x \in DOMAIN r.addr PROVE r.addr[x] \in Ids(r) /\ r.info[r.addr[x]].addr = x
    <3>1. CASE x = a
      BY <3>1, <1>e, <1>n, <2>0
    <3>2. CASE x # a
      <4>1. x \in DOMAIN m.addr /\ r.addr[x] = m.addr[x]
        BY <3>2, <2>0
      <4>2. m.addr[x] \in Ids(m) /\ m.info[m.addr[x]].addr = x
        BY <4>1 DEF Sound, AddrInv
      <4> QED
        BY <4>1, <4>2, <1>e
    <3> QED
      BY <3>1, <3>2
  <2> QED
    BY <2>1, <2>2 DEF AddrInv
<1>4. NewInv(r)
  <2>1. \A x : NewPlaces(r, x) = NewPlaces(m, x)
    BY <1>f DEF NewPlaces
  <2>2. NewPlaces(m, id) = {}
    <3>1. \A p \in NB \X Pos : m.new[p] # id
      <4>1. id # Nobody
        BY <1>e DEF Nobody
      <4> QED
        BY <4>1, <1>t, <1>e DEF TypeInv
    <3> QED
      BY <3>1 DEF NewPlaces
  <2>3. ASSUME NEW x \in Ids(r)
        PROVE  /\ r.info[x].refs = Cardinality(NewPlaces(r, x))
               /\ r.info[x].tried => r.info[x].refs = 0
               /\ \A p \in NewPlaces(r, x) : p[2] = NewPos[<<r.info[x].addr, p[1]>>]
    <3>1. CASE x = id
      BY <3>1, <1>e, <1>n, <2>1, <2>2, FS_EmptySet
    <3>2. CASE x # id
      <4>1. x \in Ids(m) /\ r.info[x] = m.info[x]
        BY <3>2, <1>e
      <4> QED
        BY <4>1, <2>1 DEF Sound, NewInv
    <3> QED
      BY <3>1, <3>2
  <2> QED
    BY <2>3 DEF NewInv
<1>5. TriedInv(r)
  <2>1. \A p \in TB \X Pos : m.tried[p] # id
    <3>1. id # Nobody
      BY <1>e DEF Nobody
    <3> QED
      BY <3>1, <1>t, <1>e DEF TypeInv
  <2>2. ASSUME NEW x \in Ids(r) PROVE r.info[x].tried <=> r.tried[TriedPlace(r.info[x].addr)] = x
    <3>1. CASE x = id
      BY <3>1, <1>e, <1>n, <2>1, <1>f, TriedPlaceType
    <3>2. CASE x # id
      <4>1. x \in Ids(m) /\ r.info[x] = m.info[x]
        BY <3>2, <1>e
      <4> QED
        BY <4>1, <1>f DEF Sound, TriedInv
    <3> QED
      BY <3>1, <3>2
  <2>3. ASSUME NEW p \in TB \X Pos, r.tried[p] # Nobody
        PROVE  TriedPlace(r.info[r.tried[p]].addr) = p
    <3>1. m.tried[p] \in Ids(m) /\ r.tried[p] = m.tried[p]
      BY <2>3, <1>f, <1>t DEF TypeInv
    <3> QED
      BY <3>1, <2>3, <1>e, <1>f DEF Sound, TriedInv
  <2> QED
    BY <2>2, <2>3 DEF TriedInv
<1>6. CountInv(r, k + 1)
  <2>1. TriedIds(r) = TriedIds(m)
    BY <1>e, <1>n DEF TriedIds
  <2>2. NewIds(r) = NewIds(m) \cup {id} /\ id \notin NewIds(m)
    BY <1>e, <1>n DEF NewIds
  <2>3. IsFiniteSet(NewIds(m))
    BY <1>t, IdsFinite
  <2>4. Cardinality(NewIds(r)) = Cardinality(NewIds(m)) + 1
    BY <2>2, <2>3, FS_AddElement
  <2>5. m.nNew + k = Cardinality(NewIds(m)) /\ m.nTried = Cardinality(TriedIds(m))
    BY DEF Sound, CountInv
  <2>6. m.nNew \in Int
    BY <1>t DEF TypeInv
  <2>7. r.nNew + (k + 1) = Cardinality(NewIds(r))
    BY <2>4, <2>5, <2>6, <1>f
  <2> QED
    BY <2>1, <2>5, <2>7, <1>f DEF CountInv
<1> QED
  BY <1>1, <1>2, <1>3, <1>4, <1>5, <1>6 DEF Sound, r

------------------------------------------------------------------------------
(* Changes of one entry.                                                    *)

LEMMA EntryFields ==
    ASSUME NEW n \in Nat, NEW e \in Entry(n)
    PROVE  /\ e.addr \in Addr /\ e.source \in Source /\ e.refs \in 0 .. MaxRefs
           /\ e.tried \in BOOLEAN /\ e.pos \in 1 .. n
           /\ e.refs \in Nat /\ e.pos \in Nat
BY Counts DEF Entry

LEMMA EntryPos ==
    ASSUME NEW n \in Nat, NEW e \in Entry(n), NEW j \in 1 .. n
    PROVE  LET f == [e EXCEPT !.pos = j] IN
           /\ f \in Entry(n) /\ f.addr = e.addr /\ f.source = e.source /\ f.refs = e.refs
           /\ f.tried = e.tried /\ f.pos = j
BY DEF Entry

LEMMA EntryRefs ==
    ASSUME NEW n \in Nat, NEW e \in Entry(n), NEW j \in 0 .. MaxRefs
    PROVE  LET f == [e EXCEPT !.refs = j] IN
           /\ f \in Entry(n) /\ f.addr = e.addr /\ f.source = e.source /\ f.refs = j
           /\ f.tried = e.tried /\ f.pos = e.pos
BY DEF Entry

LEMMA EntryTried ==
    ASSUME NEW n \in Nat, NEW e \in Entry(n), NEW j \in BOOLEAN
    PROVE  LET f == [e EXCEPT !.tried = j] IN
           /\ f \in Entry(n) /\ f.addr = e.addr /\ f.source = e.source /\ f.refs = e.refs
           /\ f.tried = j /\ f.pos = e.pos
BY DEF Entry

\* The tables m and r have the same entries, but for their positions in vRandom.
SameEntries(m, r) ==
    /\ Ids(r) = Ids(m)
    /\ \A x \in Ids(m) : /\ r.info[x].addr = m.info[x].addr /\ r.info[x].source = m.info[x].source
                         /\ r.info[x].refs = m.info[x].refs /\ r.info[x].tried = m.info[x].tried

\* m and r have the same places.
SamePlaces(m, r) == r.new = m.new /\ r.tried = m.tried

SameCounts(m, r) == r.nNew = m.nNew /\ r.nTried = m.nTried /\ r.nIdCount = m.nIdCount

LEMMA PlacesFrame ==
    ASSUME NEW m, NEW r, SameEntries(m, r), SamePlaces(m, r), TypeInv(m)
    PROVE  /\ NewInv(m) => NewInv(r)
           /\ TriedInv(m) => TriedInv(r)
           /\ TriedIds(r) = TriedIds(m) /\ NewIds(r) = NewIds(m) /\ Unplaced(r) = Unplaced(m)
<1>1. \A x : NewPlaces(r, x) = NewPlaces(m, x)
  BY DEF NewPlaces, SamePlaces
<1>2. NewInv(m) => NewInv(r)
  BY <1>1 DEF NewInv, SameEntries
<1>3. ASSUME TriedInv(m) PROVE TriedInv(r)
  <2>1. \A x \in Ids(r) : r.info[x].tried <=> r.tried[TriedPlace(r.info[x].addr)] = x
    BY <1>3 DEF TriedInv, SameEntries, SamePlaces
  <2>2. ASSUME NEW p \in TB \X Pos, r.tried[p] # Nobody
        PROVE  TriedPlace(r.info[r.tried[p]].addr) = p
    <3>1. m.tried[p] \in Ids(m) /\ r.tried[p] = m.tried[p] /\ m.tried[p] # Nobody
      BY <2>2 DEF TypeInv, SamePlaces
    <3>2. TriedPlace(m.info[m.tried[p]].addr) = p
      BY <3>1, <1>3 DEF TriedInv
    <3> QED
      BY <3>1, <3>2 DEF SameEntries
  <2> QED
    BY <2>1, <2>2 DEF TriedInv
<1>4. TriedIds(r) = TriedIds(m) /\ NewIds(r) = NewIds(m) /\ Unplaced(r) = Unplaced(m)
  BY DEF TriedIds, NewIds, Unplaced, SameEntries
<1> QED
  BY <1>2, <1>3, <1>4

LEMMA AddrFrame ==
    ASSUME NEW m, NEW r, SameEntries(m, r), r.addr = m.addr, AddrInv(m)
    PROVE  AddrInv(r)
<1>1. \A id \in Ids(r) : r.info[id].addr \in DOMAIN r.addr /\ r.addr[r.info[id].addr] = id
  BY DEF AddrInv, SameEntries
<1>2. \A a \in DOMAIN r.addr : r.addr[a] \in Ids(r) /\ r.info[r.addr[a]].addr = a
  BY DEF AddrInv, SameEntries
<1> QED
  BY <1>1, <1>2 DEF AddrInv

------------------------------------------------------------------------------
(* SwapRandom.                                                              *)

LEMMA SwapFields ==
    ASSUME NEW m, DOMAIN m = Fields, NEW i, NEW j
    PROVE  LET r == SwapRandom(m, i, j) IN
           /\ DOMAIN r = Fields /\ r.addr = m.addr /\ SamePlaces(m, r) /\ SameCounts(m, r)
BY DEF SwapRandom, Fields, SamePlaces, SameCounts

LEMMA SwapSound ==
    ASSUME NEW m, NEW k \in Nat, Sound(m, k),
           NEW i \in 1 .. Len(m.random), NEW j \in 1 .. Len(m.random)
    PROVE  LET r == SwapRandom(m, i, j) IN
           /\ Sound(r, k) /\ SameEntries(m, r) /\ SamePlaces(m, r) /\ SameCounts(m, r)
           /\ r.addr = m.addr /\ Len(r.random) = Len(m.random) /\ r.random[j] = m.random[i]
<1> DEFINE r == SwapRandom(m, i, j)
           L == Len(m.random)
           x == m.random[i]
           y == m.random[j]
<1>t. TypeInv(m) /\ DOMAIN m = Fields
  BY DEF Sound, TypeInv
<1>1. CASE i = j
  <2>1. r = m
    BY <1>1 DEF SwapRandom
  <2> QED
    BY <2>1, <1>1 DEF SameEntries, SamePlaces, SameCounts
<1>2. CASE i # j
  <2>f. /\ DOMAIN r = Fields /\ r.addr = m.addr /\ SamePlaces(m, r) /\ SameCounts(m, r)
        /\ r.random = [m.random EXCEPT ![i] = y, ![j] = x]
        /\ r.info = [m.info EXCEPT ![x].pos = j, ![y].pos = i]
    <3>1. DOMAIN r = Fields /\ r.addr = m.addr /\ SamePlaces(m, r) /\ SameCounts(m, r)
      BY <1>t, SwapFields
    <3>2. r.random = [m.random EXCEPT ![i] = y, ![j] = x]
      BY <1>2, <1>t DEF SwapRandom, Fields
    <3>3. r.info = [m.info EXCEPT ![x].pos = j, ![y].pos = i]
      BY <1>2, <1>t DEF SwapRandom, Fields
    <3> QED
      BY <3>1, <3>2, <3>3
  <2>r. m.random \in Seq(Ids(m)) /\ L \in Nat /\ x \in Ids(m) /\ y \in Ids(m)
        /\ i \in 1 .. L /\ j \in 1 .. L
    BY <1>t DEF TypeInv
  <2>p. m.info[x].pos = i /\ m.info[y].pos = j
    BY DEF Sound, RandomInv
  <2>d. x # y
    BY <2>p, <1>2
  <2>E. \A z \in Ids(m) : m.info[z] \in Entry(L)
    BY <1>t DEF TypeInv
  <2>R. \A n \in 1 .. L : m.random[n] \in Ids(m) /\ m.info[m.random[n]].pos = n
    BY <2>r DEF Sound, RandomInv
  <2>S. \A z \in Ids(m) : m.info[z].pos \in 1 .. L /\ m.random[m.info[z].pos] = z
    BY <2>E, <2>r, EntryFields DEF Sound, RandomInv
  <2> DEFINE e == [m.info[x] EXCEPT !.pos = j]
             f == [m.info[y] EXCEPT !.pos = i]
  <2>e. e \in Entry(L) /\ e.pos = j /\ f \in Entry(L) /\ f.pos = i
    BY <2>E, <2>r, EntryPos
  <2>u. /\ e.addr = m.info[x].addr /\ e.source = m.info[x].source
        /\ e.refs = m.info[x].refs /\ e.tried = m.info[x].tried
    BY <2>E, <2>r, EntryPos
  <2>v. /\ f.addr = m.info[y].addr /\ f.source = m.info[y].source
        /\ f.refs = m.info[y].refs /\ f.tried = m.info[y].tried
    BY <2>E, <2>r, EntryPos
  <2>1. Ids(r) = Ids(m) /\ r.info[x] = e /\ r.info[y] = f
        /\ \A z \in Ids(m) : z # x /\ z # y => r.info[z] = m.info[z]
    <3> HIDE DEF x, y, r
    <3> QED
      BY <2>f, <2>d, <2>r DEF Ids
  <2> HIDE DEF e, f, r, x, y, L
  <2>2. SameEntries(m, r)
    BY <2>1, <2>u, <2>v, <2>r DEF SameEntries
  <2>3. Len(r.random) = L /\ r.random \in Seq(Ids(m)) /\ r.random[i] = y /\ r.random[j] = x
        /\ \A n \in 1 .. L : n # i /\ n # j => r.random[n] = m.random[n]
    BY <2>f, <2>r, <1>2 DEF L
  <2>4. TypeInv(r)
    <3>1. \A z \in Ids(r) : r.info[z] \in Entry(Len(r.random))
      BY <2>1, <2>3, <2>e, <2>E
    <3> QED
      BY <3>1, <2>1, <2>3, <2>f, <1>t DEF TypeInv, SamePlaces, SameCounts
  <2>5. RandomInv(r)
    <3>1. ASSUME NEW z \in Ids(r) PROVE r.random[r.info[z].pos] = z
      <4>1. CASE z = x
        BY <4>1, <2>1, <2>e, <2>3
      <4>2. CASE z = y
        BY <4>2, <2>1, <2>e, <2>3
      <4>3. CASE z # x /\ z # y
        <5>1. r.info[z] = m.info[z] /\ z \in Ids(m)
          BY <4>3, <2>1
        <5>2. m.info[z].pos \in 1 .. L /\ m.random[m.info[z].pos] = z
          BY <5>1, <2>S
        <5>3. m.info[z].pos # i /\ m.info[z].pos # j
          BY <5>2, <4>3 DEF x, y
        <5> QED
          BY <5>1, <5>2, <5>3, <2>3
      <4> QED
        BY <4>1, <4>2, <4>3
    <3>2. ASSUME NEW n \in 1 .. Len(r.random) PROVE r.info[r.random[n]].pos = n
      <4>1. CASE n = i
        BY <4>1, <2>1, <2>e, <2>3
      <4>2. CASE n = j
        BY <4>2, <2>1, <2>e, <2>3
      <4>3. CASE n # i /\ n # j
        <5>1. n \in 1 .. L /\ r.random[n] = m.random[n]
          BY <4>3, <2>3
        <5>2. m.random[n] \in Ids(m) /\ m.info[m.random[n]].pos = n
          BY <5>1, <2>R
        <5>3. m.random[n] # x /\ m.random[n] # y
          BY <5>2, <4>3, <2>p
        <5> QED
          BY <5>1, <5>2, <5>3, <2>1
      <4> QED
        BY <4>1, <4>2, <4>3
    <3> QED
      BY <3>1, <3>2 DEF RandomInv
  <2>6. AddrInv(r) /\ NewInv(r) /\ TriedInv(r)
    BY <2>2, <2>f, <1>t, AddrFrame, PlacesFrame DEF Sound
  <2>7. CountInv(r, k)
    <3>1. CountInv(m, k)
      BY DEF Sound
    <3>2. TriedIds(r) = TriedIds(m) /\ NewIds(r) = NewIds(m)
      BY <2>2, <2>f, <1>t, PlacesFrame
    <3>3. r.nNew = m.nNew /\ r.nTried = m.nTried
      BY <2>f DEF SameCounts
    <3> QED
      BY <3>1, <3>2, <3>3 DEF CountInv
  <2>8. Sound(r, k)
    BY <2>4, <2>5, <2>6, <2>7 DEF Sound
  <2> QED
    BY <2>8, <2>2, <2>3, <2>f DEF r, L, x
<1> QED
  BY <1>1, <1>2

------------------------------------------------------------------------------
(* An entry goes: Delete.                                                   *)

\* An entry without a place is in no place.
LEMMA UnplacedNowhere ==
    ASSUME NEW m, NEW k, Sound(m, k), NEW id \in Unplaced(m)
    PROVE  /\ \A p \in NB \X Pos : m.new[p] # id
           /\ \A p \in TB \X Pos : m.tried[p] # id
<1>t. TypeInv(m) /\ id \in Ids(m) /\ m.info[id].refs = 0 /\ ~ m.info[id].tried
  BY DEF Sound, Unplaced
<1>1. NewPlaces(m, id) = {}
  <2>1. Cardinality(NewPlaces(m, id)) = 0
    BY <1>t DEF Sound, NewInv
  <2> QED
    BY <2>1, NewPlacesFinite, FS_EmptySet
<1>2. \A p \in NB \X Pos : m.new[p] # id
  BY <1>1 DEF NewPlaces
<1>3. ASSUME NEW p \in TB \X Pos, m.tried[p] = id PROVE FALSE
  <2>1. id # Nobody
    BY <1>t, IdsFinite
  <2>2. TriedPlace(m.info[id].addr) = p
    BY <2>1, <1>3 DEF Sound, TriedInv
  <2> QED
    BY <2>2, <1>3, <1>t DEF Sound, TriedInv
<1> QED
  BY <1>2, <1>3

SameEntry(m, r, x) ==
    /\ r.info[x].addr = m.info[x].addr /\ r.info[x].source = m.info[x].source
    /\ r.info[x].refs = m.info[x].refs /\ r.info[x].tried = m.info[x].tried

\* The end of Delete: the entry is the last of vRandom.
DropLast(s, id) ==
    [s EXCEPT !.random = SubSeq(@, 1, Len(@) - 1),
              !.addr = Without(@, {s.info[id].addr}),
              !.info = Without(@, {id}),
              !.nNew = @ - 1]

LEMMA DropLastSound ==
    ASSUME NEW m, NEW k \in Nat, Sound(m, k), NEW id \in Unplaced(m), m.random[Len(m.random)] = id
    PROVE  LET r == DropLast(m, id) IN
           /\ Sound(r, k) /\ SamePlaces(m, r) /\ r.nTried = m.nTried /\ r.nIdCount = m.nIdCount
           /\ Ids(r) = Ids(m) \ {id} /\ \A x \in Ids(r) : SameEntry(m, r, x)
           /\ DOMAIN r.addr = DOMAIN m.addr \ {m.info[id].addr}
<1> DEFINE r == DropLast(m, id)
           L == Len(m.random)
           a == m.info[id].addr
<1>t. TypeInv(m) /\ DOMAIN m = Fields
  BY DEF Sound, TypeInv
<1>i. id \in Ids(m) /\ m.info[id].refs = 0 /\ ~ m.info[id].tried
  BY DEF Unplaced
<1>f. /\ DOMAIN r = Fields /\ SamePlaces(m, r) /\ r.nTried = m.nTried /\ r.nIdCount = m.nIdCount
      /\ r.random = SubSeq(m.random, 1, L - 1) /\ r.addr = Without(m.addr, {a})
      /\ r.info = Without(m.info, {id}) /\ r.nNew = m.nNew - 1
  BY <1>t DEF DropLast, Fields, SamePlaces
<1>E. \A x \in Ids(m) : m.info[x] \in Entry(L)
  BY <1>t DEF TypeInv
<1>r. m.random \in Seq(Ids(m)) /\ L \in Nat /\ m.random[L] = id
  BY <1>t DEF TypeInv
<1>R. \A n \in 1 .. L : m.random[n] \in Ids(m) /\ m.info[m.random[n]].pos = n
  BY <1>r DEF Sound, RandomInv
<1>S. \A x \in Ids(m) : m.info[x].pos \in 1 .. L /\ m.random[m.info[x].pos] = x
  BY <1>E, <1>r, EntryFields DEF Sound, RandomInv
<1>L. L >= 1
  BY <1>S, <1>i, <1>r
<1>A. /\ \A x \in Ids(m) : m.info[x].addr \in DOMAIN m.addr /\ m.addr[m.info[x].addr] = x
      /\ \A b \in DOMAIN m.addr : m.addr[b] \in Ids(m) /\ m.info[m.addr[b]].addr = b
  BY DEF Sound, AddrInv
<1>p. m.info[id].pos = L
  BY <1>R, <1>L, <1>r
<1>1. Ids(r) = Ids(m) \ {id} /\ \A x \in Ids(r) : r.info[x] = m.info[x]
  BY <1>f DEF Ids, Without
<1>2. DOMAIN r.addr = DOMAIN m.addr \ {a} /\ \A b \in DOMAIN r.addr : r.addr[b] = m.addr[b]
  BY <1>f DEF Without
<1> HIDE DEF r, L, a
<1>3. Len(r.random) = L - 1 /\ \A n \in 1 .. L - 1 : r.random[n] = m.random[n]
  BY <1>f, <1>r, <1>L DEF L
<1>4. \A x \in Ids(r) : r.info[x].pos \in 1 .. L - 1
  <2>1. \A x \in Ids(r) : m.info[x].pos # L
    BY <1>S, <1>1, <1>r
  <2> QED
    BY <2>1, <1>1, <1>S, <1>r
<1>5. \A n \in 1 .. L - 1 : m.random[n] \in Ids(r)
  <2>1. \A n \in 1 .. L - 1 : n \in 1 .. L /\ n # L
    BY <1>r
  <2> QED
    BY <2>1, <1>R, <1>p, <1>1
<1>6. TypeInv(r)
  <2>1. r.random \in Seq(Ids(r))
    <3>1. r.random \in Seq(Ids(m)) /\ Len(r.random) = L - 1
      BY <1>f, <1>r, <1>L, <1>3 DEF L
    <3>2. \A n \in 1 .. Len(r.random) : r.random[n] \in Ids(r)
      BY <3>1, <1>3, <1>5
    <3> QED
      BY <3>1, <3>2
  <2>2. ASSUME NEW x \in Ids(r) PROVE r.info[x] \in Entry(Len(r.random))
    <3>1. r.info[x] = m.info[x] /\ m.info[x] \in Entry(L) /\ m.info[x].pos \in 1 .. L - 1
      BY <1>1, <1>4, <1>E
    <3> QED
      BY <3>1, <1>3 DEF Entry
  <2>3. r.nIdCount \in Nat /\ r.nNew \in Int /\ r.nTried \in Int /\ Ids(r) \subseteq 0 .. r.nIdCount - 1
    BY <1>f, <1>1, <1>t DEF TypeInv
  <2>4. DOMAIN r.addr \subseteq Addr
    BY <1>2, <1>t DEF TypeInv
  <2>5. r.new \in [NB \X Pos -> Ids(r) \cup {Nobody}] /\ r.tried \in [TB \X Pos -> Ids(r) \cup {Nobody}]
    BY <1>f, <1>1, <1>t, UnplacedNowhere DEF TypeInv, SamePlaces
  <2> QED
    BY <1>f, <2>1, <2>2, <2>3, <2>4, <2>5 DEF TypeInv
<1>7. RandomInv(r)
  <2>1. ASSUME NEW x \in Ids(r) PROVE r.random[r.info[x].pos] = x
    BY <1>1, <1>3, <1>4, <1>S
  <2>2. ASSUME NEW n \in 1 .. Len(r.random) PROVE r.info[r.random[n]].pos = n
    <3>1. n \in 1 .. L - 1 /\ n \in 1 .. L
      BY <1>3, <1>r
    <3> QED
      BY <3>1, <1>1, <1>3, <1>5, <1>R
  <2> QED
    BY <2>1, <2>2 DEF RandomInv
<1>8. AddrInv(r)
  <2>1. ASSUME NEW x \in Ids(r) PROVE r.info[x].addr \in DOMAIN r.addr /\ r.addr[r.info[x].addr] = x
    <3>1. x \in Ids(m) /\ x # id /\ r.info[x] = m.info[x]
      BY <1>1
    <3>2. m.info[x].addr # a
      BY <3>1, <1>A, <1>i DEF a
    <3> QED
      BY <3>1, <3>2, <1>A, <1>2
  <2>2. ASSUME NEW b \in DOMAIN r.addr PROVE r.addr[b] \in Ids(r) /\ r.info[r.addr[b]].addr = b
    <3>1. b \in DOMAIN m.addr /\ b # a /\ r.addr[b] = m.addr[b]
      BY <1>2
    <3>2. m.addr[b] \in Ids(m) /\ m.info[m.addr[b]].addr = b /\ m.addr[b] # id
      BY <3>1, <1>A DEF a
    <3> QED
      BY <3>1, <3>2, <1>1
  <2> QED
    BY <2>1, <2>2 DEF AddrInv
<1>9. NewInv(r)
  <2>1. \A x : NewPlaces(r, x) = NewPlaces(m, x)
    BY <1>f DEF NewPlaces, SamePlaces
  <2> QED
    BY <2>1, <1>1 DEF Sound, NewInv
<1>10. TriedInv(r)
  <2>1. \A x \in Ids(r) : r.info[x].tried <=> r.tried[TriedPlace(r.info[x].addr)] = x
    BY <1>1, <1>f DEF Sound, TriedInv, SamePlaces
  <2>2. ASSUME NEW p \in TB \X Pos, r.tried[p] # Nobody
        PROVE  TriedPlace(r.info[r.tried[p]].addr) = p
    <3>1. r.tried[p] = m.tried[p] /\ r.tried[p] \in Ids(r)
      BY <2>2, <1>6, <1>f DEF TypeInv, SamePlaces
    <3>2. TriedPlace(m.info[m.tried[p]].addr) = p
      BY <3>1, <2>2 DEF Sound, TriedInv
    <3> QED
      BY <3>1, <3>2, <1>1
  <2> QED
    BY <2>1, <2>2 DEF TriedInv
<1>11. CountInv(r, k)
  <2>1. TriedIds(r) = TriedIds(m)
    BY <1>1, <1>i DEF TriedIds
  <2>2. NewIds(r) = NewIds(m) \ {id} /\ id \in NewIds(m)
    BY <1>1, <1>i DEF NewIds
  <2>3. IsFiniteSet(NewIds(m))
    BY <1>t, IdsFinite
  <2>4. Cardinality(NewIds(r)) = Cardinality(NewIds(m)) - 1 /\ Cardinality(NewIds(m)) \in Nat
    BY <2>2, <2>3, FS_RemoveElement, FS_CardinalityType
  <2>5. m.nNew + k = Cardinality(NewIds(m)) /\ m.nTried = Cardinality(TriedIds(m))
    BY DEF Sound, CountInv
  <2>6. m.nNew \in Int
    BY <1>t DEF TypeInv
  <2>7. r.nNew + k = Cardinality(NewIds(r))
    BY <2>4, <2>5, <2>6, <1>f
  <2> QED
    BY <2>1, <2>5, <2>7, <1>f DEF CountInv
<1>12. Sound(r, k)
  BY <1>6, <1>7, <1>8, <1>9, <1>10, <1>11 DEF Sound
<1>13. \A x \in Ids(r) : SameEntry(m, r, x)
  BY <1>1 DEF SameEntry
<1> QED
  BY <1>12, <1>13, <1>1, <1>2, <1>f DEF r, a

LEMMA DeleteSound ==
    ASSUME NEW m, NEW k \in Nat, Sound(m, k), NEW id \in Unplaced(m)
    PROVE  LET r == Delete(m, id) IN
           /\ Sound(r, k) /\ SamePlaces(m, r) /\ r.nTried = m.nTried /\ r.nIdCount = m.nIdCount
           /\ Ids(r) = Ids(m) \ {id} /\ \A x \in Ids(r) : SameEntry(m, r, x)
           /\ Unplaced(r) = Unplaced(m) \ {id}
<1> DEFINE L == Len(m.random)
           i == m.info[id].pos
           s == SwapRandom(m, i, L)
           r == Delete(m, id)
<1>1. id \in Ids(m) /\ L \in Nat /\ i \in 1 .. L /\ m.random[i] = id
  <2>1. id \in Ids(m) /\ L \in Nat /\ m.info[id] \in Entry(L)
    BY DEF Unplaced, Sound, TypeInv
  <2>2. i \in 1 .. L
    BY <2>1, EntryFields
  <2> QED
    BY <2>1, <2>2 DEF Sound, RandomInv
<1>2. L \in 1 .. L
  BY <1>1
<1>3. /\ Sound(s, k) /\ SameEntries(m, s) /\ SamePlaces(m, s) /\ SameCounts(m, s)
      /\ s.addr = m.addr /\ Len(s.random) = L /\ s.random[L] = id
  <2> HIDE DEF i, L, s
  <2> SUFFICES /\ Sound(s, k) /\ SameEntries(m, s) /\ SamePlaces(m, s) /\ SameCounts(m, s)
               /\ s.addr = m.addr /\ Len(s.random) = L /\ s.random[L] = m.random[i]
    BY <1>1
  <2> QED
    BY <1>1, <1>2, SwapSound DEF s, L
<1>4. id \in Unplaced(s)
  BY <1>3 DEF SameEntries, Unplaced
<1>5. r = DropLast(s, id)
  <2>1. s.info[id].addr = m.info[id].addr
    BY <1>3, <1>1 DEF SameEntries
  <2> QED
    BY <2>1 DEF Delete, DropLast
<1> HIDE DEF s, r, L, i
<1>6. /\ Sound(r, k) /\ SamePlaces(s, r) /\ r.nTried = s.nTried /\ r.nIdCount = s.nIdCount
      /\ Ids(r) = Ids(s) \ {id} /\ \A x \in Ids(r) : SameEntry(s, r, x)
  <2>1. Sound(s, k) /\ s.random[Len(s.random)] = id
    BY <1>3
  <2> QED
    BY <2>1, <1>4, <1>5, DropLastSound
<1>7. SamePlaces(m, r) /\ r.nTried = m.nTried /\ r.nIdCount = m.nIdCount /\ Ids(r) = Ids(m) \ {id}
  BY <1>3, <1>6 DEF SamePlaces, SameCounts, SameEntries
<1>8. \A x \in Ids(r) : SameEntry(m, r, x)
  BY <1>3, <1>6, <1>7 DEF SameEntries, SameEntry
<1>9. Unplaced(r) = Unplaced(m) \ {id}
  BY <1>7, <1>8 DEF SameEntry, Unplaced
<1> QED
  BY <1>6, <1>7, <1>8, <1>9 DEF r

------------------------------------------------------------------------------
(* An entry gets or loses places.                                           *)

\* r is m with e as the entry of id; e is where the old one is.
OneEntry(m, r, id, e) ==
    /\ DOMAIN r = Fields /\ r.random = m.random /\ r.addr = m.addr /\ r.nIdCount = m.nIdCount
    /\ Ids(r) = Ids(m) /\ r.info[id] = e /\ \A x \in Ids(m) : x # id => r.info[x] = m.info[x]
    /\ e.addr = m.info[id].addr /\ e.source = m.info[id].source /\ e.pos = m.info[id].pos

LEMMA OneEntryFrame ==
    ASSUME NEW m, NEW k, Sound(m, k), NEW r, NEW id \in Ids(m), NEW e \in Entry(Len(m.random)),
           OneEntry(m, r, id, e)
    PROVE  /\ RandomInv(r) /\ AddrInv(r)
           /\ r.nIdCount \in Nat /\ Ids(r) \subseteq 0 .. r.nIdCount - 1
           /\ r.random \in Seq(Ids(r)) /\ DOMAIN r.addr \subseteq Addr
           /\ \A x \in Ids(r) : r.info[x] \in Entry(Len(r.random))
<1>1. \A x \in Ids(m) : r.info[x].addr = m.info[x].addr /\ r.info[x].pos = m.info[x].pos
  BY DEF OneEntry
<1>2. Ids(r) = Ids(m) /\ r.random = m.random /\ r.addr = m.addr /\ r.nIdCount = m.nIdCount
  BY DEF OneEntry
<1>3. TypeInv(m) /\ RandomInv(m) /\ AddrInv(m)
  BY DEF Sound
<1>4. RandomInv(r)
  <2>1. \A x \in Ids(r) : r.random[r.info[x].pos] = x
    BY <1>1, <1>2, <1>3 DEF RandomInv
  <2>2. ASSUME NEW i \in 1 .. Len(r.random) PROVE r.info[r.random[i]].pos = i
    <3>1. m.random[i] \in Ids(m) /\ m.info[m.random[i]].pos = i
      BY <1>2, <1>3 DEF TypeInv, RandomInv
    <3> QED
      BY <3>1, <1>1, <1>2
  <2> QED
    BY <2>1, <2>2 DEF RandomInv
<1>5. AddrInv(r)
  <2>1. \A x \in Ids(r) : r.info[x].addr \in DOMAIN r.addr /\ r.addr[r.info[x].addr] = x
    BY <1>1, <1>2, <1>3 DEF AddrInv
  <2>2. \A a \in DOMAIN r.addr : r.addr[a] \in Ids(r) /\ r.info[r.addr[a]].addr = a
    BY <1>1, <1>2, <1>3 DEF AddrInv
  <2> QED
    BY <2>1, <2>2 DEF AddrInv
<1>6. \A x \in Ids(r) : r.info[x] \in Entry(Len(r.random))
  <2>1. \A x \in Ids(m) : m.info[x] \in Entry(Len(m.random))
    BY <1>3 DEF TypeInv
  <2>2. r.info[id] = e /\ \A x \in Ids(m) : x # id => r.info[x] = m.info[x]
    BY DEF OneEntry
  <2> QED
    BY <2>1, <2>2, <1>2
<1>7. /\ r.nIdCount \in Nat /\ Ids(r) \subseteq 0 .. r.nIdCount - 1
      /\ r.random \in Seq(Ids(r)) /\ DOMAIN r.addr \subseteq Addr
  BY <1>2, <1>3 DEF TypeInv
<1> QED
  BY <1>4, <1>5, <1>6, <1>7

\* The places of id in the new table change, and e has their number.
NewChanged(m, r, id, e) ==
    /\ id \in Ids(m) /\ e \in Entry(Len(m.random)) /\ OneEntry(m, r, id, e)
    /\ e.tried = m.info[id].tried /\ (e.tried => e.refs = 0)
    /\ r.tried = m.tried /\ r.nTried = m.nTried
    /\ r.new \in [NB \X Pos -> Ids(m) \cup {Nobody}]
    /\ \A x \in Ids(m) : x # id => NewPlaces(r, x) = NewPlaces(m, x)
    /\ e.refs = Cardinality(NewPlaces(r, id))
    /\ \A p \in NewPlaces(r, id) : p[2] = NewPos[<<e.addr, p[1]>>]

LEMMA NewChange ==
    ASSUME NEW m, NEW k \in Nat, Sound(m, k), NEW j \in Nat, NEW r, NEW id, NEW e,
           NewChanged(m, r, id, e), r.nNew \in Int, r.nNew + j = m.nNew + k
    PROVE  Sound(r, j)
<1>c. /\ id \in Ids(m) /\ e \in Entry(Len(m.random)) /\ OneEntry(m, r, id, e)
      /\ e.tried = m.info[id].tried /\ (e.tried => e.refs = 0)
      /\ r.tried = m.tried /\ r.nTried = m.nTried
      /\ r.new \in [NB \X Pos -> Ids(m) \cup {Nobody}]
      /\ \A x \in Ids(m) : x # id => NewPlaces(r, x) = NewPlaces(m, x)
      /\ e.refs = Cardinality(NewPlaces(r, id))
      /\ \A p \in NewPlaces(r, id) : p[2] = NewPos[<<e.addr, p[1]>>]
  BY DEF NewChanged
<1> USE <1>c
<1>o. Ids(r) = Ids(m) /\ r.info[id] = e /\ \A x \in Ids(m) : x # id => r.info[x] = m.info[x]
  BY DEF OneEntry
<1>s. /\ RandomInv(r) /\ AddrInv(r)
      /\ r.nIdCount \in Nat /\ Ids(r) \subseteq 0 .. r.nIdCount - 1
      /\ r.random \in Seq(Ids(r)) /\ DOMAIN r.addr \subseteq Addr
      /\ \A x \in Ids(r) : r.info[x] \in Entry(Len(r.random))
  BY OneEntryFrame
<1>t. TypeInv(m)
  BY DEF Sound
<1>1. TypeInv(r)
  <2>1. DOMAIN r = Fields
    BY DEF OneEntry
  <2>2. r.nTried \in Int /\ r.tried \in [TB \X Pos -> Ids(r) \cup {Nobody}]
    BY <1>t, <1>o DEF TypeInv
  <2> QED
    BY <1>s, <1>o, <2>1, <2>2 DEF TypeInv
<1>2. NewInv(r)
  BY <1>o DEF NewInv, Sound
<1>3. \A x \in Ids(m) : r.info[x].tried = m.info[x].tried /\ r.info[x].addr = m.info[x].addr
  BY <1>o DEF OneEntry
<1>4. TriedInv(r)
  <2>1. \A x \in Ids(r) : r.info[x].tried <=> r.tried[TriedPlace(r.info[x].addr)] = x
    BY <1>3, <1>o DEF Sound, TriedInv
  <2>2. ASSUME NEW p \in TB \X Pos, r.tried[p] # Nobody
        PROVE  TriedPlace(r.info[r.tried[p]].addr) = p
    <3>1. m.tried[p] \in Ids(m)
      BY <2>2, <1>t DEF TypeInv
    <3>2. TriedPlace(m.info[m.tried[p]].addr) = p
      BY <2>2 DEF Sound, TriedInv
    <3> QED
      BY <3>1, <3>2, <1>3
  <2> QED
    BY <2>1, <2>2 DEF TriedInv
<1>5. CountInv(r, j)
  <2>1. TriedIds(r) = TriedIds(m) /\ NewIds(r) = NewIds(m)
    BY <1>3, <1>o DEF TriedIds, NewIds
  <2>2. m.nTried = Cardinality(TriedIds(m)) /\ m.nNew + k = Cardinality(NewIds(m))
    BY DEF Sound, CountInv
  <2> QED
    BY <2>1, <2>2 DEF CountInv
<1> QED
  BY <1>s, <1>1, <1>2, <1>4, <1>5 DEF Sound

\* An entry gets a place that is free.
LEMMA PutNewSound ==
    ASSUME NEW m, NEW k \in Nat, Sound(m, k), NEW j \in Nat,
           NEW r, NEW id \in Ids(m), NEW e \in Entry(Len(m.random)), OneEntry(m, r, id, e),
           ~ e.tried, ~ m.info[id].tried, e.refs = m.info[id].refs + 1,
           r.tried = m.tried, r.nTried = m.nTried, r.nNew \in Int, r.nNew + j = m.nNew + k,
           NEW b \in NB, m.new[NewPlace(e.addr, b)] = Nobody,
           r.new = [m.new EXCEPT ![NewPlace(e.addr, b)] = id]
    PROVE  Sound(r, j) /\ Unplaced(r) = Unplaced(m) \ {id}
<1> DEFINE place == NewPlace(e.addr, b)
<1>t. TypeInv(m) /\ Len(m.random) \in Nat
  BY DEF Sound, TypeInv
<1>e. e.addr \in Addr /\ e.refs \in Nat /\ e.tried \in BOOLEAN /\ m.info[id].tried \in BOOLEAN
      /\ m.info[id].refs \in Nat /\ e.addr = m.info[id].addr
  <2>1. m.info[id] \in Entry(Len(m.random))
    BY <1>t DEF TypeInv
  <2> QED
    BY <2>1, <1>t, EntryFields DEF OneEntry
<1>p. place \in NB \X Pos /\ place[2] = NewPos[<<e.addr, place[1]>>]
  <2>1. place \in NB \X Pos /\ place[1] = b /\ place[2] = NewPos[<<e.addr, b>>]
    BY <1>e, NewPlaceType
  <2> QED
    BY <2>1
<1>n. m.new \in [NB \X Pos -> Ids(m) \cup {Nobody}] /\ id # Nobody /\ Nobody \notin Ids(m)
  BY <1>t, IdsFinite DEF TypeInv
<1> HIDE DEF place
<1>r. r.new = [m.new EXCEPT ![place] = id] /\ m.new[place] = Nobody
  BY DEF place
<1>1. r.new \in [NB \X Pos -> Ids(m) \cup {Nobody}]
  BY <1>r, <1>n, <1>p
<1>2. \A x \in Ids(m) : x # id => NewPlaces(r, x) = NewPlaces(m, x)
  BY <1>r, <1>n, <1>p DEF NewPlaces
<1>3. NewPlaces(r, id) = NewPlaces(m, id) \cup {place} /\ place \notin NewPlaces(m, id)
  BY <1>r, <1>n, <1>p DEF NewPlaces
<1>4. Cardinality(NewPlaces(r, id)) = Cardinality(NewPlaces(m, id)) + 1
  BY <1>3, NewPlacesFinite, FS_AddElement
<1>5. /\ m.info[id].refs = Cardinality(NewPlaces(m, id))
      /\ \A p \in NewPlaces(m, id) : p[2] = NewPos[<<m.info[id].addr, p[1]>>]
  BY DEF Sound, NewInv
<1>6. e.refs = Cardinality(NewPlaces(r, id))
  BY <1>4, <1>5
<1>7. \A p \in NewPlaces(r, id) : p[2] = NewPos[<<e.addr, p[1]>>]
  BY <1>3, <1>5, <1>p, <1>e
<1>8. e.tried = m.info[id].tried /\ (e.tried => e.refs = 0)
  BY <1>e
<1>9. Sound(r, j)
  <2>1. NewChanged(m, r, id, e)
    BY <1>1, <1>2, <1>6, <1>7, <1>8 DEF NewChanged
  <2> QED
    BY <2>1, NewChange
<1>10. Unplaced(r) = Unplaced(m) \ {id}
  <2>1. e.refs # 0
    BY <1>e
  <2> QED
    BY <2>1 DEF Unplaced, OneEntry
<1> QED
  BY <1>9, <1>10

\* An entry loses a place.
LEMMA TakeNewSound ==
    ASSUME NEW m, NEW k \in Nat, Sound(m, k),
           NEW r, NEW place \in NB \X Pos, NEW id, m.new[place] = id, id # Nobody,
           NEW e, OneEntry(m, r, id, e), e = [m.info[id] EXCEPT !.refs = m.info[id].refs - 1],
           SameCounts(m, r), r.tried = m.tried, r.new = [m.new EXCEPT ![place] = Nobody]
    PROVE  /\ Sound(r, k) /\ id \in Ids(m) /\ ~ m.info[id].tried /\ m.info[id].refs >= 1
           /\ e.refs = m.info[id].refs - 1 /\ ~ e.tried
<1>t. TypeInv(m) /\ Len(m.random) \in Nat
  BY DEF Sound, TypeInv
<1>n. m.new \in [NB \X Pos -> Ids(m) \cup {Nobody}] /\ id \in Ids(m) /\ Nobody \notin Ids(m)
  BY <1>t, IdsFinite DEF TypeInv
<1>e. m.info[id] \in Entry(Len(m.random)) /\ m.info[id].refs \in Nat /\ m.info[id].tried \in BOOLEAN
      /\ m.info[id].refs \in 0 .. MaxRefs
  BY <1>t, <1>n, EntryFields DEF TypeInv
<1>3. NewPlaces(r, id) = NewPlaces(m, id) \ {place} /\ place \in NewPlaces(m, id)
  BY <1>n DEF NewPlaces
<1>4. /\ Cardinality(NewPlaces(r, id)) = Cardinality(NewPlaces(m, id)) - 1
      /\ Cardinality(NewPlaces(m, id)) \in Nat /\ Cardinality(NewPlaces(m, id)) # 0
  <2>1. NewPlaces(m, id) # {}
    BY <1>3
  <2> QED
    BY <2>1, <1>3, NewPlacesFinite, FS_RemoveElement, FS_CardinalityType, FS_EmptySet
<1>5. /\ m.info[id].refs = Cardinality(NewPlaces(m, id))
      /\ m.info[id].tried => m.info[id].refs = 0
      /\ \A p \in NewPlaces(m, id) : p[2] = NewPos[<<m.info[id].addr, p[1]>>]
  BY <1>n DEF Sound, NewInv
<1>6. m.info[id].refs >= 1 /\ m.info[id].refs - 1 \in 0 .. MaxRefs
  BY <1>4, <1>5, <1>e, Counts
<1>7. e \in Entry(Len(m.random)) /\ e.refs = m.info[id].refs - 1 /\ e.tried = m.info[id].tried
      /\ e.addr = m.info[id].addr
  BY <1>6, <1>e, <1>t, EntryRefs
<1>8. ~ m.info[id].tried /\ ~ e.tried
  BY <1>4, <1>5, <1>7
<1>1. r.new \in [NB \X Pos -> Ids(m) \cup {Nobody}]
  BY <1>n
<1>2. \A x \in Ids(m) : x # id => NewPlaces(r, x) = NewPlaces(m, x)
  BY <1>n DEF NewPlaces
<1>9. e.refs = Cardinality(NewPlaces(r, id))
  BY <1>4, <1>5, <1>7
<1>10. \A p \in NewPlaces(r, id) : p[2] = NewPos[<<e.addr, p[1]>>]
  BY <1>3, <1>5, <1>7
<1>11. r.nTried = m.nTried /\ r.nNew \in Int /\ r.nNew + k = m.nNew + k
  BY <1>t DEF SameCounts, TypeInv
<1>12. Sound(r, k)
  <2>1. e.tried = m.info[id].tried /\ (e.tried => e.refs = 0)
    BY <1>7, <1>8
  <2> QED
    <3>1. NewChanged(m, r, id, e)
      BY <2>1, <1>n, <1>1, <1>2, <1>7, <1>9, <1>10, <1>11 DEF NewChanged
    <3> QED
      BY <3>1, <1>11, NewChange
<1> QED
  BY <1>12, <1>n, <1>6, <1>7, <1>8

\* x is the same peer in m and in r.
SamePeer(m, r, x) ==
    /\ r.info[x].addr = m.info[x].addr /\ r.info[x].source = m.info[x].source
    /\ r.info[x].tried = m.info[x].tried

\* The first step of ClearNew.
Cleared(m, place) ==
    [m EXCEPT !.info[m.new[place]].refs = @ - 1, !.new[place] = Nobody]

LEMMA ClearedFields ==
    ASSUME NEW m, TypeInv(m), NEW place, m.new[place] \in Ids(m)
    PROVE  LET r == Cleared(m, place)
               id == m.new[place]
           IN  /\ OneEntry(m, r, id, [m.info[id] EXCEPT !.refs = m.info[id].refs - 1])
               /\ SameCounts(m, r) /\ r.tried = m.tried /\ r.new = [m.new EXCEPT ![place] = Nobody]
<1> DEFINE r == Cleared(m, place)
           id == m.new[place]
           e == [m.info[id] EXCEPT !.refs = m.info[id].refs - 1]
<1>1. DOMAIN m = Fields
  BY DEF TypeInv
<1>2. /\ DOMAIN r = Fields /\ r.random = m.random /\ r.addr = m.addr /\ r.nIdCount = m.nIdCount
      /\ SameCounts(m, r) /\ r.tried = m.tried /\ r.new = [m.new EXCEPT ![place] = Nobody]
  BY <1>1 DEF Cleared, Fields, SameCounts
<1>3. r.info = [m.info EXCEPT ![id].refs = m.info[id].refs - 1]
  BY <1>1 DEF Cleared, Fields
<1>4. Ids(r) = Ids(m) /\ r.info[id] = e /\ \A x \in Ids(m) : x # id => r.info[x] = m.info[x]
  <2> HIDE DEF r
  <2> QED
    BY <1>3 DEF Ids
<1>5. e.addr = m.info[id].addr /\ e.source = m.info[id].source /\ e.pos = m.info[id].pos
  <2>1. m.info[id] \in Entry(Len(m.random))
    BY DEF TypeInv
  <2> QED
    BY <2>1 DEF Entry
<1> HIDE DEF r, e
<1> QED
  BY <1>2, <1>4, <1>5 DEF OneEntry, r, e

\* What ClearNew does to the tables.
ClearResult(m, r, place, k) ==
    /\ Sound(r, k) /\ Unplaced(r) = Unplaced(m)
    /\ r.new = [m.new EXCEPT ![place] = Nobody] /\ r.new[place] = Nobody
    /\ r.tried = m.tried /\ r.nTried = m.nTried /\ r.nIdCount = m.nIdCount
    /\ Ids(r) \subseteq Ids(m)
    /\ \A x \in Ids(m) : x # m.new[place] => x \in Ids(r) /\ SameEntry(m, r, x)
    /\ \A x \in Ids(r) : SamePeer(m, r, x)
    /\ m.new[place] # Nobody => m.new[place] \in Ids(m) /\ ~ m.info[m.new[place]].tried

LEMMA ClearNewSound ==
    ASSUME NEW m, NEW k \in Nat, Sound(m, k), NEW place \in NB \X Pos
    PROVE  ClearResult(m, ClearNew(m, place), place, k)
<1> DEFINE r == ClearNew(m, place)
           id == m.new[place]
<1>t. TypeInv(m)
  BY DEF Sound
<1>n. m.new \in [NB \X Pos -> Ids(m) \cup {Nobody}] /\ Nobody \notin Ids(m)
  BY <1>t, IdsFinite DEF TypeInv
<1>1. CASE id = Nobody
  <2>1. r = m
    BY <1>1 DEF ClearNew
  <2>2. m.new = [m.new EXCEPT ![place] = Nobody]
    BY <1>n, <1>1
  <2> HIDE DEF r
  <2> QED
    BY <2>1, <2>2, <1>1 DEF ClearResult, SameEntry, SamePeer, r
<1>2. CASE id # Nobody
  <2> DEFINE c == Cleared(m, place)
             e == [m.info[id] EXCEPT !.refs = m.info[id].refs - 1]
  <2>i. id \in Ids(m)
    BY <1>n, <1>2
  <2>c. /\ OneEntry(m, c, id, e)
        /\ SameCounts(m, c) /\ c.tried = m.tried /\ c.new = [m.new EXCEPT ![place] = Nobody]
    BY <1>t, <2>i, ClearedFields
  <2>s. /\ Sound(c, k) /\ ~ m.info[id].tried /\ m.info[id].refs >= 1
        /\ e.refs = m.info[id].refs - 1 /\ ~ e.tried
    <3> HIDE DEF c, e
    <3>1. e = [m.info[id] EXCEPT !.refs = m.info[id].refs - 1] /\ id = m.new[place]
      BY DEF e
    <3> HIDE DEF id
    <3> QED
      BY <1>2, <2>c, <3>1, TakeNewSound
  <2>r. r = IF c.info[id].refs = 0 THEN Delete(c, id) ELSE c
    BY <1>2 DEF ClearNew, Cleared
  <2>f. m.info[id].refs \in Nat
    BY <1>t, <2>i, EntryFields DEF TypeInv
  <2>b. e.tried = m.info[id].tried
    <3>1. m.info[id] \in Entry(Len(m.random))
      BY <1>t, <2>i DEF TypeInv
    <3> QED
      BY <3>1 DEF Entry
  <2> HIDE DEF c, e, r, id
  <2>o. /\ Ids(c) = Ids(m) /\ c.info[id] = e /\ \A x \in Ids(m) : x # id => c.info[x] = m.info[x]
        /\ e.addr = m.info[id].addr /\ e.source = m.info[id].source
    BY <2>c DEF OneEntry
  <2>p. c.new[place] = Nobody /\ c.new = [m.new EXCEPT ![place] = Nobody]
    BY <2>c, <1>n
  <2>e. \A x \in Ids(m) : x # id => SameEntry(m, c, x)
    BY <2>o DEF SameEntry
  <2>q. \A x \in Ids(m) : SamePeer(m, c, x)
    BY <2>o, <2>b, <2>e DEF SameEntry, SamePeer
  <2>m. id = m.new[place]
    BY DEF id
  <2>1. CASE e.refs # 0
    <3>1. r = c
      BY <2>1, <2>r, <2>o
    <3>2. Unplaced(c) = Unplaced(m)
      BY <2>o, <2>1, <2>s, <2>f, <2>e DEF Unplaced, SameEntry
    <3> QED
      BY <3>1, <3>2, <2>c, <2>s, <2>o, <2>p, <2>e, <2>q, <2>i, <2>m
      DEF ClearResult, SameCounts, r, id
  <2>2. CASE e.refs = 0
    <3>1. r = Delete(c, id)
      BY <2>2, <2>r, <2>o
    <3>2. id \in Unplaced(c)
      BY <2>2, <2>o, <2>s, <2>i DEF Unplaced
    <3>3. /\ Sound(r, k) /\ SamePlaces(c, r) /\ r.nTried = c.nTried /\ r.nIdCount = c.nIdCount
          /\ Ids(r) = Ids(c) \ {id} /\ \A x \in Ids(r) : SameEntry(c, r, x)
          /\ Unplaced(r) = Unplaced(c) \ {id}
      BY <3>1, <3>2, <2>s, DeleteSound
    <3>4. Unplaced(r) = Unplaced(m)
      <4>1. id \notin Unplaced(m)
        BY <2>s, <2>f DEF Unplaced
      <4>2. \A x \in Ids(m) : x # id => (x \in Unplaced(c) <=> x \in Unplaced(m))
        BY <2>o DEF Unplaced
      <4>3. Unplaced(c) \subseteq Ids(m) /\ Unplaced(m) \subseteq Ids(m)
        BY <2>o DEF Unplaced
      <4> QED
        BY <4>1, <4>2, <4>3, <3>3
    <3>5. r.new = [m.new EXCEPT ![place] = Nobody] /\ r.new[place] = Nobody /\ r.tried = m.tried
          /\ r.nTried = m.nTried /\ r.nIdCount = m.nIdCount /\ Ids(r) = Ids(m) \ {id}
      BY <3>3, <2>p, <2>c, <2>o DEF SamePlaces, SameCounts
    <3>6. \A x \in Ids(r) : SameEntry(m, r, x) /\ SamePeer(m, r, x)
      BY <3>3, <3>5, <2>e DEF SameEntry, SamePeer
    <3> QED
      BY <3>3, <3>4, <3>5, <3>6, <2>s, <2>i, <2>m DEF ClearResult, r, id
  <2> QED
    BY <2>1, <2>2
<1> QED
  BY <1>1, <1>2

------------------------------------------------------------------------------
(* Add_.                                                                    *)

Recount(e, n) == [e EXCEPT !.refs = n]

LEMMA PutNewFields ==
    ASSUME NEW m, TypeInv(m), NEW id \in Ids(m), m.info[id].refs # MaxRefs, NEW place
    PROVE  LET r == PutNew(m, id, place)
               e == Recount(m.info[id], m.info[id].refs + 1)
           IN  /\ OneEntry(m, r, id, e) /\ e \in Entry(Len(m.random))
               /\ e.refs = m.info[id].refs + 1 /\ e.tried = m.info[id].tried
               /\ SameCounts(m, r) /\ r.tried = m.tried /\ r.new = [m.new EXCEPT ![place] = id]
<1> DEFINE r == PutNew(m, id, place)
           e == Recount(m.info[id], m.info[id].refs + 1)
<1>1. DOMAIN m = Fields
  BY DEF TypeInv
<1>2. /\ DOMAIN r = Fields /\ r.random = m.random /\ r.addr = m.addr /\ r.nIdCount = m.nIdCount
      /\ SameCounts(m, r) /\ r.tried = m.tried /\ r.new = [m.new EXCEPT ![place] = id]
  BY <1>1 DEF PutNew, Fields, SameCounts
<1>3. r.info = [m.info EXCEPT ![id].refs = m.info[id].refs + 1]
  BY <1>1 DEF PutNew, Fields
<1>4. Ids(r) = Ids(m) /\ r.info[id] = e /\ \A x \in Ids(m) : x # id => r.info[x] = m.info[x]
  <2> HIDE DEF r
  <2> QED
    BY <1>3 DEF Ids, Recount
<1>5. e \in Entry(Len(m.random)) /\ e.addr = m.info[id].addr /\ e.source = m.info[id].source
      /\ e.pos = m.info[id].pos /\ e.refs = m.info[id].refs + 1 /\ e.tried = m.info[id].tried
  <2>1. m.info[id] \in Entry(Len(m.random)) /\ Len(m.random) \in Nat
    BY DEF TypeInv
  <2>2. m.info[id].refs + 1 \in 0 .. MaxRefs
    <3>1. m.info[id].refs \in 0 .. MaxRefs
      BY <2>1, EntryFields
    <3> QED
      BY <3>1, Counts
  <2> QED
    BY <2>1, <2>2, EntryRefs DEF Recount
<1> HIDE DEF r, e
<1> QED
  BY <1>2, <1>4, <1>5 DEF OneEntry, r, e

\* An entry that is not tried gets a free place of its address.
PutResult(m, r, id, k) ==
    /\ Sound(r, k) /\ Unplaced(r) = Unplaced(m) \ {id} /\ Ids(r) = Ids(m)
    /\ \A x \in Ids(m) : SamePeer(m, r, x) /\ (x # id => r.info[x] = m.info[x])
    /\ r.info[id].refs = m.info[id].refs + 1
    /\ SameCounts(m, r) /\ r.tried = m.tried /\ r.addr = m.addr

LEMMA PutNewResult ==
    ASSUME NEW m, NEW k \in Nat, Sound(m, k), NEW id \in NewIds(m), m.info[id].refs # MaxRefs,
           NEW b \in NB, NEW place, place = NewPlace(m.info[id].addr, b), m.new[place] = Nobody
    PROVE  PutResult(m, PutNew(m, id, place), id, k)
<1> DEFINE r == PutNew(m, id, place)
           e == Recount(m.info[id], m.info[id].refs + 1)
<1>t. TypeInv(m) /\ id \in Ids(m) /\ ~ m.info[id].tried /\ m.nNew \in Int
  BY DEF Sound, NewIds, TypeInv
<1>1. /\ OneEntry(m, r, id, e) /\ e \in Entry(Len(m.random))
      /\ e.refs = m.info[id].refs + 1 /\ e.tried = m.info[id].tried
      /\ SameCounts(m, r) /\ r.tried = m.tried /\ r.new = [m.new EXCEPT ![place] = id]
  BY <1>t, PutNewFields
<1> HIDE DEF r, e
<1>2. e.addr = m.info[id].addr
  BY <1>1 DEF OneEntry
<1>3. r.nTried = m.nTried /\ r.nNew \in Int /\ r.nNew + k = m.nNew + k
  BY <1>1, <1>t DEF SameCounts
<1>4. ~ e.tried /\ place = NewPlace(e.addr, b)
  BY <1>1, <1>2, <1>t
<1>5. Sound(r, k) /\ Unplaced(r) = Unplaced(m) \ {id}
  <2>1. m.new[NewPlace(e.addr, b)] = Nobody /\ r.new = [m.new EXCEPT ![NewPlace(e.addr, b)] = id]
    BY <1>1, <1>4
  <2> QED
    BY <1>1, <1>3, <1>4, <1>t, <2>1, PutNewSound
<1>6. Ids(r) = Ids(m) /\ r.info[id] = e /\ r.addr = m.addr
      /\ \A x \in Ids(m) : SamePeer(m, r, x) /\ (x # id => r.info[x] = m.info[x])
  BY <1>1 DEF OneEntry, SamePeer
<1> QED
  BY <1>1, <1>5, <1>6 DEF PutResult, r

\* What Add_ leaves: tables that agree, with every tried entry of before.
AddResult(m, r) ==
    /\ Sound(r, 0) /\ Unplaced(r) = {} /\ r.nIdCount = m.nIdCount
    /\ \A x \in TriedIds(m) : x \in Ids(r) /\ SamePeer(m, r, x)

LEMMA PlaceSound ==
    ASSUME NEW m, Sound(m, 0), NEW id \in NewIds(m), Unplaced(m) \subseteq {id},
           m.info[id].refs # MaxRefs, NEW source \in Source, NEW terrible
    PROVE  AddResult(m, Place(m, id, source, terrible))
<1> DEFINE a == m.info[id].addr
           b == NewBucket[<<a, source>>]
           place == NewPlace(a, b)
           there == m.new[place]
           r == Place(m, id, source, terrible)
           fill == there = Nobody \/ terrible \/ (m.info[there].refs > 1 /\ m.info[id].refs = 0)
           c == ClearNew(m, place)
<1>t. TypeInv(m) /\ id \in Ids(m) /\ ~ m.info[id].tried /\ Len(m.random) \in Nat
  BY DEF Sound, NewIds, TypeInv
<1>a. a \in Addr /\ b \in NB
  <2>1. a \in Addr
    BY <1>t, EntryFields DEF TypeInv
  <2> QED
    BY <2>1, SourceBucketType
<1>p. place \in NB \X Pos
  BY <1>a, NewPlaceType
<1>r. r = IF there = id THEN m
          ELSE IF fill THEN PutNew(c, id, place)
          ELSE IF m.info[id].refs = 0 THEN Delete(m, id) ELSE m
  BY DEF Place
<1>T. \A x \in TriedIds(m) : x \in Ids(m) /\ SamePeer(m, m, x) /\ m.info[x].tried
  BY DEF TriedIds, SamePeer
<1> HIDE DEF r, fill
<1>1. CASE there = id
  <2>1. id \notin Unplaced(m)
    BY <1>1, <1>p, UnplacedNowhere
  <2>2. r = m
    BY <1>1, <1>r
  <2> QED
    BY <2>1, <2>2, <1>T DEF AddResult, r
<1>2. CASE there # id /\ fill
  <2>1. ClearResult(m, c, place, 0)
    BY <1>p, ClearNewSound
  <2> HIDE DEF c
  <2>2. id \in Ids(c) /\ SameEntry(m, c, id)
    BY <2>1, <1>2, <1>t DEF ClearResult
  <2>3. id \in NewIds(c) /\ c.info[id].refs # MaxRefs /\ place = NewPlace(c.info[id].addr, b)
    BY <2>2, <1>t DEF NewIds, SameEntry
  <2>4. Sound(c, 0) /\ c.new[place] = Nobody
    BY <2>1 DEF ClearResult
  <2> DEFINE q == PutNew(c, id, place)
  <2>5. PutResult(c, q, id, 0)
    <3> HIDE DEF a, b, place, q
    <3> QED
      BY <2>3, <2>4, <1>a, PutNewResult DEF q
  <2>6. r = q
    BY <1>2, <1>r
  <2> HIDE DEF q
  <2>7. Sound(q, 0) /\ Unplaced(q) = {} /\ q.nIdCount = m.nIdCount
    <3>1. Unplaced(c) = Unplaced(m) /\ c.nIdCount = m.nIdCount
      BY <2>1 DEF ClearResult
    <3> QED
      BY <3>1, <2>5 DEF PutResult, SameCounts
  <2>8. ASSUME NEW x \in TriedIds(m) PROVE x \in Ids(q) /\ SamePeer(m, q, x)
    <3>1. x \in Ids(m) /\ m.info[x].tried
      BY <1>T
    <3>2. x \in Ids(c) /\ SamePeer(m, c, x)
      <4>1. m.new[place] # Nobody => ~ m.info[m.new[place]].tried
        BY <2>1 DEF ClearResult
      <4>2. x # Nobody
        BY <3>1, <1>t, IdsFinite
      <4>3. x # m.new[place]
        BY <3>1, <4>1, <4>2
      <4> QED
        BY <3>1, <4>3, <2>1 DEF ClearResult
    <3> QED
      BY <3>2, <2>5 DEF PutResult, SamePeer
  <2> QED
    BY <2>6, <2>7, <2>8 DEF AddResult, r
<1>3. CASE there # id /\ ~ fill /\ m.info[id].refs = 0
  <2>1. r = Delete(m, id)
    BY <1>3, <1>r
  <2>2. id \in Unplaced(m)
    BY <1>3, <1>t DEF Unplaced
  <2>3. /\ Sound(r, 0) /\ SamePlaces(m, r) /\ r.nTried = m.nTried /\ r.nIdCount = m.nIdCount
        /\ Ids(r) = Ids(m) \ {id} /\ \A x \in Ids(r) : SameEntry(m, r, x)
        /\ Unplaced(r) = Unplaced(m) \ {id}
    BY <2>1, <2>2, DeleteSound
  <2>4. \A x \in TriedIds(m) : x \in Ids(r) /\ SamePeer(m, r, x)
    BY <2>3, <1>T, <1>t DEF SameEntry, SamePeer
  <2> QED
    BY <2>3, <2>4 DEF AddResult, r
<1>4. CASE there # id /\ ~ fill /\ m.info[id].refs # 0
  <2>1. r = m
    BY <1>4, <1>r
  <2>2. Unplaced(m) = {}
    BY <1>4 DEF Unplaced
  <2> QED
    BY <2>1, <2>2, <1>T DEF AddResult, r
<1> QED
  BY <1>1, <1>2, <1>3, <1>4

------------------------------------------------------------------------------
(* MakeTried.                                                               *)

MadeTried(e) == [e EXCEPT !.tried = TRUE]
Untried(e) == [e EXCEPT !.tried = FALSE]

\* The place of id in the tried table changes, and with it whether e is tried.
TriedChanged(m, r, id, e) ==
    /\ id \in Ids(m) /\ e \in Entry(Len(m.random)) /\ OneEntry(m, r, id, e)
    /\ e.refs = 0 /\ m.info[id].refs = 0
    /\ r.new = m.new /\ r.nNew = m.nNew
    /\ r.tried \in [TB \X Pos -> Ids(m) \cup {Nobody}]
    /\ TriedInv(r)

LEMMA TriedChange ==
    ASSUME NEW m, NEW k, Sound(m, k), NEW r, NEW id, NEW e, TriedChanged(m, r, id, e),
           r.nTried \in Int
    PROVE  TypeInv(r) /\ RandomInv(r) /\ AddrInv(r) /\ NewInv(r)
<1>c. /\ id \in Ids(m) /\ e \in Entry(Len(m.random)) /\ OneEntry(m, r, id, e)
      /\ e.refs = 0 /\ m.info[id].refs = 0 /\ r.new = m.new /\ r.nNew = m.nNew
      /\ r.tried \in [TB \X Pos -> Ids(m) \cup {Nobody}]
  BY DEF TriedChanged
<1>o. /\ Ids(r) = Ids(m) /\ r.info[id] = e /\ \A x \in Ids(m) : x # id => r.info[x] = m.info[x]
      /\ e.addr = m.info[id].addr /\ DOMAIN r = Fields
  BY <1>c DEF OneEntry
<1>s. /\ RandomInv(r) /\ AddrInv(r)
      /\ r.nIdCount \in Nat /\ Ids(r) \subseteq 0 .. r.nIdCount - 1
      /\ r.random \in Seq(Ids(r)) /\ DOMAIN r.addr \subseteq Addr
      /\ \A x \in Ids(r) : r.info[x] \in Entry(Len(r.random))
  BY <1>c, OneEntryFrame
<1>1. r.nNew \in Int /\ r.new \in [NB \X Pos -> Ids(r) \cup {Nobody}]
  BY <1>c, <1>o DEF Sound, TypeInv
<1>2. TypeInv(r)
  BY <1>c, <1>o, <1>s, <1>1 DEF TypeInv
<1>3. \A x : NewPlaces(r, x) = NewPlaces(m, x)
  BY <1>c DEF NewPlaces
<1>4. NewInv(r)
  <2>1. ASSUME NEW x \in Ids(r)
        PROVE  /\ r.info[x].refs = Cardinality(NewPlaces(r, x))
               /\ r.info[x].tried => r.info[x].refs = 0
               /\ \A p \in NewPlaces(r, x) : p[2] = NewPos[<<r.info[x].addr, p[1]>>]
    <3>1. CASE x = id
      BY <3>1, <1>c, <1>o, <1>3 DEF Sound, NewInv
    <3>2. CASE x # id
      BY <3>2, <1>c, <1>o, <1>3 DEF Sound, NewInv
    <3> QED
      BY <3>1, <3>2
  <2> QED
    BY <2>1 DEF NewInv
<1> QED
  BY <1>s, <1>2, <1>4

\* r is m with id among the tried, in place.
TriedFields(m, r, id, place, e) ==
    /\ OneEntry(m, r, id, e) /\ e \in Entry(Len(m.random)) /\ e.refs = m.info[id].refs
    /\ r.new = m.new /\ r.nNew = m.nNew
    /\ r.tried = [m.tried EXCEPT ![place] = id]

LEMMA PutTriedFields ==
    ASSUME NEW m, TypeInv(m), NEW id \in Ids(m), NEW place
    PROVE  TriedFields(m, PutTried(m, id, place), id, place, MadeTried(m.info[id]))
<1> DEFINE r == PutTried(m, id, place)
           e == MadeTried(m.info[id])
<1>1. DOMAIN m = Fields
  BY DEF TypeInv
<1>2. /\ DOMAIN r = Fields /\ r.random = m.random /\ r.addr = m.addr /\ r.nIdCount = m.nIdCount
      /\ r.new = m.new /\ r.nNew = m.nNew /\ r.nTried = m.nTried + 1
      /\ r.tried = [m.tried EXCEPT ![place] = id]
  BY <1>1 DEF PutTried, Fields
<1>3. r.info = [m.info EXCEPT ![id].tried = TRUE]
  BY <1>1 DEF PutTried, Fields
<1>4. Ids(r) = Ids(m) /\ r.info[id] = e /\ \A x \in Ids(m) : x # id => r.info[x] = m.info[x]
  <2> HIDE DEF r
  <2> QED
    BY <1>3 DEF Ids, MadeTried
<1>5. e \in Entry(Len(m.random)) /\ e.addr = m.info[id].addr /\ e.source = m.info[id].source
      /\ e.pos = m.info[id].pos /\ e.refs = m.info[id].refs /\ e.tried = TRUE
  <2>1. m.info[id] \in Entry(Len(m.random)) /\ Len(m.random) \in Nat
    BY DEF TypeInv
  <2> QED
    BY <2>1, EntryTried DEF MadeTried
<1> HIDE DEF r, e
<1> QED
  BY <1>2, <1>4, <1>5 DEF TriedFields, OneEntry, r, e

\* An entry without a place gets its place among the tried.
LEMMA PutTriedSound ==
    ASSUME NEW m, NEW k \in Nat, Sound(m, k + 1), NEW id \in Unplaced(m), NEW place,
           place = TriedPlace(m.info[id].addr), m.tried[place] = Nobody
    PROVE  LET r == PutTried(m, id, place) IN
           /\ Sound(r, k) /\ Unplaced(r) = Unplaced(m) \ {id} /\ Ids(r) = Ids(m)
           /\ \A x \in Ids(m) : x # id => r.info[x] = m.info[x]
           /\ r.info[id].addr = m.info[id].addr /\ r.info[id].source = m.info[id].source
           /\ r.info[id].tried /\ r.new = m.new /\ r.addr = m.addr /\ r.nIdCount = m.nIdCount
<1> DEFINE r == PutTried(m, id, place)
           e == MadeTried(m.info[id])
<1>t. TypeInv(m) /\ id \in Ids(m) /\ ~ m.info[id].tried /\ m.info[id].refs = 0
      /\ m.nNew \in Int /\ m.nTried \in Int
  BY DEF Sound, TypeInv, Unplaced
<1>f. /\ OneEntry(m, r, id, e) /\ e \in Entry(Len(m.random))
      /\ e.refs = m.info[id].refs /\ e.tried = TRUE
      /\ r.new = m.new /\ r.nNew = m.nNew /\ r.nTried = m.nTried + 1
      /\ r.tried = [m.tried EXCEPT ![place] = id]
  <2>1. /\ OneEntry(m, r, id, e) /\ e \in Entry(Len(m.random)) /\ e.refs = m.info[id].refs
        /\ r.new = m.new /\ r.nNew = m.nNew /\ r.tried = [m.tried EXCEPT ![place] = id]
    <3>1. TypeInv(m) /\ id \in Ids(m)
      BY <1>t
    <3>2. TriedFields(m, r, id, place, e)
      BY <3>1, PutTriedFields
    <3> QED
      BY <3>2 DEF TriedFields
  <2>2. m.info[id] \in Entry(Len(m.random)) /\ Len(m.random) \in Nat
    BY <1>t DEF TypeInv
  <2>3. e.tried = TRUE
    BY <2>2, EntryTried DEF MadeTried
  <2>4. r.nTried = m.nTried + 1
    <3>1. DOMAIN m = Fields
      BY <1>t DEF TypeInv
    <3> QED
      BY <3>1 DEF PutTried, Fields
  <2> QED
    BY <2>1, <2>3, <2>4
<1> HIDE DEF r, e
<1>o. /\ Ids(r) = Ids(m) /\ r.info[id] = e /\ \A x \in Ids(m) : x # id => r.info[x] = m.info[x]
      /\ e.addr = m.info[id].addr /\ e.source = m.info[id].source /\ r.addr = m.addr
      /\ r.nIdCount = m.nIdCount
  BY <1>f DEF OneEntry
<1>p. place \in TB \X Pos
  <2>1. m.info[id].addr \in Addr
    BY <1>t, EntryFields DEF TypeInv
  <2> QED
    BY <2>1, TriedPlaceType
<1>m. m.tried \in [TB \X Pos -> Ids(m) \cup {Nobody}] /\ Nobody \notin Ids(m)
  BY <1>t, IdsFinite DEF TypeInv
<1>v. r.tried[place] = id /\ \A p \in TB \X Pos : p # place => r.tried[p] = m.tried[p]
  BY <1>f, <1>m, <1>p
<1>A. \A x \in Ids(m) : TriedPlace(m.info[x].addr) \in TB \X Pos
  BY <1>t, EntryFields, TriedPlaceType DEF TypeInv
<1>I. /\ \A x \in Ids(m) : m.info[x].tried <=> m.tried[TriedPlace(m.info[x].addr)] = x
      /\ \A p \in TB \X Pos : m.tried[p] # Nobody => TriedPlace(m.info[m.tried[p]].addr) = p
  BY DEF Sound, TriedInv
<1>1. TriedInv(r)
  <2>1. ASSUME NEW x \in Ids(r) PROVE r.info[x].tried <=> r.tried[TriedPlace(r.info[x].addr)] = x
    <3>1. CASE x = id
      BY <3>1, <1>o, <1>v, <1>f
    <3>2. CASE x # id
      <4>1. r.info[x] = m.info[x] /\ x \in Ids(m)
        BY <3>2, <1>o
      <4> DEFINE q == TriedPlace(m.info[x].addr)
      <4>2. r.tried[q] = x <=> m.tried[q] = x
        <5>1. q \in TB \X Pos
          BY <1>A, <4>1
        <5>2. CASE q = place
          <6>1. x # Nobody
            BY <4>1, <1>m
          <6> QED
            BY <5>2, <6>1, <3>2, <1>v
        <5>3. CASE q # place
          BY <5>1, <5>3, <1>v
        <5> QED
          BY <5>2, <5>3
      <4> QED
        BY <4>1, <4>2, <1>I
    <3> QED
      BY <3>1, <3>2
  <2>2. ASSUME NEW p \in TB \X Pos, r.tried[p] # Nobody
        PROVE  TriedPlace(r.info[r.tried[p]].addr) = p
    <3>1. CASE p = place
      BY <3>1, <1>v, <1>o
    <3>2. CASE p # place
      <4>1. r.tried[p] = m.tried[p] /\ m.tried[p] # Nobody /\ m.tried[p] \in Ids(m)
        BY <2>2, <3>2, <1>v, <1>m
      <4>2. TriedPlace(m.info[m.tried[p]].addr) = p
        BY <4>1, <1>I
      <4>3. r.info[m.tried[p]].addr = m.info[m.tried[p]].addr
        BY <4>1, <1>o
      <4> QED
        BY <4>1, <4>2, <4>3
    <3> QED
      BY <3>1, <3>2
  <2> QED
    BY <2>1, <2>2 DEF TriedInv
<1>2. TriedChanged(m, r, id, e)
  <2>1. r.tried \in [TB \X Pos -> Ids(m) \cup {Nobody}]
    BY <1>f, <1>m, <1>p, <1>t
  <2> QED
    BY <2>1, <1>1, <1>f, <1>t DEF TriedChanged
<1>3. TypeInv(r) /\ RandomInv(r) /\ AddrInv(r) /\ NewInv(r)
  <2>1. r.nTried \in Int
    BY <1>f, <1>t
  <2> QED
    BY <2>1, <1>2, TriedChange
<1>4. CountInv(r, k)
  <2>1. TriedIds(r) = TriedIds(m) \cup {id} /\ id \notin TriedIds(m)
    BY <1>o, <1>f, <1>t DEF TriedIds
  <2>2. NewIds(r) = NewIds(m) \ {id} /\ id \in NewIds(m)
    BY <1>o, <1>f, <1>t DEF NewIds
  <2>3. IsFiniteSet(NewIds(m)) /\ IsFiniteSet(TriedIds(m))
    BY <1>t, IdsFinite
  <2>4. Cardinality(NewIds(r)) = Cardinality(NewIds(m)) - 1 /\ Cardinality(NewIds(m)) \in Nat
    BY <2>2, <2>3, FS_RemoveElement, FS_CardinalityType
  <2>5. Cardinality(TriedIds(r)) = Cardinality(TriedIds(m)) + 1
    BY <2>1, <2>3, FS_AddElement
  <2>6. m.nTried = Cardinality(TriedIds(m)) /\ m.nNew + (k + 1) = Cardinality(NewIds(m))
    BY DEF Sound, CountInv
  <2>7. r.nNew + k = Cardinality(NewIds(r))
    <3>1. \A n \in Int, c \in Nat : n + (k + 1) = c => n + k = c - 1
      OBVIOUS
    <3>2. m.nNew + k = Cardinality(NewIds(m)) - 1
      BY <3>1, <2>4, <2>6, <1>t
    <3> QED
      BY <3>2, <2>4, <1>f
  <2> QED
    BY <2>5, <2>6, <2>7, <1>f DEF CountInv
<1>5. Sound(r, k)
  BY <1>1, <1>3, <1>4 DEF Sound
<1>6. Unplaced(r) = Unplaced(m) \ {id}
  BY <1>o, <1>f DEF Unplaced
<1> QED
  BY <1>5, <1>6, <1>o, <1>f DEF r

\* The first step of the eviction: the entry loses its place among the tried.
TakeTried(m, place) ==
    [m EXCEPT !.info[m.tried[place]].tried = FALSE, !.tried[place] = Nobody, !.nTried = @ - 1]

UntriedFields(m, r, id, place, e) ==
    /\ OneEntry(m, r, id, e) /\ e \in Entry(Len(m.random)) /\ e.refs = m.info[id].refs
    /\ r.new = m.new /\ r.nNew = m.nNew
    /\ r.tried = [m.tried EXCEPT ![place] = Nobody]

LEMMA TakeTriedFields ==
    ASSUME NEW m, TypeInv(m), NEW place, NEW id \in Ids(m), id = m.tried[place]
    PROVE  UntriedFields(m, TakeTried(m, place), id, place, Untried(m.info[id]))
<1> DEFINE r == TakeTried(m, place)
           e == Untried(m.info[id])
<1>1. DOMAIN m = Fields
  BY DEF TypeInv
<1>2. /\ DOMAIN r = Fields /\ r.random = m.random /\ r.addr = m.addr /\ r.nIdCount = m.nIdCount
      /\ r.new = m.new /\ r.nNew = m.nNew
      /\ r.tried = [m.tried EXCEPT ![place] = Nobody]
  BY <1>1 DEF TakeTried, Fields
<1>3. r.info = [m.info EXCEPT ![id].tried = FALSE]
  BY <1>1 DEF TakeTried, Fields
<1>4. Ids(r) = Ids(m) /\ r.info[id] = e /\ \A x \in Ids(m) : x # id => r.info[x] = m.info[x]
  <2> HIDE DEF r
  <2> QED
    BY <1>3 DEF Ids, Untried
<1>5. e \in Entry(Len(m.random)) /\ e.addr = m.info[id].addr /\ e.source = m.info[id].source
      /\ e.pos = m.info[id].pos /\ e.refs = m.info[id].refs
  <2>1. m.info[id] \in Entry(Len(m.random)) /\ Len(m.random) \in Nat
    BY DEF TypeInv
  <2> QED
    BY <2>1, EntryTried DEF Untried
<1> HIDE DEF r, e
<1> QED
  BY <1>2, <1>4, <1>5 DEF UntriedFields, OneEntry, r, e

\* What the first step of the eviction does: id is then without a place, and is
\* not counted.
TakeResult(m, r, id, k) ==
    /\ Sound(r, k + 1) /\ Unplaced(r) = Unplaced(m) \cup {id} /\ Ids(r) = Ids(m)
    /\ \A x \in Ids(m) : x # id => r.info[x] = m.info[x]
    /\ r.info[id].addr = m.info[id].addr /\ r.info[id].source = m.info[id].source
    /\ r.info[id].refs = 0 /\ ~ r.info[id].tried /\ m.info[id].tried
    /\ r.new = m.new /\ r.nIdCount = m.nIdCount

LEMMA TakeTriedSound ==
    ASSUME NEW m, NEW k \in Nat, Sound(m, k), NEW place \in TB \X Pos,
           NEW id, id = m.tried[place], id # Nobody
    PROVE  /\ TakeResult(m, TakeTried(m, place), id, k) /\ id \in Ids(m)
           /\ TakeTried(m, place).tried = [m.tried EXCEPT ![place] = Nobody]
           /\ TriedPlace(m.info[id].addr) = place
<1> DEFINE r == TakeTried(m, place)
           e == Untried(m.info[id])
<1>t. TypeInv(m)
  BY DEF Sound
<1>m. m.tried \in [TB \X Pos -> Ids(m) \cup {Nobody}] /\ Nobody \notin Ids(m) /\ id \in Ids(m)
  BY <1>t, IdsFinite DEF TypeInv
<1>f. UntriedFields(m, r, id, place, e)
  BY <1>t, <1>m, TakeTriedFields
<1>b. e.tried = FALSE
  <2>1. m.info[id] \in Entry(Len(m.random)) /\ Len(m.random) \in Nat
    BY <1>t, <1>m DEF TypeInv
  <2> QED
    BY <2>1, EntryTried DEF Untried
<1>n. r.nTried = m.nTried - 1 /\ m.nTried \in Int
  <2>1. DOMAIN m = Fields /\ m.nTried \in Int
    BY <1>t DEF TypeInv
  <2> QED
    BY <2>1 DEF TakeTried, Fields
<1> HIDE DEF r, e
<1>g. /\ OneEntry(m, r, id, e) /\ e \in Entry(Len(m.random)) /\ e.refs = m.info[id].refs
      /\ r.new = m.new /\ r.nNew = m.nNew /\ r.tried = [m.tried EXCEPT ![place] = Nobody]
  BY <1>f DEF UntriedFields
<1>o. /\ Ids(r) = Ids(m) /\ r.info[id] = e /\ \A x \in Ids(m) : x # id => r.info[x] = m.info[x]
      /\ e.addr = m.info[id].addr /\ e.source = m.info[id].source
      /\ r.nIdCount = m.nIdCount
  BY <1>g DEF OneEntry
<1>v. r.tried[place] = Nobody /\ \A p \in TB \X Pos : p # place => r.tried[p] = m.tried[p]
  BY <1>g, <1>m
<1>A. \A x \in Ids(m) : TriedPlace(m.info[x].addr) \in TB \X Pos
  BY <1>t, EntryFields, TriedPlaceType DEF TypeInv
<1>I. /\ \A x \in Ids(m) : m.info[x].tried <=> m.tried[TriedPlace(m.info[x].addr)] = x
      /\ \A p \in TB \X Pos : m.tried[p] # Nobody => TriedPlace(m.info[m.tried[p]].addr) = p
  BY DEF Sound, TriedInv
<1>w. TriedPlace(m.info[id].addr) = place /\ m.info[id].tried
  BY <1>I, <1>m
<1>z. m.info[id].refs = 0
  BY <1>w, <1>m DEF Sound, NewInv
<1>1. TriedInv(r)
  <2>1. ASSUME NEW x \in Ids(r) PROVE r.info[x].tried <=> r.tried[TriedPlace(r.info[x].addr)] = x
    <3>1. CASE x = id
      BY <3>1, <1>o, <1>v, <1>b, <1>w
    <3>2. CASE x # id
      <4>1. r.info[x] = m.info[x] /\ x \in Ids(m)
        BY <3>2, <1>o
      <4> DEFINE q == TriedPlace(m.info[x].addr)
      <4>2. r.tried[q] = x <=> m.tried[q] = x
        <5>1. q \in TB \X Pos
          BY <1>A, <4>1
        <5>2. CASE q = place
          <6>1. x # Nobody
            BY <4>1, <1>m
          <6> QED
            BY <5>2, <6>1, <3>2, <1>v
        <5>3. CASE q # place
          BY <5>1, <5>3, <1>v
        <5> QED
          BY <5>2, <5>3
      <4> QED
        BY <4>1, <4>2, <1>I
    <3> QED
      BY <3>1, <3>2
  <2>2. ASSUME NEW p \in TB \X Pos, r.tried[p] # Nobody
        PROVE  TriedPlace(r.info[r.tried[p]].addr) = p
    <3>1. p # place
      BY <2>2, <1>v
    <3>2. r.tried[p] = m.tried[p] /\ m.tried[p] # Nobody /\ m.tried[p] \in Ids(m)
      BY <2>2, <3>1, <1>v, <1>m
    <3>3. TriedPlace(m.info[m.tried[p]].addr) = p
      BY <3>2, <1>I
    <3>4. r.info[m.tried[p]].addr = m.info[m.tried[p]].addr
      BY <3>2, <1>o
    <3> QED
      BY <3>2, <3>3, <3>4
  <2> QED
    BY <2>1, <2>2 DEF TriedInv
<1>2. TriedChanged(m, r, id, e)
  <2>1. r.tried \in [TB \X Pos -> Ids(m) \cup {Nobody}]
    BY <1>g, <1>m
  <2> QED
    BY <2>1, <1>1, <1>g, <1>m, <1>z DEF TriedChanged
<1>3. TypeInv(r) /\ RandomInv(r) /\ AddrInv(r) /\ NewInv(r)
  <2>1. r.nTried \in Int
    BY <1>n
  <2> QED
    BY <2>1, <1>2, TriedChange
<1>4. CountInv(r, k + 1)
  <2>1. TriedIds(r) = TriedIds(m) \ {id} /\ id \in TriedIds(m)
    BY <1>o, <1>b, <1>w, <1>m DEF TriedIds
  <2>2. NewIds(r) = NewIds(m) \cup {id} /\ id \notin NewIds(m)
    BY <1>o, <1>b, <1>w, <1>m DEF NewIds
  <2>3. IsFiniteSet(NewIds(m)) /\ IsFiniteSet(TriedIds(m))
    BY <1>t, IdsFinite
  <2>4. Cardinality(TriedIds(r)) = Cardinality(TriedIds(m)) - 1 /\ Cardinality(TriedIds(m)) \in Nat
    BY <2>1, <2>3, CardRemove
  <2>5. Cardinality(NewIds(r)) = Cardinality(NewIds(m)) + 1
    BY <2>2, <2>3, FS_AddElement
  <2>6. m.nTried = Cardinality(TriedIds(m)) /\ m.nNew + k = Cardinality(NewIds(m))
    BY DEF Sound, CountInv
  <2>7. r.nNew + (k + 1) = Cardinality(NewIds(r))
    <3>1. \A n \in Int : n + (k + 1) = (n + k) + 1
      OBVIOUS
    <3>2. m.nNew \in Int
      BY <1>t DEF TypeInv
    <3>3. m.nNew + (k + 1) = Cardinality(NewIds(m)) + 1
      BY <3>1, <3>2, <2>6
    <3> QED
      BY <3>3, <2>5, <1>g
  <2> QED
    BY <2>4, <2>6, <2>7, <1>n DEF CountInv
<1>5. Sound(r, k + 1)
  BY <1>1, <1>3, <1>4 DEF Sound
<1>6. Unplaced(r) = Unplaced(m) \cup {id}
  BY <1>o, <1>g, <1>b, <1>z, <1>m DEF Unplaced
<1>7. TakeResult(m, r, id, k)
  BY <1>5, <1>6, <1>o, <1>g, <1>b, <1>z, <1>w DEF TakeResult
<1> QED
  BY <1>7, <1>m, <1>g, <1>w DEF r

\* The first part of MakeTried: the entry is then without a place, and is not counted.
TakenResult(m, r, id) ==
    /\ Sound(r, 1) /\ Unplaced(r) = Unplaced(m) \cup {id} /\ Ids(r) = Ids(m)
    /\ \A x \in Ids(m) : x # id => r.info[x] = m.info[x]
    /\ r.info[id].addr = m.info[id].addr /\ r.info[id].source = m.info[id].source
    /\ r.tried = m.tried /\ r.nIdCount = m.nIdCount

LEMMA TakeFromNewSound ==
    ASSUME NEW m, Sound(m, 0), NEW id \in NewIds(m)
    PROVE  TakenResult(m, TakeFromNew(m, id), id)
<1> DEFINE r == TakeFromNew(m, id)
           a == m.info[id].addr
           mine == {p \in {NewPlace(a, b) : b \in NB} : m.new[p] = id}
           e == Recount(m.info[id], m.info[id].refs - Cardinality(mine))
<1>t. TypeInv(m) /\ id \in Ids(m) /\ ~ m.info[id].tried
  BY DEF Sound, NewIds
<1>d. DOMAIN m = Fields /\ Len(m.random) \in Nat /\ m.info[id] \in Entry(Len(m.random))
  BY <1>t DEF TypeInv
<1>a. a \in Addr
  BY <1>d, EntryFields
<1>n. m.new \in [NB \X Pos -> Ids(m) \cup {Nobody}] /\ Nobody \notin Ids(m)
  BY <1>t, IdsFinite DEF TypeInv
<1>i. m.info[id].refs = Cardinality(NewPlaces(m, id))
      /\ \A p \in NewPlaces(m, id) : p[2] = NewPos[<<a, p[1]>>]
  BY <1>t DEF Sound, NewInv
<1>1. mine = NewPlaces(m, id)
  <2>1. \A b \in NB : NewPlace(a, b) \in NB \X Pos
    BY <1>a, NewPlaceType
  <2>2. mine \subseteq NewPlaces(m, id)
    BY <2>1 DEF NewPlaces
  <2>3. ASSUME NEW p \in NewPlaces(m, id) PROVE p \in mine
    <3>1. p \in NB \X Pos /\ m.new[p] = id /\ p[2] = NewPos[<<a, p[1]>>]
      BY <1>i DEF NewPlaces
    <3>2. p[1] \in NB /\ p = <<p[1], p[2]>>
      BY <3>1
    <3>3. p = NewPlace(a, p[1])
      BY <3>1, <3>2 DEF NewPlace
    <3> HIDE DEF a
    <3> QED
      BY <3>1, <3>2, <3>3
  <2> HIDE DEF mine
  <2> QED
    BY <2>2, <2>3
<1>f. /\ DOMAIN r = Fields /\ r.random = m.random /\ r.addr = m.addr /\ r.nIdCount = m.nIdCount
      /\ r.tried = m.tried /\ r.nTried = m.nTried
  BY <1>d DEF TakeFromNew, Fields
<1>g. r.nNew = m.nNew - 1
  BY <1>d DEF TakeFromNew, Fields
<1>h. r.new = [p \in DOMAIN m.new |-> IF p \in mine THEN Nobody ELSE m.new[p]]
  BY <1>d DEF TakeFromNew, Fields
<1>j. r.info = [m.info EXCEPT ![id].refs = m.info[id].refs - Cardinality(mine)]
  BY <1>d DEF TakeFromNew, Fields
<1> HIDE DEF mine, r
<1>k. Ids(r) = Ids(m) /\ r.info[id] = e /\ \A x \in Ids(m) : x # id => r.info[x] = m.info[x]
  BY <1>j, <1>t DEF Ids, Recount
<1>e. /\ e \in Entry(Len(m.random)) /\ e.addr = m.info[id].addr /\ e.source = m.info[id].source
      /\ e.pos = m.info[id].pos /\ e.refs = 0 /\ e.tried = m.info[id].tried
  <2>1. m.info[id].refs - Cardinality(mine) = 0
    <3>1. m.info[id].refs \in Nat
      BY <1>d, EntryFields
    <3> QED
      BY <3>1, <1>1, <1>i
  <2>2. 0 \in 0 .. MaxRefs
    BY Counts
  <2>3. e = Recount(m.info[id], 0)
    BY <2>1
  <2> HIDE DEF e
  <2> QED
    BY <2>2, <2>3, <1>d, EntryRefs DEF Recount
<1> HIDE DEF e
<1>2. OneEntry(m, r, id, e)
  BY <1>f, <1>k, <1>e DEF OneEntry
<1>3. NewPlaces(r, id) = {}
  <2>1. \A p \in NB \X Pos : r.new[p] # id
    BY <1>h, <1>1, <1>n, <1>t DEF NewPlaces
  <2> QED
    BY <2>1 DEF NewPlaces
<1>4. \A x \in Ids(m) : x # id => NewPlaces(r, x) = NewPlaces(m, x)
  <2>1. ASSUME NEW x \in Ids(m), x # id, NEW p \in NB \X Pos PROVE r.new[p] = x <=> m.new[p] = x
    <3>1. x # Nobody
      BY <1>n
    <3>2. r.new[p] = IF p \in mine THEN Nobody ELSE m.new[p]
      BY <1>h, <1>n
    <3>3. p \in mine <=> m.new[p] = id
      BY <1>1 DEF NewPlaces
    <3> QED
      BY <2>1, <3>1, <3>2, <3>3
  <2> QED
    BY <2>1 DEF NewPlaces
<1>5. r.new \in [NB \X Pos -> Ids(m) \cup {Nobody}]
  BY <1>h, <1>n
<1>6. NewChanged(m, r, id, e)
  <2>1. e.refs = Cardinality(NewPlaces(r, id)) /\ \A p \in NewPlaces(r, id) : p[2] = NewPos[<<e.addr, p[1]>>]
    BY <1>3, <1>e, FS_EmptySet
  <2> QED
    BY <2>1, <1>2, <1>4, <1>5, <1>e, <1>f, <1>t DEF NewChanged
<1>7. Sound(r, 1)
  <2>1. m.nNew \in Int
    BY <1>t DEF TypeInv
  <2>2. r.nNew \in Int /\ r.nNew + 1 = m.nNew + 0
    BY <2>1, <1>g
  <2> QED
    BY <2>2, <1>6, NewChange
<1>8. Unplaced(r) = Unplaced(m) \cup {id}
  BY <1>k, <1>e, <1>t DEF Unplaced
<1> QED
  BY <1>7, <1>8, <1>k, <1>e, <1>f DEF TakenResult, r

\* The end of the eviction: the entry gets its place in the new table.
PutBack(m, id, place) == [m EXCEPT !.info[id].refs = 1, !.new[place] = id, !.nNew = @ + 1]

PutBackResult(m, r, id, place, k) ==
    /\ Sound(r, k) /\ Unplaced(r) = Unplaced(m) \ {id} /\ Ids(r) = Ids(m)
    /\ \A x \in Ids(m) : SamePeer(m, r, x) /\ (x # id => r.info[x] = m.info[x])
    /\ r.new[place] = id /\ r.tried = m.tried /\ r.nIdCount = m.nIdCount

LEMMA PutBackSound ==
    ASSUME NEW m, NEW k \in Nat, Sound(m, k + 1), NEW id \in Unplaced(m), NEW b \in NB,
           NEW place, place = NewPlace(m.info[id].addr, b), m.new[place] = Nobody
    PROVE  PutBackResult(m, PutBack(m, id, place), id, place, k)
<1> DEFINE r == PutBack(m, id, place)
           e == Recount(m.info[id], 1)
<1>t. TypeInv(m) /\ id \in Ids(m) /\ ~ m.info[id].tried /\ m.info[id].refs = 0
  BY DEF Sound, Unplaced
<1>d. DOMAIN m = Fields /\ Len(m.random) \in Nat /\ m.info[id] \in Entry(Len(m.random))
  BY <1>t DEF TypeInv
<1>f. /\ DOMAIN r = Fields /\ r.random = m.random /\ r.addr = m.addr /\ r.nIdCount = m.nIdCount
      /\ r.tried = m.tried /\ r.nTried = m.nTried /\ r.new = [m.new EXCEPT ![place] = id]
  BY <1>d DEF PutBack, Fields
<1>g. r.nNew = m.nNew + 1
  BY <1>d DEF PutBack, Fields
<1>j. r.info = [m.info EXCEPT ![id].refs = 1]
  BY <1>d DEF PutBack, Fields
<1> HIDE DEF r
<1>k. Ids(r) = Ids(m) /\ r.info[id] = e /\ \A x \in Ids(m) : x # id => r.info[x] = m.info[x]
  BY <1>j, <1>t DEF Ids, Recount
<1>e. /\ e \in Entry(Len(m.random)) /\ e.addr = m.info[id].addr /\ e.source = m.info[id].source
      /\ e.pos = m.info[id].pos /\ e.refs = 1 /\ e.tried = m.info[id].tried
  <2>1. 1 \in 0 .. MaxRefs
    BY Counts
  <2> QED
    BY <2>1, <1>d, EntryRefs DEF Recount
<1> HIDE DEF e
<1>2. OneEntry(m, r, id, e)
  BY <1>f, <1>k, <1>e DEF OneEntry
<1>3. r.nNew \in Int /\ r.nNew + k = m.nNew + (k + 1)
  <2>1. m.nNew \in Int
    BY <1>t DEF TypeInv
  <2> QED
    BY <2>1, <1>g
<1>4. Sound(r, k) /\ Unplaced(r) = Unplaced(m) \ {id}
  <2>1. m.new[NewPlace(e.addr, b)] = Nobody /\ r.new = [m.new EXCEPT ![NewPlace(e.addr, b)] = id]
    BY <1>f, <1>e
  <2>2. ~ e.tried /\ e.refs = m.info[id].refs + 1
    BY <1>e, <1>t
  <2> QED
    BY <2>1, <2>2, <1>2, <1>3, <1>e, <1>f, <1>t, PutNewSound
<1>5. \A x \in Ids(m) : SamePeer(m, r, x) /\ (x # id => r.info[x] = m.info[x])
  BY <1>k, <1>e DEF SamePeer
<1>6. r.new[place] = id
  <2>1. place \in NB \X Pos
    BY <1>d, EntryFields, NewPlaceType
  <2>2. m.new \in [NB \X Pos -> Ids(m) \cup {Nobody}]
    BY <1>t DEF TypeInv
  <2> QED
    BY <2>1, <2>2, <1>f
<1> QED
  BY <1>4, <1>5, <1>6, <1>k, <1>f DEF r, PutBackResult

\* x is the same peer in m and in r, where it has a place.
Kept(m, r, x) ==
    /\ x \in Ids(r)
    /\ r.info[x].addr = m.info[x].addr /\ r.info[x].source = m.info[x].source
    /\ r.info[x].tried \/ \E p \in NB \X Pos : r.new[p] = x

EvictResult(m, r, place, k) ==
    /\ Sound(r, k) /\ Unplaced(r) = Unplaced(m) /\ r.tried[place] = Nobody
    /\ r.nIdCount = m.nIdCount
    /\ \A x \in Unplaced(m) : r.info[x].addr = m.info[x].addr
    /\ \A x \in TriedIds(m) : Kept(m, r, x)

LEMMA EvictSound ==
    ASSUME NEW m, NEW k \in Nat, Sound(m, k), NEW place \in TB \X Pos, m.tried[place] # Nobody
    PROVE  EvictResult(m, Evict(m, place), place, k)
<1> DEFINE id == m.tried[place]
           out == TakeTried(m, place)
           a == m.info[id].addr
           b == NewBucket[<<a, m.info[id].source>>]
           back == NewPlace(a, b)
           room == ClearNew(out, back)
           r == PutBack(room, id, back)
<1>0. Evict(m, place) = r
  BY DEF Evict, TakeTried, PutBack
<1>1. TakeResult(m, out, id, k) /\ id \in Ids(m) /\ out.tried = [m.tried EXCEPT ![place] = Nobody]
  <2> HIDE DEF out, id
  <2>1. id = m.tried[place] /\ id # Nobody
    BY DEF id
  <2> QED
    BY <2>1, TakeTriedSound DEF out
<1>a. a \in Addr /\ b \in NB /\ back \in NB \X Pos
  <2>1. m.info[id] \in Entry(Len(m.random)) /\ Len(m.random) \in Nat
    BY <1>1 DEF Sound, TypeInv
  <2>2. a \in Addr /\ m.info[id].source \in Source
    BY <2>1, EntryFields
  <2>3. b \in NB
    BY <2>2, SourceBucketType
  <2> HIDE DEF a, b
  <2> QED
    BY <2>2, <2>3, NewPlaceType
<1>t. m.tried \in [TB \X Pos -> Ids(m) \cup {Nobody}] /\ Nobody \notin Ids(m)
  <2>1. TypeInv(m)
    BY DEF Sound
  <2> QED
    BY <2>1, IdsFinite DEF TypeInv
<1> HIDE DEF out, id, r
<1>2. /\ Sound(out, k + 1) /\ Unplaced(out) = Unplaced(m) \cup {id} /\ Ids(out) = Ids(m)
      /\ \A x \in Ids(m) : x # id => out.info[x] = m.info[x]
      /\ out.info[id].addr = a /\ out.info[id].source = m.info[id].source
      /\ ~ out.info[id].tried /\ m.info[id].tried /\ out.nIdCount = m.nIdCount
  BY <1>1 DEF TakeResult
<1>3. ClearResult(out, room, back, k + 1)
  BY <1>2, <1>a, ClearNewSound
<1> HIDE DEF room
<1>c. /\ Sound(room, k + 1) /\ Unplaced(room) = Unplaced(out) /\ room.new[back] = Nobody
      /\ room.tried = out.tried /\ room.nIdCount = out.nIdCount
      /\ \A x \in Ids(out) : x # out.new[back] => x \in Ids(room) /\ SameEntry(out, room, x)
      /\ \A x \in Ids(room) : SamePeer(out, room, x)
      /\ out.new[back] # Nobody => ~ out.info[out.new[back]].tried
  BY <1>3 DEF ClearResult
<1>u. \A x \in Unplaced(out) : x \in Ids(room) /\ SameEntry(out, room, x)
  <2>1. ASSUME NEW x \in Unplaced(out) PROVE x # out.new[back] /\ x \in Ids(out)
    BY <1>2, <1>a, UnplacedNowhere DEF Unplaced
  <2> QED
    BY <2>1, <1>c
<1>i. id \in Unplaced(out) /\ id \in Unplaced(room)
  BY <1>2, <1>c
<1>4. room.info[id].addr = a /\ room.info[id].source = m.info[id].source
  BY <1>u, <1>i, <1>2 DEF SameEntry
<1>5. /\ Sound(r, k) /\ Unplaced(r) = Unplaced(room) \ {id} /\ Ids(r) = Ids(room)
      /\ \A x \in Ids(room) : SamePeer(room, r, x) /\ (x # id => r.info[x] = room.info[x])
      /\ r.new[back] = id /\ r.tried = room.tried /\ r.nIdCount = room.nIdCount
  <2>1. back = NewPlace(room.info[id].addr, b)
    BY <1>4
  <2> HIDE DEF a, b, back
  <2>2. PutBackResult(room, r, id, back, k)
    BY <2>1, <1>a, <1>c, <1>i, PutBackSound DEF r
  <2> QED
    BY <2>2 DEF PutBackResult
<1> HIDE DEF a, b, back
<1>6. Unplaced(r) = Unplaced(m)
  <2>1. id \notin Unplaced(m)
    BY <1>2 DEF Unplaced
  <2> QED
    BY <2>1, <1>2, <1>c, <1>5
<1>7. r.tried[place] = Nobody /\ r.nIdCount = m.nIdCount
  BY <1>1, <1>2, <1>5, <1>c, <1>t
<1>8. ASSUME NEW x \in Unplaced(m) PROVE r.info[x].addr = m.info[x].addr
  <2>1. x \in Unplaced(out) /\ x \in Ids(m) /\ x # id
    BY <1>2 DEF Unplaced
  <2>2. x \in Ids(room) /\ room.info[x].addr = out.info[x].addr
    BY <2>1, <1>u DEF SameEntry
  <2> QED
    BY <2>1, <2>2, <1>2, <1>5
<1>9. ASSUME NEW x \in TriedIds(m) PROVE Kept(m, r, x)
  <2>0. x \in Ids(m) /\ m.info[x].tried
    BY DEF TriedIds
  <2>1. CASE x = id
    <3>1. r.info[id].addr = a /\ r.info[id].source = m.info[id].source /\ id \in Ids(r)
      BY <1>4, <1>5, <1>u, <1>i DEF SamePeer
    <3> QED
      BY <2>1, <3>1, <1>5, <1>a DEF Kept, a
  <2>2. CASE x # id
    <3>1. out.info[x] = m.info[x] /\ x \in Ids(out)
      BY <2>0, <2>2, <1>2
    <3>2. x # out.new[back]
      <4>1. x # Nobody
        BY <2>0, <1>t
      <4> QED
        BY <4>1, <3>1, <2>0, <1>c
    <3>3. x \in Ids(room) /\ SameEntry(out, room, x)
      BY <3>1, <3>2, <1>c
    <3>4. x \in Ids(r) /\ r.info[x] = room.info[x]
      BY <3>3, <2>2, <1>5
    <3>5. /\ r.info[x].addr = m.info[x].addr /\ r.info[x].source = m.info[x].source
          /\ r.info[x].tried = m.info[x].tried
      BY <3>1, <3>3, <3>4 DEF SameEntry
    <3> QED
      BY <2>0, <3>4, <3>5 DEF Kept
  <2> QED
    BY <2>1, <2>2
<1> QED
  BY <1>0, <1>5, <1>6, <1>7, <1>8, <1>9 DEF EvictResult

TriedResult(m, r) ==
    /\ Sound(r, 0) /\ Unplaced(r) = {} /\ r.nIdCount = m.nIdCount
    /\ \A x \in TriedIds(m) : Kept(m, r, x)

LEMMA MakeTriedSound ==
    ASSUME NEW m, Sound(m, 0), Unplaced(m) = {}, NEW id \in NewIds(m)
    PROVE  TriedResult(m, MakeTried(m, id))
<1> DEFINE place == TriedPlace(m.info[id].addr)
           taken == TakeFromNew(m, id)
           room == IF taken.tried[place] = Nobody THEN taken ELSE Evict(taken, place)
           r == PutTried(room, id, place)
<1>0. MakeTried(m, id) = r
  BY DEF MakeTried
<1>t. TypeInv(m) /\ id \in Ids(m) /\ ~ m.info[id].tried
  BY DEF Sound, NewIds
<1>p. place \in TB \X Pos
  BY <1>t, EntryFields, TriedPlaceType DEF TypeInv
<1>1. TakenResult(m, taken, id)
  BY TakeFromNewSound
<1> HIDE DEF taken, place
<1>2. /\ Sound(taken, 1) /\ Unplaced(taken) = {id} /\ Ids(taken) = Ids(m)
      /\ \A x \in Ids(m) : x # id => taken.info[x] = m.info[x]
      /\ taken.info[id].addr = m.info[id].addr /\ taken.nIdCount = m.nIdCount
  BY <1>1 DEF TakenResult
<1>3. EvictResult(taken, room, place, 1)
  <2>1. CASE taken.tried[place] = Nobody
    <3>1. \A x \in TriedIds(taken) : Kept(taken, taken, x)
      BY DEF TriedIds, Kept
    <3> QED
      BY <2>1, <3>1, <1>2 DEF EvictResult
  <2>2. CASE taken.tried[place] # Nobody
    BY <2>2, <1>2, <1>p, EvictSound
  <2> QED
    BY <2>1, <2>2
<1> HIDE DEF room
<1>4. /\ Sound(room, 1) /\ Unplaced(room) = {id} /\ room.tried[place] = Nobody
      /\ room.nIdCount = m.nIdCount /\ room.info[id].addr = m.info[id].addr
      /\ \A x \in TriedIds(taken) : Kept(taken, room, x)
  BY <1>2, <1>3 DEF EvictResult
<1>5. /\ Sound(r, 0) /\ Unplaced(r) = Unplaced(room) \ {id} /\ Ids(r) = Ids(room)
      /\ \A x \in Ids(room) : x # id => r.info[x] = room.info[x]
      /\ r.new = room.new /\ r.nIdCount = room.nIdCount
  <2>1. place = TriedPlace(room.info[id].addr) /\ id \in Unplaced(room) /\ Sound(room, 0 + 1)
    BY <1>4 DEF place
  <2> QED
    BY <2>1, <1>4, PutTriedSound
<1> HIDE DEF r
<1>6. ASSUME NEW x \in TriedIds(m) PROVE Kept(m, r, x)
  <2>1. x \in Ids(m) /\ m.info[x].tried /\ x # id
    BY <1>t DEF TriedIds
  <2>2. x \in Ids(taken) /\ taken.info[x] = m.info[x]
    BY <2>1, <1>2
  <2>3. x \in TriedIds(taken)
    BY <2>1, <2>2 DEF TriedIds
  <2>4. Kept(taken, room, x)
    BY <2>3, <1>4
  <2>5. x \in Ids(room)
    BY <2>4 DEF Kept
  <2>6. x \in Ids(r) /\ r.info[x] = room.info[x]
    BY <2>1, <2>5, <1>5
  <2> QED
    BY <2>2, <2>4, <2>6, <1>5 DEF Kept
<1> QED
  BY <1>0, <1>4, <1>5, <1>6 DEF TriedResult

------------------------------------------------------------------------------
(* The operations.                                                          *)

\* What holds of the tables between two operations.
Consistent(m) == Sound(m, 0) /\ Unplaced(m) = {}

CountedNew(m) == [m EXCEPT !.nNew = @ + 1]

\* m is r but for the count of new entries.
SameTables(m, r) ==
    /\ DOMAIN r = Fields /\ r.info = m.info /\ r.addr = m.addr /\ r.random = m.random
    /\ r.new = m.new /\ r.tried = m.tried /\ r.nTried = m.nTried /\ r.nIdCount = m.nIdCount

LEMMA CountedSound ==
    ASSUME NEW m, NEW k \in Nat, Sound(m, k + 1)
    PROVE  Sound(CountedNew(m), k) /\ SameTables(m, CountedNew(m))
<1> DEFINE r == CountedNew(m)
<1>1. DOMAIN m = Fields /\ m.nNew \in Int
  BY DEF Sound, TypeInv
<1>2. SameTables(m, r) /\ r.nNew = m.nNew + 1
  BY <1>1 DEF CountedNew, Fields, SameTables
<1> HIDE DEF r
<1>3. Ids(r) = Ids(m) /\ r.nNew \in Int /\ r.nNew + k = m.nNew + (k + 1)
  BY <1>1, <1>2 DEF Ids, SameTables
<1>4. TypeInv(r)
  BY <1>2, <1>3 DEF Sound, TypeInv, SameTables
<1>5. RandomInv(r) /\ AddrInv(r)
  BY <1>2, <1>3 DEF Sound, RandomInv, AddrInv, SameTables
<1>6. NewInv(r) /\ TriedInv(r)
  <2>1. \A x : NewPlaces(r, x) = NewPlaces(m, x)
    BY <1>2 DEF NewPlaces, SameTables
  <2> QED
    BY <2>1, <1>2, <1>3 DEF Sound, NewInv, TriedInv, SameTables
<1>7. CountInv(r, k)
  <2>1. TriedIds(r) = TriedIds(m) /\ NewIds(r) = NewIds(m)
    BY <1>2, <1>3 DEF TriedIds, NewIds, SameTables
  <2> QED
    BY <2>1, <1>2, <1>3 DEF Sound, CountInv, SameTables
<1> QED
  BY <1>2, <1>4, <1>5, <1>6, <1>7 DEF Sound, r

\* What Create and the count of the new entry do.
CreateResult(m, r, a, s) ==
    /\ Sound(r, 0) /\ r.nIdCount = m.nIdCount + 1
    /\ m.nIdCount \in Nat /\ m.nIdCount \notin Ids(m) /\ Ids(r) = Ids(m) \cup {m.nIdCount}
    /\ \A x \in Ids(m) : r.info[x] = m.info[x]
    /\ r.info[m.nIdCount].addr = a /\ r.info[m.nIdCount].source = s
    /\ r.info[m.nIdCount].refs = 0 /\ ~ r.info[m.nIdCount].tried
    /\ Unplaced(r) = Unplaced(m) \cup {m.nIdCount}
    /\ r.new = m.new /\ r.tried = m.tried

LEMMA CreateResults ==
    ASSUME NEW m, Sound(m, 0), NEW a \in Addr, NEW s \in Source, a \notin DOMAIN m.addr
    PROVE  CreateResult(m, CountedNew(Create(m, a, s)), a, s)
<1> DEFINE c == Create(m, a, s)
           r == CountedNew(c)
           id == m.nIdCount
<1>1. TypeInv(m) /\ DOMAIN m = Fields
  BY DEF Sound, TypeInv
<1>2. Sound(c, 0 + 1)
  BY CreateSound
<1>3. /\ id \notin Ids(m) /\ id \in Nat /\ Ids(c) = Ids(m) \cup {id}
      /\ c.info[id] = Fresh(m, a, s) /\ \A x \in Ids(m) : c.info[x] = m.info[x]
  BY <1>1, CreateEntries
<1>4. c.nIdCount = id + 1 /\ c.new = m.new /\ c.tried = m.tried
  BY <1>1, CreateFields
<1>5. c.info[id].addr = a /\ c.info[id].source = s /\ c.info[id].refs = 0 /\ ~ c.info[id].tried
  BY <1>3 DEF Fresh
<1> HIDE DEF c, r, id
<1>6. Sound(r, 0) /\ SameTables(c, r)
  BY <1>2, CountedSound DEF r
<1>7. Ids(r) = Ids(c) /\ r.info = c.info /\ r.nIdCount = c.nIdCount /\ r.new = c.new /\ r.tried = c.tried
  BY <1>6 DEF SameTables, Ids
<1>8. Unplaced(r) = Unplaced(m) \cup {id}
  BY <1>3, <1>5, <1>7 DEF Unplaced
<1> QED
  BY <1>3, <1>4, <1>5, <1>6, <1>7, <1>8 DEF CreateResult, r, c, id

LEMMA EmptySound == Sound(Empty, 0) /\ Ids(Empty) = {} /\ Empty.nIdCount = 0
<1>1. /\ DOMAIN Empty = Fields /\ Empty.info = <<>> /\ Empty.addr = <<>> /\ Empty.random = <<>>
      /\ Empty.new = [p \in NB \X Pos |-> Nobody] /\ Empty.tried = [p \in TB \X Pos |-> Nobody]
      /\ Empty.nNew = 0 /\ Empty.nTried = 0 /\ Empty.nIdCount = 0
  BY DEF Empty, Fields
<1>2. Ids(Empty) = {} /\ DOMAIN Empty.addr = {} /\ Len(Empty.random) = 0
  BY <1>1 DEF Ids
<1>3. Empty.random \in Seq(Ids(Empty))
  BY <1>1
<1>4. TypeInv(Empty)
  BY <1>1, <1>2, <1>3 DEF TypeInv
<1>5. RandomInv(Empty) /\ AddrInv(Empty) /\ NewInv(Empty)
  BY <1>2 DEF RandomInv, AddrInv, NewInv
<1>6. TriedInv(Empty)
  BY <1>1, <1>2 DEF TriedInv
<1>7. CountInv(Empty, 0)
  <2>1. TriedIds(Empty) = {} /\ NewIds(Empty) = {}
    BY <1>2 DEF TriedIds, NewIds
  <2> QED
    BY <2>1, <1>1, FS_EmptySet DEF CountInv
<1> QED
  BY <1>1, <1>2, <1>4, <1>5, <1>6, <1>7 DEF Sound

\* Tables in which every tried entry of m is kept.
StepResult(m, r) == Consistent(r) /\ \A x \in TriedIds(m) : Kept(m, r, x)

LEMMA AddStep ==
    ASSUME NEW m, NEW r, AddResult(m, r)
    PROVE  StepResult(m, r)
<1>1. Consistent(r)
  BY DEF AddResult, Consistent
<1>2. ASSUME NEW x \in TriedIds(m) PROVE Kept(m, r, x)
  <2>1. x \in Ids(r) /\ SamePeer(m, r, x) /\ m.info[x].tried
    BY DEF AddResult, TriedIds
  <2> QED
    BY <2>1 DEF SamePeer, Kept
<1> QED
  BY <1>1, <1>2 DEF StepResult

LEMMA AddUnknownStep ==
    ASSUME Consistent(addrman), NEW a \in Addr, NEW s \in Source, NEW terrible, AddUnknown(a, s, terrible)
    PROVE  StepResult(addrman, addrman') /\ addrman'.nIdCount <= MaxIds
<1> DEFINE m == addrman
           id == m.nIdCount
           c == CountedNew(Create(m, a, s))
           r == Place(c, id, s, terrible)
<1>1. addrman' = r /\ a \notin DOMAIN m.addr /\ id < MaxIds
  BY DEF AddUnknown, Known, CountedNew
<1>2. Sound(m, 0) /\ Unplaced(m) = {}
  BY DEF Consistent
<1>3. CreateResult(m, c, a, s)
  BY <1>1, <1>2, CreateResults
<1> HIDE DEF m, id, c, r
<1>4. /\ Sound(c, 0) /\ id \in NewIds(c) /\ Unplaced(c) \subseteq {id} /\ c.info[id].refs # MaxRefs
      /\ id \in Nat /\ c.nIdCount = id + 1
  <2>1. MaxRefs # 0
    BY Counts
  <2> QED
    BY <2>1, <1>2, <1>3 DEF CreateResult, NewIds, id
<1>5. AddResult(c, r)
  BY <1>4, PlaceSound DEF r
<1>6. StepResult(c, r)
  BY <1>5, AddStep
<1>7. ASSUME NEW x \in TriedIds(m) PROVE Kept(m, r, x)
  <2>1. x \in Ids(m) /\ m.info[x].tried
    BY DEF TriedIds
  <2>2. x \in Ids(c) /\ c.info[x] = m.info[x]
    BY <2>1, <1>3 DEF CreateResult
  <2>3. Kept(c, r, x)
    BY <2>1, <2>2, <1>6 DEF StepResult, TriedIds
  <2> QED
    BY <2>2, <2>3 DEF Kept
<1>8. r.nIdCount <= MaxIds
  BY <1>1, <1>4, <1>5, Counts DEF AddResult
<1> QED
  BY <1>1, <1>6, <1>7, <1>8 DEF StepResult, m

LEMMA AddKnownStep ==
    ASSUME Consistent(addrman), NEW a \in Addr, NEW s \in Source, NEW terrible, AddKnown(a, s, terrible)
    PROVE  StepResult(addrman, addrman') /\ addrman'.nIdCount = addrman.nIdCount
<1> DEFINE m == addrman
           id == m.addr[a]
           r == Place(m, id, s, terrible)
<1>1. addrman' = r /\ a \in DOMAIN m.addr /\ ~ m.info[id].tried /\ m.info[id].refs # MaxRefs
  BY DEF AddKnown, Known, InfoOf
<1>2. Sound(m, 0) /\ Unplaced(m) = {}
  BY DEF Consistent
<1>3. id \in NewIds(m)
  BY <1>1, <1>2 DEF Sound, AddrInv, NewIds
<1> HIDE DEF m, id, r
<1>4. AddResult(m, r)
  <2>1. Unplaced(m) \subseteq {id}
    BY <1>2
  <2> QED
    BY <2>1, <1>1, <1>2, <1>3, PlaceSound DEF r
<1> QED
  BY <1>1, <1>4, AddStep DEF AddResult, m

LEMMA GoodStep ==
    ASSUME Consistent(addrman), NEW a \in Addr, Good(a)
    PROVE  StepResult(addrman, addrman') /\ addrman'.nIdCount = addrman.nIdCount
<1> DEFINE m == addrman
           id == m.addr[a]
<1>1. addrman' = MakeTried(m, id) /\ a \in DOMAIN m.addr /\ ~ m.info[id].tried
  BY DEF Good, Known, InfoOf
<1>2. Sound(m, 0) /\ Unplaced(m) = {}
  BY DEF Consistent
<1>3. id \in NewIds(m)
  BY <1>1, <1>2 DEF Sound, AddrInv, NewIds
<1> HIDE DEF m, id
<1>4. TriedResult(m, MakeTried(m, id))
  BY <1>2, <1>3, MakeTriedSound
<1> QED
  BY <1>1, <1>4 DEF TriedResult, StepResult, Consistent, m

\* What every step of the shuffle of GetAddr_ keeps.
Shuffled(m, s) ==
    /\ Sound(s, 0) /\ SameEntries(m, s) /\ SamePlaces(m, s) /\ s.nIdCount = m.nIdCount
    /\ Len(s.random) = Len(m.random)

LEMMA ShuffleStep ==
    ASSUME NEW m, NEW s, Shuffled(m, s), NEW i \in 1 .. Len(m.random), NEW j \in 1 .. Len(m.random)
    PROVE  Shuffled(m, SwapRandom(s, i, j))
<1> DEFINE r == SwapRandom(s, i, j)
<1>1. /\ Sound(r, 0) /\ SameEntries(s, r) /\ SamePlaces(s, r) /\ SameCounts(s, r)
      /\ Len(r.random) = Len(s.random)
  <2>1. Sound(s, 0) /\ i \in 1 .. Len(s.random) /\ j \in 1 .. Len(s.random)
    BY DEF Shuffled
  <2> QED
    BY <2>1, SwapSound
<1> HIDE DEF r
<1>2. SameEntries(m, r)
  BY <1>1 DEF Shuffled, SameEntries
<1> QED
  BY <1>1, <1>2 DEF Shuffled, SamePlaces, SameCounts, r

LEMMA GetAddrStep ==
    ASSUME Consistent(addrman), NEW upTo \in Nat, NEW choice, GetAddr(upTo, choice)
    PROVE  StepResult(addrman, addrman') /\ addrman'.nIdCount = addrman.nIdCount
<1> DEFINE m == addrman
           G(n, s) == SwapRandom(s, n, choice[n])
           D(f, n) == f = [k \in 0 .. n |-> IF k = 0 THEN m ELSE G(k, f[k - 1])]
           load == CHOOSE f : D(f, upTo)
<1>1. addrman' = load[upTo]
  BY DEF GetAddr
<1>2. upTo <= Len(m.random) /\ \A n \in 1 .. upTo : choice[n] \in n .. Len(m.random)
  BY DEF GetAddr
<1>3. Sound(m, 0) /\ Unplaced(m) = {} /\ Len(m.random) \in Nat
  BY DEF Consistent, Sound, TypeInv
<1> HIDE DEF m, G
<1>4. \E f : D(f, upTo)
  <2> DEFINE S == {n \in 0 .. upTo : \E f : D(f, n)}
  <2>1. 0 \in S
    <3>1. D([k \in 0 .. 0 |-> m], 0)
      OBVIOUS
    <3> HIDE DEF D
    <3> QED
      BY <3>1
  <2>2. ASSUME NEW n \in 1 .. upTo, n - 1 \in S PROVE n \in S
    <3>1. PICK f : D(f, n - 1)
      BY <2>2
    <3> DEFINE g == [k \in 0 .. n |-> IF k = n THEN G(n, f[n - 1]) ELSE f[k]]
    <3>2. \A k \in 0 .. n - 1 : g[k] = f[k] /\ f[k] = IF k = 0 THEN m ELSE G(k, f[k - 1])
      BY <3>1
    <3>3. g[n] = G(n, g[n - 1])
      OBVIOUS
    <3>4. \A k \in 0 .. n : g[k] = IF k = 0 THEN m ELSE G(k, g[k - 1])
      <4> HIDE DEF g
      <4>1. ASSUME NEW k \in 0 .. n - 1 PROVE g[k] = IF k = 0 THEN m ELSE G(k, g[k - 1])
        <5>1. CASE k = 0
          BY <5>1, <3>2
        <5>2. CASE k # 0
          <6>1. k - 1 \in 0 .. n - 1
            BY <5>2
          <6>2. g[k] = f[k] /\ f[k] = G(k, f[k - 1]) /\ g[k - 1] = f[k - 1]
            BY <5>2, <6>1, <3>2
          <6> QED
            BY <5>2, <6>2
        <5> QED
          BY <5>1, <5>2
      <4> QED
        BY <4>1, <3>3
    <3>5. D(g, n)
      BY <3>4
    <3> HIDE DEF D, g
    <3> QED
      BY <3>5
  <2> HIDE DEF S
  <2>3. upTo \in S
    BY <2>1, <2>2, UpToInduction
  <2> QED
    BY <2>3 DEF S
<1>5. D(load, upTo)
  <2> HIDE DEF D
  <2> QED
    BY <1>4
<1>6. load[0] = m /\ \A n \in 1 .. upTo : load[n] = G(n, load[n - 1])
  <2> HIDE DEF load
  <2> QED
    BY <1>5
<1> HIDE DEF D, load
<1>7. Shuffled(m, load[upTo])
  <2> DEFINE S == {n \in 0 .. upTo : Shuffled(m, load[n])}
  <2>1. 0 \in S
    BY <1>3, <1>6 DEF Shuffled, SameEntries, SamePlaces
  <2>2. ASSUME NEW n \in 1 .. upTo, n - 1 \in S PROVE n \in S
    <3>1. n \in 1 .. Len(m.random) /\ choice[n] \in 1 .. Len(m.random)
      BY <1>2, <1>3
    <3>2. Shuffled(m, load[n - 1])
      BY <2>2
    <3>3. Shuffled(m, G(n, load[n - 1]))
      BY <3>1, <3>2, ShuffleStep DEF G
    <3> QED
      BY <3>3, <1>6
  <2> HIDE DEF S
  <2>3. upTo \in S
    BY <2>1, <2>2, UpToInduction
  <2> QED
    BY <2>3 DEF S
<1>8. Consistent(addrman')
  <2>1. Unplaced(load[upTo]) = Unplaced(m)
    BY <1>3, <1>7, PlacesFrame DEF Shuffled, Sound
  <2> QED
    BY <2>1, <1>1, <1>3, <1>7 DEF Shuffled, Consistent
<1>9. \A x \in TriedIds(m) : Kept(m, load[upTo], x)
  BY <1>7 DEF Shuffled, SameEntries, TriedIds, Kept
<1> QED
  BY <1>1, <1>7, <1>8, <1>9 DEF StepResult, Shuffled, m

------------------------------------------------------------------------------
(* Saving: Serialize numbers the entries in the order of their ids.         *)

Below(S, id) == Cardinality({i \in S : i < id})

LEMMA BelowBounds ==
    ASSUME NEW S \in SUBSET Nat, IsFiniteSet(S), NEW id \in S
    PROVE  Below(S, id) \in 0 .. Cardinality(S) - 1
<1> DEFINE B == {i \in S : i < id}
<1>1. B \in SUBSET S /\ B # S
  OBVIOUS
<1> HIDE DEF B
<1>2. IsFiniteSet(B) /\ Cardinality(B) <= Cardinality(S) /\ Cardinality(B) # Cardinality(S)
  BY <1>1, FS_Subset
<1>3. Cardinality(B) \in Nat /\ Cardinality(S) \in Nat
  BY <1>2, FS_CardinalityType
<1> QED
  BY <1>2, <1>3 DEF B, Below

LEMMA BelowLess ==
    ASSUME NEW S \in SUBSET Nat, IsFiniteSet(S), NEW i \in S, NEW j \in S, i < j
    PROVE  Below(S, i) # Below(S, j)
<1> DEFINE B == {x \in S : x < i}
           C == {x \in S : x < j}
<1>1. i \in C /\ i \notin B /\ C \in SUBSET S
  OBVIOUS
<1>0. B \in SUBSET C
  <2>1. \A x \in S : x < i => x < j
    OBVIOUS
  <2> QED
    BY <2>1
<1> HIDE DEF B, C
<1>2. IsFiniteSet(C)
  BY <1>1, FS_Subset
<1>3. Cardinality(B) # Cardinality(C)
  BY <1>0, <1>1, <1>2, FS_Subset
<1> QED
  BY <1>3 DEF B, C, Below

LEMMA BelowOnto ==
    ASSUME NEW S \in SUBSET Nat, IsFiniteSet(S), NEW n \in 0 .. Cardinality(S) - 1
    PROVE  \E id \in S : Below(S, id) = n
<1> DEFINE T == 0 .. Cardinality(S) - 1
           f == [id \in S |-> Below(S, id)]
<1>1. f \in [S -> T]
  BY BelowBounds
<1>2. \A i, j \in S : i # j => f[i] # f[j]
  <2>1. \A i, j \in S : i < j => Below(S, i) # Below(S, j)
    BY BelowLess
  <2>2. \A i, j \in S : i # j => i < j \/ j < i
    OBVIOUS
  <2> QED
    BY <2>1, <2>2
<1>3. IsFiniteSet(T) /\ Cardinality(T) = Cardinality(S)
  <2>1. Cardinality(S) \in Nat
    BY FS_CardinalityType
  <2>2. 0 \in Int /\ Cardinality(S) - 1 \in Int
    BY <2>1
  <2>3. IsFiniteSet(T) /\ Cardinality(T) = IF 0 > Cardinality(S) - 1 THEN 0 ELSE Cardinality(S) - 1 - 0 + 1
    BY <2>2, FS_Interval
  <2> QED
    BY <2>1, <2>3
<1>4. n \in T
  OBVIOUS
<1> HIDE DEF T
<1>5. f \in Injection(S, T)
  BY <1>1, <1>2 DEF Injection, IsInjective
<1>6. f \in Surjection(S, T)
  <2> HIDE DEF f
  <2> QED
    BY <1>3, <1>5, FS_Injection
<1>7. \E id \in S : f[id] = n
  BY <1>4, <1>6 DEF Surjection
<1> QED
  BY <1>7

LEMMA NthType ==
    ASSUME NEW S \in SUBSET Nat, IsFiniteSet(S), NEW n \in 0 .. Cardinality(S) - 1
    PROVE  Nth(S, n) \in S /\ Below(S, Nth(S, n)) = n
<1>1. \E id \in S : Below(S, id) = n
  BY BelowOnto
<1> QED
  BY <1>1 DEF Nth, Below

LEMMA NthBelow ==
    ASSUME NEW S \in SUBSET Nat, IsFiniteSet(S), NEW id \in S
    PROVE  Nth(S, Below(S, id)) = id
<1> DEFINE n == Below(S, id)
           j == Nth(S, n)
<1>1. n \in 0 .. Cardinality(S) - 1
  BY BelowBounds
<1> HIDE DEF n
<1>2. j \in S /\ Below(S, j) = n
  BY <1>1, NthType
<1> HIDE DEF j
<1>3. ~ (id < j) /\ ~ (j < id)
  BY <1>2, BelowLess DEF n
<1>4. j = id
  BY <1>2, <1>3
<1> QED
  BY <1>4 DEF j, n

\* A file of N new and T tried entries that Serialize may have written.
FileInv(f, N, T) ==
    /\ DOMAIN f.new = 0 .. N - 1 /\ DOMAIN f.tried = 0 .. T - 1
    /\ \A i \in 0 .. N - 1 : f.new[i].addr \in Addr /\ f.new[i].source \in Source
    /\ \A i \in 0 .. T - 1 : f.tried[i].addr \in Addr /\ f.tried[i].source \in Source
    /\ \A i, j \in 0 .. N - 1 : f.new[i].addr = f.new[j].addr => i = j
    /\ \A i, j \in 0 .. T - 1 : f.tried[i].addr = f.tried[j].addr => i = j
    /\ \A i \in 0 .. N - 1, j \in 0 .. T - 1 : f.new[i].addr # f.tried[j].addr
    /\ f.buckets \in [NB \X Pos -> (0 .. N - 1) \cup {Nobody}]

\* Its places are those of its entries.
PlacesInv(f, N, T) ==
    /\ \A i, j \in 0 .. T - 1 : TriedPlace(f.tried[i].addr) = TriedPlace(f.tried[j].addr) => i = j
    /\ \A p \in NB \X Pos : f.buckets[p] # Nobody => NewPlace(f.new[f.buckets[p]].addr, p[1]) = p
    /\ \A i \in 0 .. N - 1 : Cardinality({p \in NB \X Pos : f.buckets[p] = i}) \in 1 .. MaxRefs

\* It holds what m holds.
ContentInv(m, f, N, T) ==
    /\ \A p \in NB \X Pos :
        /\ m.new[p] = Nobody => f.buckets[p] = Nobody
        /\ m.new[p] # Nobody => /\ f.buckets[p] \in 0 .. N - 1
                                /\ f.new[f.buckets[p]] = Record(m, m.new[p])
    /\ \A i \in 0 .. T - 1 : \E id \in TriedIds(m) : f.tried[i] = Record(m, id)
    /\ \A id \in TriedIds(m) : \E i \in 0 .. T - 1 : f.tried[i] = Record(m, id)

SavedResult(m, f) ==
    /\ m.nNew \in Nat /\ m.nTried \in Nat
    /\ FileInv(f, m.nNew, m.nTried) /\ PlacesInv(f, m.nNew, m.nTried)
    /\ ContentInv(m, f, m.nNew, m.nTried)

LEMMA SerializeFields ==
    ASSUME NEW m, Consistent(m)
    PROVE  LET f == Serialize(m) IN
           /\ f.new = [n \in 0 .. m.nNew - 1 |-> Record(m, Nth(NewIds(m), n))]
           /\ f.tried = [n \in 0 .. m.nTried - 1 |-> Record(m, Nth(TriedIds(m), n))]
           /\ f.buckets = [p \in NB \X Pos |->
                              IF m.new[p] = Nobody THEN Nobody ELSE Below(NewIds(m), m.new[p])]
<1>1. {id \in DOMAIN m.info : m.info[id].refs # 0} = NewIds(m)
  BY DEF Consistent, Sound, NewInv, Unplaced, NewIds, Ids
<1>2. {id \in DOMAIN m.info : m.info[id].tried} = TriedIds(m)
  BY DEF TriedIds, Ids
<1>3. DOMAIN m.new = NB \X Pos
  BY DEF Consistent, Sound, TypeInv
<1> QED
  BY <1>1, <1>2, <1>3 DEF Serialize, Below

LEMMA SaveSound ==
    ASSUME NEW m, Consistent(m)
    PROVE  SavedResult(m, Serialize(m))
<1> DEFINE f == Serialize(m)
           U == NewIds(m)
           V == TriedIds(m)
           N == m.nNew
           T == m.nTried
<1>1. /\ f.new = [n \in 0 .. N - 1 |-> Record(m, Nth(U, n))]
      /\ f.tried = [n \in 0 .. T - 1 |-> Record(m, Nth(V, n))]
      /\ f.buckets = [p \in NB \X Pos |-> IF m.new[p] = Nobody THEN Nobody ELSE Below(U, m.new[p])]
  BY SerializeFields
<1>s. Sound(m, 0) /\ TypeInv(m) /\ Unplaced(m) = {}
  BY DEF Consistent, Sound
<1>2. /\ U \in SUBSET Nat /\ V \in SUBSET Nat /\ IsFiniteSet(U) /\ IsFiniteSet(V)
      /\ U \subseteq Ids(m) /\ V \subseteq Ids(m) /\ U \cap V = {} /\ Nobody \notin Ids(m)
  <2>1. IsFiniteSet(Ids(m)) /\ Nobody \notin Ids(m)
    BY <1>s, IdsFinite
  <2>2. Ids(m) \subseteq Nat
    BY <1>s DEF TypeInv
  <2>3. U \in SUBSET Ids(m) /\ V \in SUBSET Ids(m) /\ U \cap V = {}
    BY DEF NewIds, TriedIds
  <2> HIDE DEF U, V
  <2> QED
    BY <2>1, <2>2, <2>3, FS_Subset
<1>3. N = Cardinality(U) /\ T = Cardinality(V) /\ N \in Nat /\ T \in Nat
  <2>1. Cardinality(U) \in Nat /\ Cardinality(V) \in Nat
    BY <1>2, FS_CardinalityType
  <2>2. N \in Int /\ T = Cardinality(V) /\ N + 0 = Cardinality(U)
    BY <1>s DEF Sound, CountInv, TypeInv
  <2> QED
    BY <2>1, <2>2
<1>e. \A id \in Ids(m) : m.info[id].addr \in Addr /\ m.info[id].source \in Source
  <2>1. Len(m.random) \in Nat
    BY <1>s DEF TypeInv
  <2> QED
    BY <2>1, <1>s, EntryFields DEF TypeInv
<1>d. \A i, j \in Ids(m) : m.info[i].addr = m.info[j].addr => i = j
  BY <1>s DEF Sound, AddrInv
<1>R. \A id : Record(m, id).addr = m.info[id].addr /\ Record(m, id).source = m.info[id].source
  BY DEF Record
<1>N. \A n \in 0 .. N - 1 : Nth(U, n) \in U /\ Below(U, Nth(U, n)) = n
  <2> HIDE DEF U, N
  <2> QED
    BY <1>2, <1>3, NthType
<1>T. \A n \in 0 .. T - 1 : Nth(V, n) \in V /\ Below(V, Nth(V, n)) = n
  <2> HIDE DEF V, T
  <2> QED
    BY <1>2, <1>3, NthType
<1>n. ASSUME NEW p \in NB \X Pos, m.new[p] # Nobody
      PROVE  /\ m.new[p] \in U /\ Below(U, m.new[p]) \in 0 .. N - 1
             /\ Nth(U, Below(U, m.new[p])) = m.new[p]
  <2>1. m.new[p] \in Ids(m)
    BY <1>n, <1>s DEF TypeInv
  <2>2. ~ m.info[m.new[p]].tried
    <3>1. p \in NewPlaces(m, m.new[p])
      BY DEF NewPlaces
    <3>2. Cardinality(NewPlaces(m, m.new[p])) # 0
      BY <3>1, NewPlacesFinite, FS_EmptySet
    <3> QED
      BY <3>2, <2>1, <1>s DEF Sound, NewInv
  <2>3. m.new[p] \in U
    BY <2>1, <2>2 DEF NewIds
  <2> HIDE DEF U, N
  <2> QED
    BY <2>3, <1>2, <1>3, BelowBounds, NthBelow
<1> HIDE DEF f, U, V, N, T
<1>x. \A n \in 0 .. N - 1 : /\ f.new[n].addr = m.info[Nth(U, n)].addr
                            /\ f.new[n].source = m.info[Nth(U, n)].source
  BY <1>1, <1>R
<1>y. \A n \in 0 .. T - 1 : /\ f.tried[n].addr = m.info[Nth(V, n)].addr
                            /\ f.tried[n].source = m.info[Nth(V, n)].source
  BY <1>1, <1>R
<1>4. FileInv(f, N, T)
  <2>1. DOMAIN f.new = 0 .. N - 1 /\ DOMAIN f.tried = 0 .. T - 1
    BY <1>1
  <2>2. /\ \A i \in 0 .. N - 1 : f.new[i].addr \in Addr /\ f.new[i].source \in Source
        /\ \A i \in 0 .. T - 1 : f.tried[i].addr \in Addr /\ f.tried[i].source \in Source
    BY <1>x, <1>y, <1>2, <1>e, <1>N, <1>T
  <2>3. ASSUME NEW i \in 0 .. N - 1, NEW j \in 0 .. N - 1, f.new[i].addr = f.new[j].addr PROVE i = j
    <3>1. Nth(U, i) = Nth(U, j)
      <4>1. m.info[Nth(U, i)].addr = m.info[Nth(U, j)].addr
        BY <2>3, <1>x
      <4>2. Nth(U, i) \in Ids(m) /\ Nth(U, j) \in Ids(m)
        BY <1>2, <1>N
      <4> QED
        BY <4>1, <4>2, <1>d
    <3> QED
      BY <3>1, <1>N
  <2>4. ASSUME NEW i \in 0 .. T - 1, NEW j \in 0 .. T - 1, f.tried[i].addr = f.tried[j].addr PROVE i = j
    <3>1. Nth(V, i) = Nth(V, j)
      <4>1. m.info[Nth(V, i)].addr = m.info[Nth(V, j)].addr
        BY <2>4, <1>y
      <4>2. Nth(V, i) \in Ids(m) /\ Nth(V, j) \in Ids(m)
        BY <1>2, <1>T
      <4> QED
        BY <4>1, <4>2, <1>d
    <3> QED
      BY <3>1, <1>T
  <2>5. ASSUME NEW i \in 0 .. N - 1, NEW j \in 0 .. T - 1, f.new[i].addr = f.tried[j].addr PROVE FALSE
    <3>1. Nth(U, i) = Nth(V, j)
      <4>1. m.info[Nth(U, i)].addr = m.info[Nth(V, j)].addr
        BY <2>5, <1>x, <1>y
      <4>2. Nth(U, i) \in Ids(m) /\ Nth(V, j) \in Ids(m)
        BY <1>2, <1>N, <1>T
      <4> QED
        BY <4>1, <4>2, <1>d
    <3> QED
      BY <3>1, <1>2, <1>N, <1>T
  <2>6. f.buckets \in [NB \X Pos -> (0 .. N - 1) \cup {Nobody}]
    BY <1>1, <1>n
  <2> QED
    BY <2>1, <2>2, <2>3, <2>4, <2>5, <2>6 DEF FileInv
<1>5. PlacesInv(f, N, T)
  <2>1. ASSUME NEW i \in 0 .. T - 1, NEW j \in 0 .. T - 1,
               TriedPlace(f.tried[i].addr) = TriedPlace(f.tried[j].addr)
        PROVE  i = j
    <3>1. Nth(V, i) \in V /\ Nth(V, j) \in V
      BY <1>T
    <3>2. TriedPlace(m.info[Nth(V, i)].addr) = TriedPlace(m.info[Nth(V, j)].addr)
      BY <2>1, <1>1, <1>R
    <3>3. \A id \in V : m.tried[TriedPlace(m.info[id].addr)] = id
      BY <1>s DEF Sound, TriedInv, V, TriedIds
    <3>4. Nth(V, i) = Nth(V, j)
      BY <3>1, <3>2, <3>3
    <3> QED
      BY <3>4, <1>T
  <2>2. ASSUME NEW p \in NB \X Pos, f.buckets[p] # Nobody
        PROVE  NewPlace(f.new[f.buckets[p]].addr, p[1]) = p
    <3>1. m.new[p] # Nobody
      BY <2>2, <1>1
    <3>2. f.buckets[p] = Below(U, m.new[p]) /\ m.new[p] \in U
      BY <3>1, <1>1, <1>n
    <3>3. f.new[f.buckets[p]].addr = m.info[m.new[p]].addr
      BY <3>1, <3>2, <1>1, <1>n, <1>R
    <3>4. p[2] = NewPos[<<m.info[m.new[p]].addr, p[1]>>]
      <4>1. p \in NewPlaces(m, m.new[p]) /\ m.new[p] \in Ids(m)
        BY <3>2, <1>2 DEF NewPlaces
      <4> QED
        BY <4>1, <1>s DEF Sound, NewInv
    <3>5. p = <<p[1], p[2]>>
      OBVIOUS
    <3> QED
      BY <3>3, <3>4, <3>5 DEF NewPlace
  <2>3. ASSUME NEW i \in 0 .. N - 1
        PROVE  Cardinality({p \in NB \X Pos : f.buckets[p] = i}) \in 1 .. MaxRefs
    <3> DEFINE id == Nth(U, i)
    <3>1. id \in U /\ Below(U, id) = i
      BY <1>N
    <3> HIDE DEF id
    <3>2. {p \in NB \X Pos : f.buckets[p] = i} = NewPlaces(m, id)
      <4>0. i # Nobody /\ id # Nobody
        BY <3>1, <1>2 DEF Nobody
      <4>1. ASSUME NEW p \in NB \X Pos, f.buckets[p] = i PROVE m.new[p] = id
        <5>1. m.new[p] # Nobody /\ f.buckets[p] = Below(U, m.new[p])
          BY <4>0, <4>1, <1>1
        <5> QED
          BY <5>1, <4>1, <1>n DEF id
      <4>2. ASSUME NEW p \in NB \X Pos, m.new[p] = id PROVE f.buckets[p] = i
        BY <4>0, <4>2, <3>1, <1>1
      <4> QED
        BY <4>1, <4>2 DEF NewPlaces
    <3>3. Cardinality(NewPlaces(m, id)) = m.info[id].refs /\ id \in Ids(m)
      BY <3>1, <1>2, <1>s DEF Sound, NewInv
    <3>4. m.info[id].refs \in 0 .. MaxRefs
      <4>1. m.info[id] \in Entry(Len(m.random)) /\ Len(m.random) \in Nat
        BY <3>3, <1>s DEF TypeInv
      <4> QED
        BY <4>1, EntryFields
    <3>5. m.info[id].refs # 0
      BY <3>1, <1>s DEF Unplaced, U, NewIds
    <3>6. \A x \in 0 .. MaxRefs : x # 0 => x \in 1 .. MaxRefs
      BY Counts
    <3> QED
      BY <3>2, <3>3, <3>4, <3>5, <3>6
  <2> QED
    BY <2>1, <2>2, <2>3 DEF PlacesInv
<1>6. ContentInv(m, f, N, T)
  <2>1. ASSUME NEW p \in NB \X Pos, m.new[p] = Nobody PROVE f.buckets[p] = Nobody
    BY <2>1, <1>1
  <2>2. ASSUME NEW p \in NB \X Pos, m.new[p] # Nobody
        PROVE  f.buckets[p] \in 0 .. N - 1 /\ f.new[f.buckets[p]] = Record(m, m.new[p])
    <3>1. f.buckets[p] = Below(U, m.new[p])
      BY <2>2, <1>1
    <3> QED
      BY <2>2, <3>1, <1>1, <1>n
  <2>3. \A i \in 0 .. T - 1 : \E id \in V : f.tried[i] = Record(m, id)
    BY <1>1, <1>T
  <2>4. ASSUME NEW id \in V PROVE \E i \in 0 .. T - 1 : f.tried[i] = Record(m, id)
    <3>1. Below(V, id) \in 0 .. T - 1 /\ Nth(V, Below(V, id)) = id
      BY <1>2, <1>3, BelowBounds, NthBelow
    <3> QED
      BY <3>1, <1>1
  <2> QED
    BY <2>1, <2>2, <2>3, <2>4 DEF ContentInv, V
<1> QED
  BY <1>3, <1>4, <1>5, <1>6 DEF SavedResult, f, N, T

------------------------------------------------------------------------------
(* Loading: each loop of Unserialize, first as a function that exists, then *)
(* with what it keeps.                                                      *)

\* One new entry of the file.
NewStep(f, usable, n, s) ==
    LET r == f.new[n - 1]
        m == CountedNew(Create(s, r.addr, r.source))
        place == NewPlace(r.addr, NewBucket[<<r.addr, r.source>>])
    IN  IF usable \/ m.new[place] # Nobody THEN m ELSE PutNew(m, n - 1, place)

\* The loop over the new entries.
NewLoad(load, file, usable, N) ==
    /\ load[0] = Empty /\ \A n \in 1 .. N : load[n] = NewStep(file, usable, n, load[n - 1])
    /\ LoadNew(file, usable) = load[N]

LEMMA NewLoadLoop ==
    ASSUME NEW file, NEW usable, NEW N \in Nat, Cardinality(DOMAIN file.new) = N
    PROVE  \E load : NewLoad(load, file, usable, N)
<1> DEFINE G(n, s) == NewStep(file, usable, n, s)
           D(f, n) == f = [k \in 0 .. n |-> IF k = 0 THEN Empty ELSE G(k, f[k - 1])]
           load == CHOOSE f : D(f, N)
<1>1. LoadNew(file, usable) = load[N]
  BY DEF LoadNew, NewStep, CountedNew
<1> HIDE DEF G
<1>2. \E f : D(f, N)
  <2> DEFINE S == {n \in 0 .. N : \E f : D(f, n)}
  <2>1. 0 \in S
    <3>1. D([k \in 0 .. 0 |-> Empty], 0)
      OBVIOUS
    <3> HIDE DEF D
    <3> QED
      BY <3>1
  <2>2. ASSUME NEW n \in 1 .. N, n - 1 \in S PROVE n \in S
    <3>1. PICK f : D(f, n - 1)
      BY <2>2
    <3> DEFINE g == [k \in 0 .. n |-> IF k = n THEN G(n, f[n - 1]) ELSE f[k]]
    <3>2. \A k \in 0 .. n - 1 : g[k] = f[k] /\ f[k] = IF k = 0 THEN Empty ELSE G(k, f[k - 1])
      BY <3>1
    <3>3. g[n] = G(n, g[n - 1])
      OBVIOUS
    <3>4. \A k \in 0 .. n : g[k] = IF k = 0 THEN Empty ELSE G(k, g[k - 1])
      <4> HIDE DEF g
      <4>1. ASSUME NEW k \in 0 .. n - 1 PROVE g[k] = IF k = 0 THEN Empty ELSE G(k, g[k - 1])
        <5>1. CASE k = 0
          BY <5>1, <3>2
        <5>2. CASE k # 0
          <6>1. k - 1 \in 0 .. n - 1
            BY <5>2
          <6>2. g[k] = f[k] /\ f[k] = G(k, f[k - 1]) /\ g[k - 1] = f[k - 1]
            BY <5>2, <6>1, <3>2
          <6> QED
            BY <5>2, <6>2
        <5> QED
          BY <5>1, <5>2
      <4> QED
        BY <4>1, <3>3
    <3>5. D(g, n)
      BY <3>4
    <3> HIDE DEF D, g
    <3> QED
      BY <3>5
  <2> HIDE DEF S
  <2>3. N \in S
    BY <2>1, <2>2, UpToInduction
  <2> QED
    BY <2>3 DEF S
<1>3. D(load, N)
  <2> HIDE DEF D
  <2> QED
    BY <1>2
<1>4. load[0] = Empty /\ \A n \in 1 .. N : load[n] = G(n, load[n - 1])
  <2> HIDE DEF load
  <2> QED
    BY <1>3
<1> HIDE DEF D, load
<1> QED
  BY <1>1, <1>4 DEF G, NewLoad

\* The first n new entries of the file are loaded.
LoadedNew(f, n, s, usable) ==
    /\ Sound(s, 0) /\ s.nIdCount = n /\ Ids(s) = 0 .. n - 1
    /\ \A i \in 0 .. n - 1 : /\ s.info[i].addr = f.new[i].addr /\ s.info[i].source = f.new[i].source
                             /\ ~ s.info[i].tried
    /\ \A p \in TB \X Pos : s.tried[p] = Nobody
    /\ usable => \A p \in NB \X Pos : s.new[p] = Nobody

LEMMA NewStepSound ==
    ASSUME NEW f, NEW N \in Nat, NEW T \in Nat, FileInv(f, N, T), NEW usable, NEW n \in 1 .. N,
           NEW s, LoadedNew(f, n - 1, s, usable)
    PROVE  LoadedNew(f, n, NewStep(f, usable, n, s), usable)
<1> DEFINE a == f.new[n - 1].addr
           b == NewBucket[<<a, f.new[n - 1].source>>]
           place == NewPlace(a, b)
           c == CountedNew(Create(s, a, f.new[n - 1].source))
           r == NewStep(f, usable, n, s)
<1>1. r = IF usable \/ c.new[place] # Nobody THEN c ELSE PutNew(c, n - 1, place)
  BY DEF NewStep
<1>2. n - 1 \in 0 .. N - 1 /\ n - 1 \in Nat
  OBVIOUS
<1>3. a \in Addr /\ f.new[n - 1].source \in Source
  BY <1>2 DEF FileInv
<1>4. a \notin DOMAIN s.addr
  <2> SUFFICES ASSUME a \in DOMAIN s.addr PROVE FALSE
    OBVIOUS
  <2>1. s.addr[a] \in 0 .. n - 1 - 1 /\ s.info[s.addr[a]].addr = a
    BY DEF LoadedNew, Sound, AddrInv
  <2>2. PICK i \in 0 .. n - 1 - 1 : i = s.addr[a]
    BY <2>1
  <2>3. f.new[i].addr = f.new[n - 1].addr /\ i \in 0 .. N - 1 /\ i # n - 1
    BY <2>1, <2>2 DEF LoadedNew
  <2> QED
    BY <2>3, <1>2 DEF FileInv
<1>5. CreateResult(s, c, a, f.new[n - 1].source)
  BY <1>3, <1>4, CreateResults DEF LoadedNew
<1>b. b \in NB
  BY <1>3, SourceBucketType
<1> HIDE DEF a, b, c, r, place
<1>6. s.nIdCount = n - 1
  BY DEF LoadedNew
<1>7. Ids(c) = 0 .. n - 1 /\ c.nIdCount = n
  <2>1. Ids(s) = 0 .. n - 1 - 1
    BY DEF LoadedNew
  <2>2. 0 .. n - 1 = (0 .. n - 1 - 1) \cup {n - 1} /\ n - 1 + 1 = n
    BY <1>2
  <2> QED
    BY <2>1, <2>2, <1>5, <1>6 DEF CreateResult
<1>8. /\ c.info[n - 1].addr = a /\ c.info[n - 1].source = f.new[n - 1].source
      /\ c.info[n - 1].refs = 0 /\ ~ c.info[n - 1].tried
  BY <1>5, <1>6 DEF CreateResult
<1>9. \A i \in 0 .. n - 1 : /\ c.info[i].addr = f.new[i].addr /\ c.info[i].source = f.new[i].source
                            /\ ~ c.info[i].tried
  <2>1. ASSUME NEW i \in 0 .. n - 1 - 1
        PROVE  /\ c.info[i].addr = f.new[i].addr /\ c.info[i].source = f.new[i].source
               /\ ~ c.info[i].tried
    BY <1>5 DEF CreateResult, LoadedNew
  <2>2. \A i \in 0 .. n - 1 : i \in 0 .. n - 1 - 1 \/ i = n - 1
    BY <1>2
  <2> QED
    BY <2>1, <2>2, <1>8 DEF a
<1>10. LoadedNew(f, n, c, usable)
  BY <1>5, <1>7, <1>9 DEF LoadedNew, CreateResult
<1>11. CASE usable \/ c.new[place] # Nobody
  BY <1>1, <1>10, <1>11 DEF r
<1>12. CASE ~ usable /\ c.new[place] = Nobody
  <2>1. r = PutNew(c, n - 1, place)
    BY <1>1, <1>12
  <2>2. PutResult(c, r, n - 1, 0)
    <3>1. n - 1 \in NewIds(c) /\ c.info[n - 1].refs # MaxRefs
      <4>1. MaxRefs # 0 /\ n - 1 \in 0 .. n - 1
        BY Counts, <1>2
      <4> QED
        BY <4>1, <1>7, <1>8 DEF NewIds
    <3>2. place = NewPlace(c.info[n - 1].addr, b) /\ Sound(c, 0)
      BY <1>8, <1>5 DEF place, CreateResult
    <3> QED
      BY <2>1, <3>1, <3>2, <1>b, <1>12, PutNewResult
  <2> QED
    BY <2>2, <1>10, <1>12 DEF LoadedNew, PutResult, SamePeer, SameCounts, r
<1> QED
  BY <1>11, <1>12

LEMMA IntervalCount ==
    ASSUME NEW N \in Nat
    PROVE  IsFiniteSet(0 .. N - 1) /\ Cardinality(0 .. N - 1) = N
<1>1. 0 \in Int /\ N - 1 \in Int
  OBVIOUS
<1>2. IsFiniteSet(0 .. N - 1) /\ Cardinality(0 .. N - 1) = IF 0 > N - 1 THEN 0 ELSE N - 1 - 0 + 1
  BY <1>1, FS_Interval
<1> QED
  BY <1>2

LEMMA LoadNewSound ==
    ASSUME NEW f, NEW N \in Nat, NEW T \in Nat, FileInv(f, N, T), NEW usable
    PROVE  LoadedNew(f, N, LoadNew(f, usable), usable)
<1>1. Cardinality(DOMAIN f.new) = N
  <2>1. DOMAIN f.new = 0 .. N - 1
    BY DEF FileInv
  <2> QED
    BY <2>1, IntervalCount
<1>0. PICK load : NewLoad(load, f, usable, N)
  BY <1>1, NewLoadLoop
<1>2. /\ load[0] = Empty /\ \A n \in 1 .. N : load[n] = NewStep(f, usable, n, load[n - 1])
      /\ LoadNew(f, usable) = load[N]
  BY <1>0 DEF NewLoad
<1> DEFINE S == {n \in 0 .. N : LoadedNew(f, n, load[n], usable)}
<1>3. 0 \in S
  <2>1. \A i \in 0 .. 0 - 1 : FALSE
    OBVIOUS
  <2>2. 0 .. 0 - 1 = {}
    OBVIOUS
  <2>3. (\A p \in TB \X Pos : Empty.tried[p] = Nobody) /\ \A p \in NB \X Pos : Empty.new[p] = Nobody
    BY DEF Empty
  <2>4. LoadedNew(f, 0, Empty, usable)
    BY <2>1, <2>2, <2>3, EmptySound DEF LoadedNew
  <2> QED
    BY <2>4, <1>2
<1>4. ASSUME NEW n \in 1 .. N, n - 1 \in S PROVE n \in S
  <2>1. LoadedNew(f, n - 1, load[n - 1], usable)
    BY <1>4
  <2>2. LoadedNew(f, n, NewStep(f, usable, n, load[n - 1]), usable)
    BY <2>1, NewStepSound
  <2> QED
    BY <2>2, <1>2
<1> HIDE DEF S
<1>5. N \in S
  BY <1>3, <1>4, UpToInduction
<1> QED
  BY <1>5, <1>2 DEF S

\* One tried entry of the file.
TriedStep(f, n, s) ==
    LET r == f.tried[n - 1]
        place == TriedPlace(r.addr)
    IN  IF s.tried[place] # Nobody THEN s
        ELSE PutTried(Create(s, r.addr, r.source), s.nIdCount, place)

\* The loop over the tried entries.
TriedLoad(load, m, file, N) ==
    /\ load[0] = m /\ \A n \in 1 .. N : load[n] = TriedStep(file, n, load[n - 1])
    /\ LoadTried(m, file) = load[N]

LEMMA TriedLoadLoop ==
    ASSUME NEW m, NEW file, NEW N \in Nat, Cardinality(DOMAIN file.tried) = N
    PROVE  \E load : TriedLoad(load, m, file, N)
<1> DEFINE G(n, s) == TriedStep(file, n, s)
           D(f, n) == f = [k \in 0 .. n |-> IF k = 0 THEN m ELSE G(k, f[k - 1])]
           load == CHOOSE f : D(f, N)
<1>1. LoadTried(m, file) = load[N]
  BY DEF LoadTried, TriedStep
<1> HIDE DEF G
<1>2. \E f : D(f, N)
  <2> DEFINE S == {n \in 0 .. N : \E f : D(f, n)}
  <2>1. 0 \in S
    <3>1. D([k \in 0 .. 0 |-> m], 0)
      OBVIOUS
    <3> HIDE DEF D
    <3> QED
      BY <3>1
  <2>2. ASSUME NEW n \in 1 .. N, n - 1 \in S PROVE n \in S
    <3>1. PICK f : D(f, n - 1)
      BY <2>2
    <3> DEFINE g == [k \in 0 .. n |-> IF k = n THEN G(n, f[n - 1]) ELSE f[k]]
    <3>2. \A k \in 0 .. n - 1 : g[k] = f[k] /\ f[k] = IF k = 0 THEN m ELSE G(k, f[k - 1])
      BY <3>1
    <3>3. g[n] = G(n, g[n - 1])
      OBVIOUS
    <3>4. \A k \in 0 .. n : g[k] = IF k = 0 THEN m ELSE G(k, g[k - 1])
      <4> HIDE DEF g
      <4>1. ASSUME NEW k \in 0 .. n - 1 PROVE g[k] = IF k = 0 THEN m ELSE G(k, g[k - 1])
        <5>1. CASE k = 0
          BY <5>1, <3>2
        <5>2. CASE k # 0
          <6>1. k - 1 \in 0 .. n - 1
            BY <5>2
          <6>2. g[k] = f[k] /\ f[k] = G(k, f[k - 1]) /\ g[k - 1] = f[k - 1]
            BY <5>2, <6>1, <3>2
          <6> QED
            BY <5>2, <6>2
        <5> QED
          BY <5>1, <5>2
      <4> QED
        BY <4>1, <3>3
    <3>5. D(g, n)
      BY <3>4
    <3> HIDE DEF D, g
    <3> QED
      BY <3>5
  <2> HIDE DEF S
  <2>3. N \in S
    BY <2>1, <2>2, UpToInduction
  <2> QED
    BY <2>3 DEF S
<1>3. D(load, N)
  <2> HIDE DEF D
  <2> QED
    BY <1>2
<1>4. load[0] = m /\ \A n \in 1 .. N : load[n] = G(n, load[n - 1])
  <2> HIDE DEF load
  <2> QED
    BY <1>3
<1> HIDE DEF D, load
<1> QED
  BY <1>1, <1>4 DEF G, TriedLoad

\* A tried entry comes.
TriedAdded(s, r, a, source) ==
    /\ Sound(r, 0) /\ r.nIdCount = s.nIdCount + 1
    /\ s.nIdCount \in Nat /\ Ids(r) = Ids(s) \cup {s.nIdCount}
    /\ \A x \in Ids(s) : r.info[x] = s.info[x]
    /\ r.info[s.nIdCount].addr = a /\ r.info[s.nIdCount].source = source
    /\ r.info[s.nIdCount].tried /\ r.new = s.new

LEMMA TriedAddedSound ==
    ASSUME NEW s, Sound(s, 0), NEW a \in Addr, NEW source \in Source, a \notin DOMAIN s.addr,
           NEW place, place = TriedPlace(a), s.tried[place] = Nobody
    PROVE  TriedAdded(s, PutTried(Create(s, a, source), s.nIdCount, place), a, source)
<1> DEFINE c == Create(s, a, source)
           id == s.nIdCount
           r == PutTried(c, id, place)
<1>1. TypeInv(s) /\ DOMAIN s = Fields
  BY DEF Sound, TypeInv
<1>2. Sound(c, 0 + 1)
  BY CreateSound
<1>3. /\ id \notin Ids(s) /\ id \in Nat /\ Ids(c) = Ids(s) \cup {id}
      /\ c.info[id] = Fresh(s, a, source) /\ \A x \in Ids(s) : c.info[x] = s.info[x]
  BY <1>1, CreateEntries
<1>4. c.nIdCount = id + 1 /\ c.new = s.new /\ c.tried = s.tried
  BY <1>1, CreateFields
<1>5. c.info[id].addr = a /\ c.info[id].source = source /\ c.info[id].refs = 0 /\ ~ c.info[id].tried
  BY <1>3 DEF Fresh
<1> HIDE DEF c, id
<1>6. id \in Unplaced(c) /\ place = TriedPlace(c.info[id].addr) /\ c.tried[place] = Nobody
  BY <1>3, <1>4, <1>5 DEF Unplaced
<1>7. /\ Sound(r, 0) /\ Ids(r) = Ids(c) /\ \A x \in Ids(c) : x # id => r.info[x] = c.info[x]
      /\ r.info[id].addr = c.info[id].addr /\ r.info[id].source = c.info[id].source
      /\ r.info[id].tried /\ r.new = c.new /\ r.nIdCount = c.nIdCount
  BY <1>2, <1>6, PutTriedSound
<1> HIDE DEF r
<1>8. \A x \in Ids(s) : r.info[x] = s.info[x]
  BY <1>3, <1>7
<1> QED
  BY <1>3, <1>4, <1>5, <1>7, <1>8 DEF TriedAdded, r, c, id

\* The N new entries of the file, as in m, and its first n tried ones are loaded;
\* all of these if no two of them have the same place.
LoadedTried(f, N, T, n, m, s) ==
    /\ Sound(s, 0) /\ s.nIdCount \in N .. N + n /\ Ids(s) = 0 .. s.nIdCount - 1
    /\ \A i \in 0 .. N - 1 : s.info[i] = m.info[i]
    /\ \A i \in N .. s.nIdCount - 1 :
        s.info[i].tried /\ \E j \in 0 .. n - 1 : s.info[i].addr = f.tried[j].addr
    /\ s.new = m.new
    /\ PlacesInv(f, N, T) =>
        /\ s.nIdCount = N + n
        /\ \A j \in 0 .. n - 1 : /\ s.info[N + j].addr = f.tried[j].addr
                                 /\ s.info[N + j].source = f.tried[j].source

LEMMA TriedStepSound ==
    ASSUME NEW f, NEW N \in Nat, NEW T \in Nat, FileInv(f, N, T), NEW usable, NEW m,
           LoadedNew(f, N, m, usable), NEW n \in 1 .. T, NEW s, LoadedTried(f, N, T, n - 1, m, s)
    PROVE  LoadedTried(f, N, T, n, m, TriedStep(f, n, s))
<1> DEFINE a == f.tried[n - 1].addr
           source == f.tried[n - 1].source
           place == TriedPlace(a)
           id == s.nIdCount
           r == TriedStep(f, n, s)
<1>1. r = IF s.tried[place] # Nobody THEN s ELSE PutTried(Create(s, a, source), id, place)
  BY DEF TriedStep
<1>2. n - 1 \in 0 .. T - 1 /\ n - 1 \in Nat /\ n \in Nat
  OBVIOUS
<1>3. a \in Addr /\ source \in Source /\ place \in TB \X Pos
  <2>1. a \in Addr /\ source \in Source
    BY <1>2 DEF FileInv
  <2> QED
    BY <2>1, TriedPlaceType
<1>s. /\ Sound(s, 0) /\ id \in N .. N + (n - 1) /\ Ids(s) = 0 .. id - 1 /\ s.new = m.new
      /\ \A i \in 0 .. N - 1 : s.info[i] = m.info[i]
      /\ \A i \in N .. id - 1 :
          s.info[i].tried /\ \E j \in 0 .. n - 1 - 1 : s.info[i].addr = f.tried[j].addr
  BY DEF LoadedTried
<1>e. PlacesInv(f, N, T) =>
        /\ id = N + (n - 1)
        /\ \A j \in 0 .. n - 1 - 1 : s.info[N + j].addr = f.tried[j].addr /\ s.info[N + j].source = f.tried[j].source
  BY DEF LoadedTried
<1> HIDE DEF a, source, place, id, r
<1>n. id \in Nat /\ \A i \in 0 .. id - 1 : i \in 0 .. N - 1 \/ i \in N .. id - 1
  BY <1>s
<1>4. a \notin DOMAIN s.addr
  <2> SUFFICES ASSUME a \in DOMAIN s.addr PROVE FALSE
    OBVIOUS
  <2>1. s.addr[a] \in 0 .. id - 1 /\ s.info[s.addr[a]].addr = a
    BY <1>s DEF Sound, AddrInv
  <2>2. PICK i \in 0 .. id - 1 : i = s.addr[a]
    BY <2>1
  <2>3. CASE i \in 0 .. N - 1
    <3>1. f.new[i].addr = f.tried[n - 1].addr
      <4>1. s.info[i].addr = a /\ s.info[i] = m.info[i]
        BY <2>1, <2>2, <2>3, <1>s
      <4>2. m.info[i].addr = f.new[i].addr
        BY <2>3 DEF LoadedNew
      <4> QED
        BY <4>1, <4>2 DEF a
    <3> QED
      BY <3>1, <2>3, <1>2 DEF FileInv
  <2>4. CASE i \in N .. id - 1
    <3>1. PICK j \in 0 .. n - 1 - 1 : s.info[i].addr = f.tried[j].addr
      BY <2>4, <1>s
    <3>2. f.tried[j].addr = f.tried[n - 1].addr /\ j \in 0 .. T - 1 /\ j # n - 1
      BY <2>1, <2>2, <3>1 DEF a
    <3> QED
      BY <3>2, <1>2 DEF FileInv
  <2> QED
    BY <2>3, <2>4, <1>n
<1>5. PlacesInv(f, N, T) => s.tried[place] = Nobody
  <2> SUFFICES ASSUME PlacesInv(f, N, T), s.tried[place] # Nobody PROVE FALSE
    OBVIOUS
  <2>1. PICK i : i = s.tried[place]
    OBVIOUS
  <2>2. i \in 0 .. id - 1 /\ TriedPlace(s.info[i].addr) = place
    BY <2>1, <1>3, <1>s DEF Sound, TypeInv, TriedInv
  <2>3. s.info[i].tried
    BY <2>1, <2>2, <1>s DEF Sound, TriedInv
  <2>4. i \in N .. id - 1
    <3>1. i \notin 0 .. N - 1
      BY <2>3, <1>s DEF LoadedNew
    <3> QED
      BY <3>1, <2>2, <1>n
  <2>5. PICK j \in 0 .. n - 1 - 1 : s.info[i].addr = f.tried[j].addr
    BY <2>4, <1>s
  <2>6. TriedPlace(f.tried[j].addr) = TriedPlace(f.tried[n - 1].addr)
    BY <2>2, <2>5 DEF place, a
  <2>7. j \in 0 .. T - 1 /\ j # n - 1
    BY <1>2
  <2> QED
    BY <2>6, <2>7, <1>2 DEF PlacesInv
<1>6. CASE s.tried[place] # Nobody
  <2>1. r = s /\ ~ PlacesInv(f, N, T)
    BY <1>1, <1>5, <1>6
  <2>2. id \in N .. N + n
    BY <1>s, <1>2
  <2>3. \A i \in N .. id - 1 : s.info[i].tried /\ \E j \in 0 .. n - 1 : s.info[i].addr = f.tried[j].addr
    <3>1. \A j \in 0 .. n - 1 - 1 : j \in 0 .. n - 1
      BY <1>2
    <3> QED
      BY <3>1, <1>s
  <2> QED
    BY <2>1, <2>2, <2>3, <1>s DEF LoadedTried, r, id
<1>7. CASE s.tried[place] = Nobody
  <2>1. TriedAdded(s, r, a, source)
    <3>1. r = PutTried(Create(s, a, source), s.nIdCount, place) /\ place = TriedPlace(a)
      BY <1>1, <1>7 DEF id, place
    <3> QED
      BY <3>1, <1>3, <1>4, <1>7, <1>s, TriedAddedSound
  <2>2. /\ Sound(r, 0) /\ r.nIdCount = id + 1 /\ Ids(r) = Ids(s) \cup {id} /\ r.new = s.new
        /\ \A x \in Ids(s) : r.info[x] = s.info[x]
        /\ r.info[id].addr = a /\ r.info[id].source = source /\ r.info[id].tried
    BY <2>1 DEF TriedAdded, id
  <2>3. /\ r.nIdCount \in N .. N + n /\ Ids(r) = 0 .. r.nIdCount - 1
        /\ r.nIdCount - 1 = id
    <3>1. id + 1 \in N .. N + n /\ (0 .. id - 1) \cup {id} = 0 .. id + 1 - 1 /\ id + 1 - 1 = id
      BY <1>s, <1>2, <1>n
    <3> QED
      BY <3>1, <2>2, <1>s
  <2>4. \A i \in 0 .. N - 1 : r.info[i] = m.info[i]
    <3>1. \A i \in 0 .. N - 1 : i \in 0 .. id - 1
      BY <1>s, <1>2
    <3> QED
      BY <3>1, <2>2, <1>s
  <2>5. ASSUME NEW i \in N .. id
        PROVE  r.info[i].tried /\ \E j \in 0 .. n - 1 : r.info[i].addr = f.tried[j].addr
    <3>1. CASE i = id
      BY <3>1, <2>2, <1>2 DEF a
    <3>2. CASE i # id
      <4>1. i \in N .. id - 1 /\ i \in 0 .. id - 1
        BY <3>2, <1>n
      <4>2. r.info[i] = s.info[i]
        BY <4>1, <2>2, <1>s
      <4>3. \A j \in 0 .. n - 1 - 1 : j \in 0 .. n - 1
        BY <1>2
      <4> QED
        BY <4>1, <4>2, <4>3, <1>s
    <3> QED
      BY <3>1, <3>2
  <2>6. ASSUME PlacesInv(f, N, T)
        PROVE  /\ r.nIdCount = N + n
               /\ \A j \in 0 .. n - 1 : r.info[N + j].addr = f.tried[j].addr /\ r.info[N + j].source = f.tried[j].source
    <3>1. id = N + (n - 1)
      BY <2>6, <1>e
    <3>2. r.nIdCount = N + n
      BY <3>1, <2>2, <1>2
    <3>3. ASSUME NEW j \in 0 .. n - 1
          PROVE  r.info[N + j].addr = f.tried[j].addr /\ r.info[N + j].source = f.tried[j].source
      <4>1. CASE j = n - 1
        <5>1. r.info[N + j].addr = a /\ r.info[N + j].source = source
          BY <4>1, <3>1, <2>2
        <5> QED
          BY <4>1, <5>1 DEF a, source
      <4>2. CASE j # n - 1
        <5>1. j \in 0 .. n - 1 - 1 /\ N + j \in 0 .. id - 1
          BY <4>2, <3>1, <1>2
        <5>2. r.info[N + j] = s.info[N + j]
          BY <5>1, <2>2, <1>s
        <5>3. s.info[N + j].addr = f.tried[j].addr /\ s.info[N + j].source = f.tried[j].source
          BY <5>1, <2>6, <1>e
        <5> QED
          BY <5>2, <5>3
      <4> QED
        BY <4>1, <4>2
    <3> QED
      BY <3>2, <3>3
  <2>7. /\ Sound(r, 0) /\ r.new = m.new
        /\ \A i \in N .. r.nIdCount - 1 :
            r.info[i].tried /\ \E j \in 0 .. n - 1 : r.info[i].addr = f.tried[j].addr
    BY <2>2, <2>3, <2>5, <1>s
  <2> QED
    BY <2>3, <2>4, <2>6, <2>7 DEF LoadedTried, r
<1> QED
  BY <1>6, <1>7

LEMMA LoadTriedSound ==
    ASSUME NEW f, NEW N \in Nat, NEW T \in Nat, FileInv(f, N, T), NEW usable, NEW m,
           LoadedNew(f, N, m, usable)
    PROVE  LoadedTried(f, N, T, T, m, LoadTried(m, f))
<1>1. Cardinality(DOMAIN f.tried) = T
  <2>1. DOMAIN f.tried = 0 .. T - 1
    BY DEF FileInv
  <2> QED
    BY <2>1, IntervalCount
<1>0. PICK load : TriedLoad(load, m, f, T)
  BY <1>1, TriedLoadLoop
<1>2. /\ load[0] = m /\ \A n \in 1 .. T : load[n] = TriedStep(f, n, load[n - 1])
      /\ LoadTried(m, f) = load[T]
  BY <1>0 DEF TriedLoad
<1> DEFINE S == {n \in 0 .. T : LoadedTried(f, N, T, n, m, load[n])}
<1>3. 0 \in S
  <2>1. Sound(m, 0) /\ m.nIdCount = N /\ Ids(m) = 0 .. N - 1
    BY DEF LoadedNew
  <2>2. N \in N .. N + 0 /\ N = N + 0 /\ (\A i \in N .. N - 1 : FALSE) /\ \A i \in 0 .. 0 - 1 : FALSE
    OBVIOUS
  <2>3. LoadedTried(f, N, T, 0, m, m)
    BY <2>1, <2>2 DEF LoadedTried
  <2> QED
    BY <2>3, <1>2
<1>4. ASSUME NEW n \in 1 .. T, n - 1 \in S PROVE n \in S
  <2>1. LoadedTried(f, N, T, n - 1, m, load[n - 1])
    BY <1>4
  <2>2. LoadedTried(f, N, T, n, m, TriedStep(f, n, load[n - 1]))
    BY <2>1, TriedStepSound
  <2> QED
    BY <2>2, <1>2
<1> HIDE DEF S
<1>5. T \in S
  BY <1>3, <1>4, UpToInduction
<1> QED
  BY <1>5, <1>2 DEF S

\* The places are visited in the order of these numbers.
Cell(j) == <<j \div BucketSize, j % BucketSize>>
Visited(k) == {Cell(j) : j \in 0 .. k - 1}
PlaceCount == NewBuckets * BucketSize

LEMMA MulMono ==
    ASSUME NEW a \in Nat, NEW b \in Nat, NEW s \in Nat, a < b
    PROVE  a * s + s <= b * s
<1>1. b * s - (a * s + s) = (b - a - 1) * s
  OBVIOUS
<1>2. b - a - 1 \in Nat
  OBVIOUS
<1>3. \A x, y \in Nat : x * y \in Nat
  OBVIOUS
<1>4. (b - a - 1) * s \in Nat
  BY <1>2, <1>3
<1>5. a * s \in Nat /\ b * s \in Nat
  BY <1>3
<1> QED
  BY <1>1, <1>4, <1>5

LEMMA DivMod ==
    ASSUME NEW j \in Nat, NEW s \in Nat, s > 0
    PROVE  j \div s \in Nat /\ j % s \in 0 .. s - 1 /\ j = (j \div s) * s + (j % s)
OBVIOUS

LEMMA DivType ==
    ASSUME NEW n \in Nat, NEW s \in Nat, s > 0, NEW j \in 0 .. n * s - 1
    PROVE  j \div s \in 0 .. n - 1
<1> DEFINE q == j \div s
           r == j % s
<1>0. n * s \in Nat
  OBVIOUS
<1>1. j \in Nat /\ j < n * s
  BY <1>0
<1>2. q \in Nat /\ r \in 0 .. s - 1 /\ j = q * s + r
  BY <1>1, DivMod
<1> HIDE DEF q, r
<1>3. CASE n <= q
  <2>1. n * s <= q * s
    <3>1. CASE n = q
      BY <3>1, <1>0
    <3>2. CASE n < q
      <4>1. n * s + s <= q * s
        BY <3>2, <1>2, MulMono
      <4> QED
        BY <4>1, <1>0, <1>2
    <3> QED
      BY <3>1, <3>2, <1>2, <1>3
  <2> QED
    BY <2>1, <1>0, <1>1, <1>2
<1>4. CASE q < n
  BY <1>2, <1>4 DEF q
<1> QED
  BY <1>2, <1>3, <1>4

LEMMA DivOnto ==
    ASSUME NEW n \in Nat, NEW s \in Nat, s > 0, NEW b \in 0 .. n - 1, NEW p \in 0 .. s - 1
    PROVE  \E j \in 0 .. n * s - 1 : j \div s = b /\ j % s = p
<1> DEFINE j == b * s + p
           q == j \div s
           r == j % s
<1>0. b \in Nat /\ p \in Nat /\ b * s \in Nat /\ n * s \in Nat
  OBVIOUS
<1>1. j \in 0 .. n * s - 1
  <2>1. b * s + s <= n * s
    BY <1>0, MulMono
  <2> QED
    BY <2>1, <1>0
<1>2. q \in Nat /\ r \in 0 .. s - 1 /\ b * s + p = q * s + r
  BY <1>0, <1>1, DivMod
<1> HIDE DEF q, r, j
<1>3. q * s \in Nat
  BY <1>2
<1>4. ~ (q < b)
  <2> SUFFICES ASSUME q < b PROVE FALSE
    OBVIOUS
  <2>1. q * s + s <= b * s
    BY <1>0, <1>2, MulMono
  <2> QED
    BY <2>1, <1>0, <1>2, <1>3
<1>5. ~ (b < q)
  <2> SUFFICES ASSUME b < q PROVE FALSE
    OBVIOUS
  <2>1. b * s + s <= q * s
    BY <1>0, <1>2, MulMono
  <2> QED
    BY <2>1, <1>0, <1>2, <1>3
<1>6. q = b
  BY <1>0, <1>2, <1>4, <1>5
<1>7. r = p
  BY <1>0, <1>2, <1>6
<1> QED
  BY <1>1, <1>6, <1>7 DEF q, r

LEMMA CellType ==
    ASSUME NEW j \in 0 .. NewBuckets * BucketSize - 1
    PROVE  j \div BucketSize \in NB /\ j % BucketSize \in Pos /\ Cell(j) \in NB \X Pos
<1>1. NewBuckets \in Nat /\ BucketSize \in Nat /\ BucketSize > 0
  BY Counts
<1>2. j \div BucketSize \in 0 .. NewBuckets - 1
  BY <1>1, DivType
<1>3. j \in Nat
  <2>1. \A x, y \in Nat : x * y \in Nat
    OBVIOUS
  <2> QED
    BY <2>1, <1>1
<1>4. j % BucketSize \in 0 .. BucketSize - 1
  BY <1>1, <1>3, DivMod
<1> QED
  BY <1>2, <1>4 DEF NB, Pos, Cell

LEMMA AllVisited == \A p \in NB \X Pos : p \in Visited(NewBuckets * BucketSize)
<1> SUFFICES ASSUME NEW b \in NB, NEW x \in Pos PROVE <<b, x>> \in Visited(NewBuckets * BucketSize)
  OBVIOUS
<1>1. NewBuckets \in Nat /\ BucketSize \in Nat /\ BucketSize > 0
  BY Counts
<1>2. b \in 0 .. NewBuckets - 1 /\ x \in 0 .. BucketSize - 1
  BY DEF NB, Pos
<1>3. PICK j \in 0 .. NewBuckets * BucketSize - 1 : j \div BucketSize = b /\ j % BucketSize = x
  BY <1>1, <1>2, DivOnto
<1>4. Cell(j) = <<b, x>>
  BY <1>3 DEF Cell
<1> QED
  BY <1>4 DEF Visited

\* One place of the file.
PlaceStep(f, k, s) ==
    LET bucket == (k - 1) \div BucketSize
        id == f.buckets[<<bucket, (k - 1) % BucketSize>>]
    IN  IF id = Nobody THEN s
        ELSE LET place == NewPlace(s.info[id].addr, bucket) IN
             IF s.new[place] = Nobody /\ s.info[id].refs < MaxRefs
             THEN PutNew(s, id, place)
             ELSE s

\* The loop over the places.
PlacesLoad(load, m, file, N) ==
    /\ load[0] = m /\ \A n \in 1 .. N : load[n] = PlaceStep(file, n, load[n - 1])
    /\ LoadPlaces(m, file) = load[N]

LEMMA PlacesLoadLoop ==
    ASSUME NEW m, NEW file, NEW N \in Nat, N = PlaceCount
    PROVE  \E load : PlacesLoad(load, m, file, N)
<1> DEFINE G(n, s) == PlaceStep(file, n, s)
           D(f, n) == f = [k \in 0 .. n |-> IF k = 0 THEN m ELSE G(k, f[k - 1])]
           load == CHOOSE f : D(f, N)
<1>1. LoadPlaces(m, file) = load[N]
  BY DEF LoadPlaces, PlaceStep, PlaceCount
<1> HIDE DEF G
<1>2. \E f : D(f, N)
  <2> DEFINE S == {n \in 0 .. N : \E f : D(f, n)}
  <2>1. 0 \in S
    <3>1. D([k \in 0 .. 0 |-> m], 0)
      OBVIOUS
    <3> HIDE DEF D
    <3> QED
      BY <3>1
  <2>2. ASSUME NEW n \in 1 .. N, n - 1 \in S PROVE n \in S
    <3>1. PICK f : D(f, n - 1)
      BY <2>2
    <3> DEFINE g == [k \in 0 .. n |-> IF k = n THEN G(n, f[n - 1]) ELSE f[k]]
    <3>2. \A k \in 0 .. n - 1 : g[k] = f[k] /\ f[k] = IF k = 0 THEN m ELSE G(k, f[k - 1])
      BY <3>1
    <3>3. g[n] = G(n, g[n - 1])
      OBVIOUS
    <3>4. \A k \in 0 .. n : g[k] = IF k = 0 THEN m ELSE G(k, g[k - 1])
      <4> HIDE DEF g
      <4>1. ASSUME NEW k \in 0 .. n - 1 PROVE g[k] = IF k = 0 THEN m ELSE G(k, g[k - 1])
        <5>1. CASE k = 0
          BY <5>1, <3>2
        <5>2. CASE k # 0
          <6>1. k - 1 \in 0 .. n - 1
            BY <5>2
          <6>2. g[k] = f[k] /\ f[k] = G(k, f[k - 1]) /\ g[k - 1] = f[k - 1]
            BY <5>2, <6>1, <3>2
          <6> QED
            BY <5>2, <6>2
        <5> QED
          BY <5>1, <5>2
      <4> QED
        BY <4>1, <3>3
    <3>5. D(g, n)
      BY <3>4
    <3> HIDE DEF D, g
    <3> QED
      BY <3>5
  <2> HIDE DEF S
  <2>3. N \in S
    BY <2>1, <2>2, UpToInduction
  <2> QED
    BY <2>3 DEF S
<1>3. D(load, N)
  <2> HIDE DEF D
  <2> QED
    BY <1>2
<1>4. load[0] = m /\ \A n \in 1 .. N : load[n] = G(n, load[n - 1])
  <2> HIDE DEF load
  <2> QED
    BY <1>3
<1> HIDE DEF D, load
<1> QED
  BY <1>1, <1>4 DEF G, PlacesLoad

\* The new entries of the file are the first N of m.
NewOnes(f, N, m) ==
    \A i \in 0 .. N - 1 : i \in Ids(m) /\ ~ m.info[i].tried /\ m.info[i].addr = f.new[i].addr

\* s is m with more places.
Placed(m, s) ==
    /\ Sound(s, 0) /\ Ids(s) = Ids(m) /\ s.nIdCount = m.nIdCount
    /\ \A x \in Ids(m) : SamePeer(m, s, x)

\* The first k places of s are those of the file, and it has no others.
PlacedExactly(f, k, s) ==
    \A p \in NB \X Pos : s.new[p] = IF p \in Visited(k) THEN f.buckets[p] ELSE Nobody

\* What PlaceStep does in the cell c, case by case.
PlaceCases(f, N, c, s, r) ==
    LET id == f.buckets[c]
        place == NewPlace(f.new[id].addr, c[1])
    IN  /\ c \in NB \X Pos /\ (id = Nobody \/ id \in 0 .. N - 1)
        /\ id = Nobody => r = s
        /\ id # Nobody =>
            /\ id \in NewIds(s) /\ s.info[id].addr = f.new[id].addr /\ s.info[id].refs \in 0 .. MaxRefs
            /\ IF s.new[place] = Nobody /\ s.info[id].refs < MaxRefs
               THEN r = PutNew(s, id, place) ELSE r = s

LEMMA PlaceStepCases ==
    ASSUME NEW f, NEW N \in Nat, NEW T \in Nat, FileInv(f, N, T), NEW m, NewOnes(f, N, m),
           NEW k \in 1 .. NewBuckets * BucketSize, NEW s, Placed(m, s)
    PROVE  PlaceCases(f, N, Cell(k - 1), s, PlaceStep(f, k, s))
<1> DEFINE r == PlaceStep(f, k, s)
           b == (k - 1) \div BucketSize
           c == Cell(k - 1)
           id == f.buckets[c]
           place == NewPlace(s.info[id].addr, b)
<1>1. r = IF id = Nobody THEN s
          ELSE IF s.new[place] = Nobody /\ s.info[id].refs < MaxRefs THEN PutNew(s, id, place) ELSE s
  BY DEF PlaceStep, Cell
<1>2. c \in NB \X Pos /\ c[1] = b /\ b \in NB
  <2>1. k - 1 \in 0 .. NewBuckets * BucketSize - 1
    <3>1. NewBuckets * BucketSize \in Nat
      BY Counts
    <3> QED
      BY <3>1
  <2>2. c[1] = b
    BY DEF Cell
  <2> QED
    BY <2>1, <2>2, CellType
<1> HIDE DEF c, b, r
<1>3. id = Nobody \/ id \in 0 .. N - 1
  BY <1>2 DEF FileInv
<1> HIDE DEF id
<1>4. ASSUME id # Nobody
      PROVE  /\ id \in NewIds(s) /\ s.info[id].addr = f.new[id].addr
             /\ s.info[id].refs \in 0 .. MaxRefs
  <2>1. id \in Ids(s) /\ ~ s.info[id].tried /\ s.info[id].addr = f.new[id].addr
    BY <1>3, <1>4 DEF NewOnes, Placed, SamePeer
  <2>2. s.info[id] \in Entry(Len(s.random)) /\ Len(s.random) \in Nat
    BY <2>1 DEF Placed, Sound, TypeInv
  <2>3. s.info[id].refs \in 0 .. MaxRefs
    BY <2>2, EntryFields
  <2> QED
    BY <2>1, <2>3 DEF NewIds
<1>5. id # Nobody => place = NewPlace(f.new[id].addr, c[1])
  BY <1>2, <1>4
<1> HIDE DEF place
<1>6. id # Nobody => IF s.new[place] = Nobody /\ s.info[id].refs < MaxRefs
                     THEN r = PutNew(s, id, place) ELSE r = s
  BY <1>1
<1>7. id = Nobody => r = s
  BY <1>1
<1> QED
  BY <1>2, <1>3, <1>4, <1>5, <1>6, <1>7 DEF r, c, id, PlaceCases

LEMMA PlaceStepSound ==
    ASSUME NEW f, NEW N \in Nat, NEW T \in Nat, FileInv(f, N, T), NEW m, NewOnes(f, N, m),
           NEW k \in 1 .. NewBuckets * BucketSize, NEW s, Placed(m, s)
    PROVE  Placed(m, PlaceStep(f, k, s))
<1> DEFINE r == PlaceStep(f, k, s)
           c == Cell(k - 1)
           id == f.buckets[c]
           place == NewPlace(f.new[id].addr, c[1])
<1>1. /\ c \in NB \X Pos /\ (id = Nobody => r = s)
      /\ id # Nobody => /\ id \in NewIds(s) /\ s.info[id].addr = f.new[id].addr /\ s.info[id].refs \in 0 .. MaxRefs
                        /\ IF s.new[place] = Nobody /\ s.info[id].refs < MaxRefs
                           THEN r = PutNew(s, id, place) ELSE r = s
  <2>1. PlaceCases(f, N, c, s, r)
    BY PlaceStepCases
  <2> QED
    BY <2>1 DEF PlaceCases
<1> HIDE DEF r, c, id
<1>2. CASE r = s
  BY <1>2 DEF r
<1>3. CASE id # Nobody /\ s.new[place] = Nobody /\ s.info[id].refs < MaxRefs
  <2>1. r = PutNew(s, id, place) /\ id \in NewIds(s) /\ s.info[id].addr = f.new[id].addr
    BY <1>1, <1>3
  <2>2. s.info[id].refs # MaxRefs
    BY <1>1, <1>3, Counts
  <2>3. c[1] \in NB /\ place = NewPlace(s.info[id].addr, c[1])
    BY <1>1, <2>1
  <2>4. Sound(s, 0)
    BY DEF Placed
  <2> HIDE DEF place
  <2>5. PutResult(s, r, id, 0)
    BY <1>3, <2>1, <2>2, <2>3, <2>4, PutNewResult
  <2> QED
    BY <2>5 DEF PutResult, Placed, SamePeer, SameCounts, r
<1> QED
  BY <1>1, <1>2, <1>3

LEMMA PlaceStepExact ==
    ASSUME NEW f, NEW N \in Nat, NEW T \in Nat, FileInv(f, N, T), PlacesInv(f, N, T),
           NEW m, NewOnes(f, N, m),
           NEW k \in 1 .. NewBuckets * BucketSize, NEW s, Placed(m, s), PlacedExactly(f, k - 1, s)
    PROVE  PlacedExactly(f, k, PlaceStep(f, k, s))
<1> DEFINE r == PlaceStep(f, k, s)
           c == Cell(k - 1)
           id == f.buckets[c]
           place == NewPlace(f.new[id].addr, c[1])
           before == Visited(k - 1)
<1>1. /\ c \in NB \X Pos /\ (id = Nobody \/ id \in 0 .. N - 1) /\ (id = Nobody => r = s)
      /\ id # Nobody => /\ id \in NewIds(s) /\ s.info[id].addr = f.new[id].addr /\ s.info[id].refs \in 0 .. MaxRefs
                        /\ IF s.new[place] = Nobody /\ s.info[id].refs < MaxRefs
                           THEN r = PutNew(s, id, place) ELSE r = s
  <2>1. PlaceCases(f, N, c, s, r)
    BY PlaceStepCases
  <2> QED
    BY <2>1 DEF PlaceCases
<1>2. Visited(k) = before \cup {c}
  <2>1. 0 .. k - 1 = (0 .. k - 1 - 1) \cup {k - 1}
    <3>1. NewBuckets * BucketSize \in Nat
      BY Counts
    <3> QED
      BY <3>1
  <2> QED
    BY <2>1 DEF Visited
<1>3. id # Nobody => place = c
  BY <1>1 DEF PlacesInv
<1> HIDE DEF r, c, place, before
<1>4. \A p \in NB \X Pos : s.new[p] = IF p \in before THEN f.buckets[p] ELSE Nobody
  BY DEF PlacedExactly, before
<1>5. CASE id = Nobody \/ c \in before
  <2>1. r = s
    <3>1. CASE id = Nobody
      BY <3>1, <1>1
    <3>2. CASE id # Nobody /\ c \in before
      <4>1. s.new[place] # Nobody
        BY <3>2, <1>1, <1>3, <1>4
      <4> QED
        BY <4>1, <3>2, <1>1
    <3> QED
      BY <3>1, <3>2, <1>5
  <2>2. s.new[c] = f.buckets[c]
    BY <1>1, <1>4, <1>5
  <2>3. \A p \in NB \X Pos : s.new[p] = IF p \in Visited(k) THEN f.buckets[p] ELSE Nobody
    BY <2>2, <1>2, <1>4
  <2> QED
    BY <2>1, <2>3 DEF PlacedExactly, r
<1>6. CASE id # Nobody /\ c \notin before
  <2>1. place = c /\ id \in NewIds(s) /\ s.new[c] = Nobody /\ id \in 0 .. N - 1
    BY <1>1, <1>3, <1>4, <1>6
  <2>2. s.info[id].refs < MaxRefs
    <3> DEFINE P == {p \in NB \X Pos : f.buckets[p] = id}
               Q == NewPlaces(s, id)
    <3>1. Cardinality(P) \in 1 .. MaxRefs
      BY <2>1 DEF PlacesInv
    <3>2. Q \in SUBSET P /\ c \in P /\ c \notin Q /\ P \in SUBSET (NB \X Pos)
      <4>1. \A p \in NB \X Pos : s.new[p] = id => f.buckets[p] = id
        BY <1>4, <1>6
      <4>2. Q \in SUBSET P
        BY <4>1 DEF NewPlaces
      <4>3. c \in P /\ P \in SUBSET (NB \X Pos)
        BY <1>1
      <4>4. c \notin Q
        BY <2>1, <1>6 DEF NewPlaces
      <4> QED
        BY <4>2, <4>3, <4>4
    <3>3. s.info[id].refs = Cardinality(Q)
      BY <2>1 DEF Placed, Sound, NewInv, NewIds
    <3> HIDE DEF P, Q
    <3>4. IsFiniteSet(P)
      BY <3>2, PlacesFinite, FS_Subset
    <3>5. Cardinality(Q) <= Cardinality(P) /\ Cardinality(Q) # Cardinality(P)
      BY <3>2, <3>4, FS_Subset
    <3>6. Cardinality(Q) \in Nat
      BY <3>2, <3>4, FS_Subset, FS_CardinalityType
    <3>7. \A x \in Nat, y \in 1 .. MaxRefs : x <= y /\ x # y => x < MaxRefs
      BY Counts
    <3> QED
      BY <3>1, <3>3, <3>5, <3>6, <3>7
  <2>3. r = PutNew(s, id, c)
    BY <2>1, <2>2, <1>1, <1>6
  <2>4. r.new = [s.new EXCEPT ![c] = id]
    <3>1. DOMAIN s = Fields
      BY DEF Placed, Sound, TypeInv
    <3> QED
      BY <2>3, <3>1 DEF PutNew, Fields
  <2>5. DOMAIN s.new = NB \X Pos
    BY DEF Placed, Sound, TypeInv
  <2>6. \A p \in NB \X Pos : r.new[p] = IF p \in Visited(k) THEN f.buckets[p] ELSE Nobody
    BY <2>4, <2>5, <1>1, <1>2, <1>4 DEF id
  <2> QED
    BY <2>6 DEF PlacedExactly, r
<1> QED
  BY <1>5, <1>6

PlacesResult(f, N, T, m, r) ==
    /\ Placed(m, r)
    /\ PlacesInv(f, N, T) /\ (\A p \in NB \X Pos : m.new[p] = Nobody)
         => \A p \in NB \X Pos : r.new[p] = f.buckets[p]

LEMMA LoadPlacesSound ==
    ASSUME NEW f, NEW N \in Nat, NEW T \in Nat, FileInv(f, N, T), NEW m, NewOnes(f, N, m), Sound(m, 0)
    PROVE  PlacesResult(f, N, T, m, LoadPlaces(m, f))
<1> DEFINE K == PlaceCount
           exact == PlacesInv(f, N, T) /\ (\A p \in NB \X Pos : m.new[p] = Nobody)
<1>1. K \in Nat
  BY Counts DEF PlaceCount
<1>v. \A p \in NB \X Pos : p \in Visited(K)
  BY AllVisited DEF PlaceCount
<1>p. ASSUME NEW k \in 1 .. K, NEW s, Placed(m, s) PROVE Placed(m, PlaceStep(f, k, s))
  BY <1>p, PlaceStepSound DEF PlaceCount
<1>x. ASSUME PlacesInv(f, N, T), NEW k \in 1 .. K, NEW s, Placed(m, s), PlacedExactly(f, k - 1, s)
      PROVE  PlacedExactly(f, k, PlaceStep(f, k, s))
  BY <1>x, PlaceStepExact DEF PlaceCount
<1>0. PICK load : PlacesLoad(load, m, f, K)
  BY <1>1, PlacesLoadLoop
<1> HIDE DEF K
<1>2. /\ load[0] = m /\ \A k \in 1 .. K : load[k] = PlaceStep(f, k, load[k - 1])
      /\ LoadPlaces(m, f) = load[K]
  BY <1>0 DEF PlacesLoad
<1> DEFINE S == {k \in 0 .. K : Placed(m, load[k]) /\ (exact => PlacedExactly(f, k, load[k]))}
<1>3. 0 \in S
  <2>1. Placed(m, m)
    BY DEF Placed, SamePeer
  <2>2. exact => PlacedExactly(f, 0, m)
    <3>1. Visited(0) = {}
      <4>1. 0 .. 0 - 1 = {}
        OBVIOUS
      <4> QED
        BY <4>1 DEF Visited
    <3> QED
      BY <3>1 DEF PlacedExactly
  <2> HIDE DEF exact
  <2> QED
    BY <2>1, <2>2, <1>1, <1>2
<1>4. ASSUME NEW k \in 1 .. K, k - 1 \in S PROVE k \in S
  <2>1. Placed(m, load[k - 1]) /\ (exact => PlacedExactly(f, k - 1, load[k - 1]))
    BY <1>4
  <2>2. Placed(m, PlaceStep(f, k, load[k - 1]))
    BY <2>1, <1>p
  <2>3. exact => PlacedExactly(f, k, PlaceStep(f, k, load[k - 1]))
    BY <2>1, <1>x
  <2>4. load[k] = PlaceStep(f, k, load[k - 1])
    BY <1>2
  <2> HIDE DEF exact
  <2> QED
    BY <2>2, <2>3, <2>4
<1> HIDE DEF S
<1>5. K \in S
  BY <1>1, <1>3, <1>4, UpToInduction
<1>6. Placed(m, load[K]) /\ (exact => PlacedExactly(f, K, load[K]))
  BY <1>5 DEF S
<1>7. exact => \A p \in NB \X Pos : load[K].new[p] = f.buckets[p]
  BY <1>6, <1>v DEF PlacedExactly
<1> QED
  BY <1>2, <1>6, <1>7 DEF PlacesResult

\* One entry without a place.
PruneStep(n, s) ==
    IF ~ s.info[n - 1].tried /\ s.info[n - 1].refs = 0 THEN Delete(s, n - 1) ELSE s

\* The loop over the entries.
PruneLoad(load, m, N) ==
    /\ load[0] = m /\ \A n \in 1 .. N : load[n] = PruneStep(n, load[n - 1])
    /\ Prune(m) = load[N]

LEMMA PruneLoadLoop ==
    ASSUME NEW m, NEW N \in Nat, N = m.nIdCount
    PROVE  \E load : PruneLoad(load, m, N)
<1> DEFINE G(n, s) == PruneStep(n, s)
           D(f, n) == f = [k \in 0 .. n |-> IF k = 0 THEN m ELSE G(k, f[k - 1])]
           load == CHOOSE f : D(f, N)
<1>1. Prune(m) = load[N]
  BY DEF Prune, PruneStep
<1> HIDE DEF G
<1>2. \E f : D(f, N)
  <2> DEFINE S == {n \in 0 .. N : \E f : D(f, n)}
  <2>1. 0 \in S
    <3>1. D([k \in 0 .. 0 |-> m], 0)
      OBVIOUS
    <3> HIDE DEF D
    <3> QED
      BY <3>1
  <2>2. ASSUME NEW n \in 1 .. N, n - 1 \in S PROVE n \in S
    <3>1. PICK f : D(f, n - 1)
      BY <2>2
    <3> DEFINE g == [k \in 0 .. n |-> IF k = n THEN G(n, f[n - 1]) ELSE f[k]]
    <3>2. \A k \in 0 .. n - 1 : g[k] = f[k] /\ f[k] = IF k = 0 THEN m ELSE G(k, f[k - 1])
      BY <3>1
    <3>3. g[n] = G(n, g[n - 1])
      OBVIOUS
    <3>4. \A k \in 0 .. n : g[k] = IF k = 0 THEN m ELSE G(k, g[k - 1])
      <4> HIDE DEF g
      <4>1. ASSUME NEW k \in 0 .. n - 1 PROVE g[k] = IF k = 0 THEN m ELSE G(k, g[k - 1])
        <5>1. CASE k = 0
          BY <5>1, <3>2
        <5>2. CASE k # 0
          <6>1. k - 1 \in 0 .. n - 1
            BY <5>2
          <6>2. g[k] = f[k] /\ f[k] = G(k, f[k - 1]) /\ g[k - 1] = f[k - 1]
            BY <5>2, <6>1, <3>2
          <6> QED
            BY <5>2, <6>2
        <5> QED
          BY <5>1, <5>2
      <4> QED
        BY <4>1, <3>3
    <3>5. D(g, n)
      BY <3>4
    <3> HIDE DEF D, g
    <3> QED
      BY <3>5
  <2> HIDE DEF S
  <2>3. N \in S
    BY <2>1, <2>2, UpToInduction
  <2> QED
    BY <2>3 DEF S
<1>3. D(load, N)
  <2> HIDE DEF D
  <2> QED
    BY <1>2
<1>4. load[0] = m /\ \A n \in 1 .. N : load[n] = G(n, load[n - 1])
  <2> HIDE DEF load
  <2> QED
    BY <1>3
<1> HIDE DEF D, load
<1> QED
  BY <1>1, <1>4 DEF G, PruneLoad

\* The first n entries have a place or are deleted.
Pruned(m, n, s) ==
    /\ Sound(s, 0) /\ s.nIdCount = m.nIdCount
    /\ n .. m.nIdCount - 1 \subseteq Ids(s) /\ Unplaced(s) \subseteq n .. m.nIdCount - 1
    /\ Unplaced(m) = {} => s = m

LEMMA PruneStepSound ==
    ASSUME NEW m, m.nIdCount \in Nat, NEW n \in 1 .. m.nIdCount, NEW s, Pruned(m, n - 1, s)
    PROVE  Pruned(m, n, PruneStep(n, s))
<1> DEFINE N == m.nIdCount
           r == PruneStep(n, s)
<1>1. /\ Sound(s, 0) /\ s.nIdCount = N /\ n - 1 .. N - 1 \subseteq Ids(s)
      /\ Unplaced(s) \subseteq n - 1 .. N - 1 /\ (Unplaced(m) = {} => s = m)
  BY DEF Pruned
<1>2. /\ n - 1 \in n - 1 .. N - 1 /\ n .. N - 1 \subseteq n - 1 .. N - 1
      /\ \A x \in n - 1 .. N - 1 : x # n - 1 => x \in n .. N - 1
      /\ n - 1 \notin n .. N - 1
  OBVIOUS
<1>3. n - 1 \in Ids(s)
  BY <1>1, <1>2
<1> HIDE DEF N, r
<1>4. CASE n - 1 \in Unplaced(s)
  <2>1. r = Delete(s, n - 1) /\ Unplaced(m) # {}
    BY <1>1, <1>4 DEF r, PruneStep, Unplaced
  <2>2. /\ Sound(r, 0) /\ r.nIdCount = s.nIdCount /\ Ids(r) = Ids(s) \ {n - 1}
        /\ Unplaced(r) = Unplaced(s) \ {n - 1}
    BY <2>1, <1>1, <1>4, DeleteSound
  <2>3. n .. N - 1 \subseteq Ids(r)
    BY <2>2, <1>1, <1>2
  <2>4. Unplaced(r) \subseteq n .. N - 1
    BY <2>2, <1>1, <1>2
  <2> QED
    BY <2>1, <2>2, <2>3, <2>4, <1>1 DEF Pruned, r, N
<1>5. CASE n - 1 \notin Unplaced(s)
  <2>1. r = s
    BY <1>3, <1>5 DEF r, PruneStep, Unplaced
  <2>2. n .. N - 1 \subseteq Ids(s) /\ Unplaced(s) \subseteq n .. N - 1
    BY <1>1, <1>2, <1>5
  <2> QED
    BY <2>1, <2>2, <1>1 DEF Pruned, r, N
<1> QED
  BY <1>4, <1>5

LEMMA PruneSound ==
    ASSUME NEW m, Sound(m, 0), Ids(m) = 0 .. m.nIdCount - 1
    PROVE  /\ Consistent(Prune(m)) /\ Prune(m).nIdCount = m.nIdCount
           /\ Unplaced(m) = {} => Prune(m) = m
<1> DEFINE N == m.nIdCount
<1>1. N \in Nat
  BY DEF Sound, TypeInv
<1>0. PICK load : PruneLoad(load, m, N)
  BY <1>1, PruneLoadLoop
<1>2. load[0] = m /\ (\A n \in 1 .. N : load[n] = PruneStep(n, load[n - 1])) /\ Prune(m) = load[N]
  BY <1>0 DEF PruneLoad
<1> DEFINE S == {n \in 0 .. N : Pruned(m, n, load[n])}
<1>3. 0 \in S
  <2>1. Unplaced(m) \subseteq Ids(m)
    BY DEF Unplaced
  <2>2. Pruned(m, 0, m)
    BY <2>1 DEF Pruned
  <2> QED
    BY <2>2, <1>1, <1>2
<1>4. ASSUME NEW n \in 1 .. N, n - 1 \in S PROVE n \in S
  <2>1. Pruned(m, n - 1, load[n - 1])
    BY <1>4
  <2>2. Pruned(m, n, PruneStep(n, load[n - 1]))
    BY <2>1, <1>1, PruneStepSound
  <2> QED
    BY <2>2, <1>2
<1>5. N \in S
  <2> HIDE DEF S, N
  <2> QED
    BY <1>1, <1>3, <1>4, UpToInduction
<1>6. Pruned(m, N, load[N])
  BY <1>5
<1>7. N .. N - 1 = {}
  BY <1>1
<1>8. Unplaced(load[N]) = {}
  BY <1>6, <1>7 DEF Pruned
<1> QED
  BY <1>2, <1>6, <1>8 DEF Pruned, Consistent

------------------------------------------------------------------------------
(* Unserialize.                                                             *)

\* r holds exactly the N new and T tried entries of f, in their places.
LoadedExactly(f, N, T, r) ==
    /\ Ids(r) = 0 .. N + T - 1
    /\ \A i \in 0 .. N - 1 : /\ r.info[i].addr = f.new[i].addr /\ r.info[i].source = f.new[i].source
                             /\ ~ r.info[i].tried
    /\ \A i \in N .. N + T - 1 : r.info[i].tried
    /\ \A j \in 0 .. T - 1 : /\ r.info[N + j].addr = f.tried[j].addr
                             /\ r.info[N + j].source = f.tried[j].source
    /\ \A p \in NB \X Pos : r.new[p] = f.buckets[p]

\* Tables whose ids are the first ones have at most one for each address.
LEMMA FewIds ==
    ASSUME NEW m, Sound(m, 0), Ids(m) = 0 .. m.nIdCount - 1
    PROVE  m.nIdCount <= Cardinality(Addr)
<1> DEFINE g == [id \in Ids(m) |-> m.info[id].addr]
<1>1. g \in [Ids(m) -> Addr]
  <2>1. \A id \in Ids(m) : m.info[id] \in Entry(Len(m.random)) /\ Len(m.random) \in Nat
    BY DEF Sound, TypeInv
  <2> QED
    BY <2>1, EntryFields
<1>2. \A i, j \in Ids(m) : i # j => g[i] # g[j]
  BY DEF Sound, AddrInv
<1>3. g \in Injection(Ids(m), Addr)
  BY <1>1, <1>2 DEF Injection, IsInjective
<1> HIDE DEF g
<1>4. Cardinality(Ids(m)) <= Cardinality(Addr)
  BY <1>3, AddrAssumption, FS_Injection
<1>5. m.nIdCount \in Nat
  BY DEF Sound, TypeInv
<1>6. Cardinality(Ids(m)) = m.nIdCount
  BY <1>5, IntervalCount
<1> QED
  BY <1>4, <1>6

UnserializeResult(f, N, T, usable, r) ==
    /\ Consistent(r) /\ r.nIdCount <= Cardinality(Addr)
    /\ usable /\ PlacesInv(f, N, T) => LoadedExactly(f, N, T, r)

LEMMA UnserializeSound ==
    ASSUME NEW f, NEW N \in Nat, NEW T \in Nat, FileInv(f, N, T), NEW usable \in BOOLEAN
    PROVE  UnserializeResult(f, N, T, usable, Unserialize(f, usable))
<1> DEFINE l == LoadNew(f, usable)
           m == LoadTried(l, f)
           s == IF usable THEN LoadPlaces(m, f) ELSE m
           r == Prune(s)
<1>0. Unserialize(f, usable) = r
  BY DEF Unserialize
<1>1. LoadedNew(f, N, l, usable)
  BY LoadNewSound
<1> HIDE DEF l
<1>2. LoadedTried(f, N, T, T, l, m)
  BY <1>1, LoadTriedSound
<1> HIDE DEF m
<1>3. /\ Sound(m, 0) /\ m.nIdCount \in N .. N + T /\ Ids(m) = 0 .. m.nIdCount - 1 /\ m.new = l.new
      /\ \A i \in 0 .. N - 1 : m.info[i] = l.info[i]
      /\ \A i \in N .. m.nIdCount - 1 : m.info[i].tried
      /\ PlacesInv(f, N, T) =>
          /\ m.nIdCount = N + T
          /\ \A j \in 0 .. T - 1 : m.info[N + j].addr = f.tried[j].addr /\ m.info[N + j].source = f.tried[j].source
  BY <1>2 DEF LoadedTried
<1>4. \A i \in 0 .. N - 1 : /\ m.info[i].addr = f.new[i].addr /\ m.info[i].source = f.new[i].source
                            /\ ~ m.info[i].tried
  BY <1>1, <1>3 DEF LoadedNew
<1>5. NewOnes(f, N, m)
  <2>1. \A i \in 0 .. N - 1 : i \in Ids(m)
    BY <1>3
  <2> QED
    BY <2>1, <1>4 DEF NewOnes
<1>6. /\ Placed(m, LoadPlaces(m, f))
      /\ PlacesInv(f, N, T) /\ (\A p \in NB \X Pos : m.new[p] = Nobody)
           => \A p \in NB \X Pos : LoadPlaces(m, f).new[p] = f.buckets[p]
  <2>1. PlacesResult(f, N, T, m, LoadPlaces(m, f))
    BY <1>3, <1>5, LoadPlacesSound
  <2> QED
    BY <2>1 DEF PlacesResult
<1>7. Placed(m, s)
  <2>1. Placed(m, m)
    BY <1>3 DEF Placed, SamePeer
  <2> QED
    BY <2>1, <1>6
<1>8. Sound(s, 0) /\ s.nIdCount = m.nIdCount /\ Ids(s) = 0 .. s.nIdCount - 1 /\ Ids(s) = Ids(m)
      /\ \A x \in Ids(m) : SamePeer(m, s, x)
  BY <1>3, <1>7 DEF Placed
<1>9. usable /\ PlacesInv(f, N, T) => \A p \in NB \X Pos : s.new[p] = f.buckets[p]
  <2>1. usable => \A p \in NB \X Pos : m.new[p] = Nobody
    BY <1>1, <1>3 DEF LoadedNew
  <2> QED
    BY <2>1, <1>6
<1> HIDE DEF s
<1>10. Consistent(r) /\ r.nIdCount = s.nIdCount /\ (Unplaced(s) = {} => r = s)
  BY <1>8, PruneSound
<1> HIDE DEF r
<1>11. r.nIdCount <= Cardinality(Addr)
  BY <1>8, <1>10, FewIds
<1>12. ASSUME usable, PlacesInv(f, N, T) PROVE LoadedExactly(f, N, T, r)
  <2>1. /\ s.nIdCount = N + T /\ Ids(s) = 0 .. N + T - 1
        /\ \A p \in NB \X Pos : s.new[p] = f.buckets[p]
    BY <1>3, <1>8, <1>9, <1>12
  <2>2. \A i \in 0 .. N - 1 : /\ s.info[i].addr = f.new[i].addr /\ s.info[i].source = f.new[i].source
                              /\ ~ s.info[i].tried
    BY <1>4, <1>5, <1>8 DEF NewOnes, SamePeer
  <2>3. \A i \in N .. N + T - 1 : s.info[i].tried
    <3>1. \A i \in N .. N + T - 1 : i \in Ids(m) /\ m.info[i].tried
      BY <1>3, <1>12
    <3> QED
      BY <3>1, <1>8 DEF SamePeer
  <2>4. ASSUME NEW j \in 0 .. T - 1
        PROVE  s.info[N + j].addr = f.tried[j].addr /\ s.info[N + j].source = f.tried[j].source
    <3>1. N + j \in 0 .. N + T - 1
      OBVIOUS
    <3>2. SamePeer(m, s, N + j)
      BY <3>1, <2>1, <1>8
    <3>3. m.info[N + j].addr = f.tried[j].addr /\ m.info[N + j].source = f.tried[j].source
      BY <1>3, <1>12
    <3> QED
      BY <3>2, <3>3 DEF SamePeer
  <2>5. Unplaced(s) = {}
    <3> SUFFICES ASSUME NEW x \in Unplaced(s) PROVE FALSE
      OBVIOUS
    <3>1. x \in 0 .. N + T - 1 /\ x \in Ids(s) /\ s.info[x].refs = 0 /\ ~ s.info[x].tried
      BY <2>1 DEF Unplaced
    <3>2. x \in 0 .. N - 1
      BY <3>1, <2>3
    <3>3. NewPlaces(s, x) = {p \in NB \X Pos : f.buckets[p] = x}
      BY <2>1 DEF NewPlaces
    <3>4. Cardinality(NewPlaces(s, x)) \in 1 .. MaxRefs
      BY <3>2, <3>3, <1>12 DEF PlacesInv
    <3>5. s.info[x].refs = Cardinality(NewPlaces(s, x))
      BY <3>1, <1>8 DEF Sound, NewInv
    <3>6. 0 \notin 1 .. MaxRefs
      BY Counts
    <3> QED
      BY <3>1, <3>4, <3>5, <3>6
  <2>6. r = s
    BY <2>5, <1>10
  <2> QED
    BY <2>1, <2>2, <2>3, <2>4, <2>6 DEF LoadedExactly
<1> QED
  BY <1>0, <1>10, <1>11, <1>12 DEF UnserializeResult

------------------------------------------------------------------------------
(* The theorems.                                                            *)

FileOK(f) == \E N \in Nat : \E T \in Nat : FileInv(f, N, T)

\* The inductive invariant: the tables agree and every entry has a place; ids
\* are within their bound; and a file has no address twice.
Inv ==
    /\ Consistent(addrman)
    /\ addrman.nIdCount <= MaxIds + Cardinality(Addr)
    /\ peersdat # NoFile => FileOK(peersdat)

\* What a step may do to the tables.
Stepped ==
    \/ StepResult(addrman, addrman')
    \/ RestartWithoutFile
    \/ \E usable \in BOOLEAN : Restart(usable)

LEMMA EmptyConsistent == Consistent(Empty) /\ Empty.nIdCount = 0
<1>1. Unplaced(Empty) = {}
  BY EmptySound DEF Unplaced
<1> QED
  BY <1>1, EmptySound DEF Consistent

LEMMA SameStep ==
    ASSUME NEW m, Consistent(m)
    PROVE  StepResult(m, m)
<1>1. \A x \in TriedIds(m) : Kept(m, m, x)
  BY DEF TriedIds, Kept
<1> QED
  BY <1>1 DEF StepResult

LEMMA InitInv == Init => Inv
<1> SUFFICES ASSUME Init PROVE Inv
  OBVIOUS
<1>1. addrman = Empty /\ peersdat = NoFile
  BY DEF Init
<1>2. Cardinality(Addr) \in Nat
  BY AddrAssumption, FS_CardinalityType
<1>3. addrman.nIdCount <= MaxIds + Cardinality(Addr)
  BY <1>1, <1>2, EmptyConsistent, Counts
<1> QED
  BY <1>1, <1>3, EmptyConsistent DEF Inv

LEMMA NextInv == Inv /\ [Next]_vars => Inv' /\ (Stepped \/ UNCHANGED vars)
<1> SUFFICES ASSUME Inv, [Next]_vars PROVE Inv' /\ (Stepped \/ UNCHANGED vars)
  OBVIOUS
<1>c. Cardinality(Addr) \in Nat /\ MaxIds \in Nat
  BY AddrAssumption, FS_CardinalityType, Counts
<1>i. Consistent(addrman) /\ addrman.nIdCount <= MaxIds + Cardinality(Addr)
      /\ (peersdat # NoFile => FileOK(peersdat))
  BY DEF Inv
<1>n. \A n \in Nat : n <= MaxIds \/ n <= Cardinality(Addr) => n <= MaxIds + Cardinality(Addr)
  BY <1>c
<1>t. \A m : Consistent(m) => m.nIdCount \in Nat
  BY DEF Consistent, Sound, TypeInv
<1>s. ASSUME StepResult(addrman, addrman'), UNCHANGED peersdat,
             addrman'.nIdCount = addrman.nIdCount \/ addrman'.nIdCount <= MaxIds
      PROVE  Inv' /\ Stepped
  <2>1. Consistent(addrman')
    BY <1>s DEF StepResult
  <2>2. addrman'.nIdCount \in Nat
    BY <2>1, <1>t
  <2>3. addrman'.nIdCount <= MaxIds + Cardinality(Addr)
    BY <2>2, <1>s, <1>i, <1>n
  <2>4. peersdat' # NoFile => FileOK(peersdat')
    BY <1>s, <1>i
  <2> QED
    BY <2>1, <2>3, <2>4, <1>s DEF Inv, Stepped
<1>1. ASSUME NEW a \in Addr, NEW s \in Source, NEW terrible \in BOOLEAN, AddUnknown(a, s, terrible)
      PROVE  Inv' /\ Stepped
  <2>1. StepResult(addrman, addrman') /\ addrman'.nIdCount <= MaxIds
    BY <1>1, <1>i, AddUnknownStep
  <2>2. UNCHANGED peersdat
    BY <1>1 DEF AddUnknown
  <2> QED
    BY <2>1, <2>2, <1>s
<1>2. ASSUME NEW a \in Addr, NEW s \in Source, NEW terrible \in BOOLEAN, AddKnown(a, s, terrible)
      PROVE  Inv' /\ Stepped
  <2>1. StepResult(addrman, addrman') /\ addrman'.nIdCount = addrman.nIdCount
    BY <1>2, <1>i, AddKnownStep
  <2>2. UNCHANGED peersdat
    BY <1>2 DEF AddKnown
  <2> QED
    BY <2>1, <2>2, <1>s
<1>3. ASSUME NEW a \in Addr, Good(a) PROVE Inv' /\ Stepped
  <2>1. StepResult(addrman, addrman') /\ addrman'.nIdCount = addrman.nIdCount
    BY <1>3, <1>i, GoodStep
  <2>2. UNCHANGED peersdat
    BY <1>3 DEF Good
  <2> QED
    BY <2>1, <2>2, <1>s
<1>4. ASSUME NEW upTo \in 1 .. Cardinality(Addr),
             NEW choice \in [1 .. upTo -> 1 .. Cardinality(Addr)], GetAddr(upTo, choice)
      PROVE  Inv' /\ Stepped
  <2>0. upTo \in Nat
    BY <1>c
  <2>1. StepResult(addrman, addrman') /\ addrman'.nIdCount = addrman.nIdCount
    BY <2>0, <1>4, <1>i, GetAddrStep
  <2>2. UNCHANGED peersdat
    BY <1>4 DEF GetAddr
  <2> QED
    BY <2>1, <2>2, <1>s
<1>5. ASSUME DumpAddresses PROVE Inv' /\ Stepped
  <2>1. addrman' = addrman /\ peersdat' = Serialize(addrman)
    BY <1>5 DEF DumpAddresses
  <2>2. SavedResult(addrman, Serialize(addrman))
    BY <1>i, SaveSound
  <2>3. FileOK(peersdat')
    BY <2>1, <2>2 DEF SavedResult, FileOK
  <2>4. Stepped
    BY <2>1, <1>i, SameStep DEF Stepped
  <2> QED
    BY <2>1, <2>3, <2>4, <1>i DEF Inv
<1>6. ASSUME NEW usable \in BOOLEAN, Restart(usable) PROVE Inv' /\ Stepped
  <2>1. peersdat # NoFile /\ addrman' = Unserialize(peersdat, usable) /\ peersdat' = peersdat
    BY <1>6 DEF Restart
  <2>2. PICK N \in Nat : \E T \in Nat : FileInv(peersdat, N, T)
    BY <2>1, <1>i DEF FileOK
  <2>3. PICK T \in Nat : FileInv(peersdat, N, T)
    BY <2>2
  <2>4. UnserializeResult(peersdat, N, T, usable, addrman')
    BY <2>1, <2>3, UnserializeSound
  <2>5. Consistent(addrman') /\ addrman'.nIdCount <= Cardinality(Addr)
    BY <2>4 DEF UnserializeResult
  <2>6. addrman'.nIdCount <= MaxIds + Cardinality(Addr)
    BY <2>5, <1>t, <1>n
  <2> QED
    BY <2>1, <2>5, <2>6, <1>6, <1>i DEF Inv, Stepped
<1>7. ASSUME RestartWithoutFile PROVE Inv' /\ Stepped
  <2>1. addrman' = Empty /\ peersdat' = NoFile
    BY <1>7 DEF RestartWithoutFile
  <2>2. addrman'.nIdCount <= MaxIds + Cardinality(Addr)
    BY <2>1, <1>c, EmptyConsistent
  <2> QED
    BY <2>1, <2>2, <1>7, EmptyConsistent DEF Inv, Stepped
<1>8. ASSUME UNCHANGED vars PROVE Inv'
  BY <1>8, <1>i DEF vars, Inv
<1> QED
  BY <1>1, <1>2, <1>3, <1>4, <1>5, <1>6, <1>7, <1>8 DEF Next

\* The tables agree between any two operations, and so does every file that
\* DumpAddresses has written: what Inv says is inductive.
THEOREM SpecInv == Spec => []Inv
<1>1. Inv /\ [Next]_vars => Inv'
  BY NextInv
<1> QED
  BY InitInv, <1>1, PTL DEF Spec

\* The entries of consistent tables are counted by vRandom and by mapAddr, and
\* are new or tried.
LEMMA EntryCounts ==
    ASSUME NEW m, Consistent(m)
    PROVE  /\ Len(m.random) = Cardinality(Ids(m)) /\ Cardinality(DOMAIN m.addr) = Cardinality(Ids(m))
           /\ m.nNew \in Nat /\ m.nTried \in Nat /\ m.nNew + m.nTried = Cardinality(Ids(m))
           /\ Cardinality(Ids(m)) <= m.nIdCount /\ m.nIdCount \in Nat
<1>s. TypeInv(m) /\ RandomInv(m) /\ AddrInv(m) /\ CountInv(m, 0)
  BY DEF Consistent, Sound
<1>f. IsFiniteSet(Ids(m))
  BY <1>s, IdsFinite
<1>1. Len(m.random) = Cardinality(Ids(m))
  <2> DEFINE L == Len(m.random)
             g == [i \in 1 .. L |-> m.random[i]]
  <2>1. L \in Nat /\ \A i \in 1 .. L : m.random[i] \in Ids(m)
    BY <1>s DEF TypeInv
  <2>2. \A i, j \in 1 .. L : m.random[i] = m.random[j] => i = j
    BY <1>s DEF RandomInv
  <2>3. ASSUME NEW x \in Ids(m) PROVE \E i \in 1 .. L : m.random[i] = x
    <3>1. m.info[x].pos \in 1 .. L
      <4>1. m.info[x] \in Entry(L)
        BY <1>s DEF TypeInv
      <4> QED
        BY <4>1, <2>1, EntryFields
    <3> QED
      BY <3>1, <1>s DEF RandomInv
  <2> HIDE DEF L
  <2>4. g \in Bijection(1 .. L, Ids(m))
    BY <2>1, <2>2, <2>3 DEF Bijection, Injection, Surjection, IsInjective
  <2>5. ExistsBijection(1 .. L, Ids(m))
    BY <2>4 DEF ExistsBijection
  <2>6. 1 \in Int /\ L \in Int
    BY <2>1
  <2>7. IsFiniteSet(1 .. L) /\ Cardinality(1 .. L) = IF 1 > L THEN 0 ELSE L - 1 + 1
    BY <2>6, FS_Interval
  <2>8. Cardinality(1 .. L) = L
    BY <2>1, <2>7
  <2>9. Cardinality(Ids(m)) = Cardinality(1 .. L)
    BY <2>5, <2>7, FS_Bijection
  <2> QED
    BY <2>8, <2>9 DEF L
<1>2. Cardinality(DOMAIN m.addr) = Cardinality(Ids(m))
  <2> DEFINE g == [x \in Ids(m) |-> m.info[x].addr]
             D == DOMAIN m.addr
  <2>1. \A x \in Ids(m) : m.info[x].addr \in D /\ m.addr[m.info[x].addr] = x
    BY <1>s DEF AddrInv
  <2>2. \A a \in D : m.addr[a] \in Ids(m) /\ m.info[m.addr[a]].addr = a
    BY <1>s DEF AddrInv
  <2> HIDE DEF D
  <2>3. g \in Bijection(Ids(m), D)
    <3>1. g \in [Ids(m) -> D]
      BY <2>1
    <3>2. \A x, y \in Ids(m) : g[x] = g[y] => x = y
      BY <2>1
    <3>3. \A a \in D : \E x \in Ids(m) : g[x] = a
      BY <2>2
    <3> HIDE DEF g
    <3> QED
      BY <3>1, <3>2, <3>3 DEF Bijection, Injection, Surjection, IsInjective
  <2>4. ExistsBijection(Ids(m), D)
    BY <2>3 DEF ExistsBijection
  <2> QED
    BY <2>4, <1>f, FS_Bijection DEF D
<1>3. m.nNew \in Nat /\ m.nTried \in Nat /\ m.nNew + m.nTried = Cardinality(Ids(m))
  <2> DEFINE U == NewIds(m)
             V == TriedIds(m)
  <2>1. U \in SUBSET Ids(m) /\ V \in SUBSET Ids(m) /\ U \cap V = {} /\ U \cup V = Ids(m)
    BY DEF NewIds, TriedIds
  <2>2. m.nTried = Cardinality(V) /\ m.nNew + 0 = Cardinality(U) /\ m.nNew \in Int
    BY <1>s DEF CountInv, TypeInv
  <2> HIDE DEF U, V
  <2>3. IsFiniteSet(U) /\ IsFiniteSet(V)
    BY <2>1, <1>f, FS_Subset
  <2>4. Cardinality(U) \in Nat /\ Cardinality(V) \in Nat
    BY <2>3, FS_CardinalityType
  <2>5. Cardinality(U \cup V) = Cardinality(U) + Cardinality(V) - Cardinality(U \cap V)
    BY <2>3, FS_Union
  <2>6. Cardinality(U \cap V) = 0
    BY <2>1, FS_EmptySet
  <2>7. Cardinality(Ids(m)) = Cardinality(U) + Cardinality(V)
    BY <2>1, <2>4, <2>5, <2>6
  <2> QED
    BY <2>2, <2>4, <2>7
<1>4. Cardinality(Ids(m)) <= m.nIdCount /\ m.nIdCount \in Nat
  <2>1. m.nIdCount \in Nat /\ Ids(m) \in SUBSET (0 .. m.nIdCount - 1)
    BY <1>s DEF TypeInv
  <2>2. IsFiniteSet(0 .. m.nIdCount - 1) /\ Cardinality(0 .. m.nIdCount - 1) = m.nIdCount
    BY <2>1, IntervalCount
  <2> QED
    BY <2>1, <2>2, FS_Subset
<1> QED
  BY <1>1, <1>2, <1>3, <1>4

LEMMA InvTypeOK == Inv => TypeOK
<1> SUFFICES ASSUME Inv PROVE TypeOK
  OBVIOUS
<1> DEFINE m == addrman
           Id == 0 .. m.nIdCount - 1
<1>1. Consistent(m) /\ TypeInv(m) /\ AddrInv(m) /\ m.nIdCount <= MaxIds + Cardinality(Addr)
  BY DEF Inv, Consistent, Sound
<1>2. /\ m.nNew \in Nat /\ m.nTried \in Nat /\ m.nNew + m.nTried <= m.nIdCount /\ m.nIdCount \in Nat
  <2>1. /\ m.nNew \in Nat /\ m.nTried \in Nat /\ m.nNew + m.nTried = Cardinality(Ids(m))
        /\ Cardinality(Ids(m)) <= m.nIdCount /\ m.nIdCount \in Nat
    BY <1>1, EntryCounts
  <2> QED
    BY <2>1
<1>3. Ids(m) \subseteq Id
  BY <1>1 DEF TypeInv
<1>4. {m.nNew, m.nTried, m.nIdCount} \subseteq 0 .. MaxIds + Cardinality(Addr)
  <2>1. Cardinality(Addr) \in Nat /\ MaxIds \in Nat
    BY AddrAssumption, FS_CardinalityType, Counts
  <2>2. /\ m.nNew \in 0 .. MaxIds + Cardinality(Addr) /\ m.nTried \in 0 .. MaxIds + Cardinality(Addr)
        /\ m.nIdCount \in 0 .. MaxIds + Cardinality(Addr)
    BY <2>1, <1>1, <1>2
  <2> QED
    BY <2>2
<1>5. \A id \in DOMAIN m.info :
        m.info[id] \in [addr : Addr, source : Source, refs : 0 .. MaxRefs, tried : BOOLEAN, pos : 1 .. Len(m.random)]
  BY <1>1 DEF TypeInv, Entry, Ids
<1>6. DOMAIN m.addr \subseteq Addr /\ Ran(m.addr) \subseteq Id
  BY <1>1, <1>3 DEF TypeInv, AddrInv, Ran
<1>7. m.random \in Seq(Id)
  <2>1. m.random \in Seq(Ids(m))
    BY <1>1 DEF TypeInv
  <2> HIDE DEF m, Id
  <2> QED
    BY <2>1, <1>3
<1>8. m.new \in [NB \X Pos -> Id \cup {Nobody}] /\ m.tried \in [TB \X Pos -> Id \cup {Nobody}]
  <2>1. m.new \in [NB \X Pos -> Ids(m) \cup {Nobody}] /\ m.tried \in [TB \X Pos -> Ids(m) \cup {Nobody}]
    BY <1>1 DEF TypeInv
  <2> HIDE DEF m, Id
  <2> QED
    BY <2>1, <1>3
<1>9. DOMAIN m.info \subseteq Id
  BY <1>3 DEF Ids
<1> HIDE DEF m
<1> QED
  BY <1>4, <1>5, <1>6, <1>7, <1>8, <1>9 DEF TypeOK, m

LEMMA ConsistentAgree ==
    ASSUME NEW m, Consistent(m)
    PROVE  IndexesAgree(m) /\ TablesAgree(m)
<1>s. /\ TypeInv(m) /\ RandomInv(m) /\ AddrInv(m) /\ NewInv(m) /\ TriedInv(m) /\ CountInv(m, 0)
      /\ Unplaced(m) = {}
  BY DEF Consistent, Sound
<1>c. /\ Len(m.random) = Cardinality(Ids(m)) /\ Cardinality(DOMAIN m.addr) = Cardinality(Ids(m))
      /\ m.nNew \in Nat /\ m.nTried \in Nat /\ m.nNew + m.nTried = Cardinality(Ids(m))
  BY EntryCounts
<1>1. IndexesAgree(m)
  <2>1. Ran(m.random) = Ids(m)
    <3>1. Len(m.random) \in Nat /\ DOMAIN m.random = 1 .. Len(m.random)
          /\ \A i \in 1 .. Len(m.random) : m.random[i] \in Ids(m)
      BY <1>s DEF TypeInv
    <3>2. ASSUME NEW x \in Ids(m) PROVE x \in Ran(m.random)
      <4>1. m.info[x].pos \in 1 .. Len(m.random)
        BY <1>s, <3>1, EntryFields DEF TypeInv
      <4> QED
        BY <4>1, <3>1, <1>s DEF RandomInv, Ran
    <3> QED
      BY <3>1, <3>2 DEF Ran
  <2>2. \A id \in Ids(m) : /\ m.random[m.info[id].pos] = id
                           /\ m.info[id].addr \in DOMAIN m.addr /\ m.addr[m.info[id].addr] = id
    BY <1>s DEF RandomInv, AddrInv
  <2> QED
    BY <2>1, <2>2, <1>c DEF IndexesAgree, Ids
<1>2. TablesAgree(m)
  <2>1. ASSUME NEW id \in Ids(m)
        PROVE  /\ m.info[id].refs = Cardinality(NewPlaces(m, id))
               /\ m.info[id].refs # 0 <=> ~ m.info[id].tried
               /\ m.info[id].tried <=> m.tried[TriedPlace(m.info[id].addr)] = id
               /\ \A p \in NewPlaces(m, id) : p[2] = NewPos[<<m.info[id].addr, p[1]>>]
    <3>1. m.info[id].refs # 0 <=> ~ m.info[id].tried
      BY <1>s DEF NewInv, Unplaced
    <3>2. m.info[id].tried <=> m.tried[TriedPlace(m.info[id].addr)] = id
      BY <1>s DEF TriedInv
    <3>3. /\ m.info[id].refs = Cardinality(NewPlaces(m, id))
          /\ \A p \in NewPlaces(m, id) : p[2] = NewPos[<<m.info[id].addr, p[1]>>]
      BY <1>s DEF NewInv
    <3> QED
      BY <3>1, <3>2, <3>3
  <2>2. Ran(m.new) \cup Ran(m.tried) \subseteq Ids(m) \cup {Nobody}
    BY <1>s DEF TypeInv, Ran
  <2>3. \A p \in TB \X Pos : m.tried[p] # Nobody => TriedPlace(m.info[m.tried[p]].addr) = p
    BY <1>s DEF TriedInv
  <2>4. m.nTried = Cardinality(TriedIds(m)) /\ m.nNew = Cardinality(NewIds(m))
    BY <1>s, <1>c DEF CountInv
  <2> QED
    BY <2>1, <2>2, <2>3, <2>4 DEF TablesAgree, Ids, TriedIds, NewIds
<1> QED
  BY <1>1, <1>2

\* CAddrMan::Check_ finds nothing after any sequence of operations, saves and
\* restarts, for every number of addresses, buckets and places and all hashes.
THEOREM TablesAlwaysConsistent == Spec => []TablesConsistent
<1>1. Inv => TablesConsistent
  <2>1. Inv => IndexesAgree(addrman) /\ TablesAgree(addrman)
    BY ConsistentAgree DEF Inv
  <2> QED
    BY <2>1, InvTypeOK DEF TablesConsistent
<1> QED
  BY <1>1, SpecInv, PTL

LEMMA KeptEntries ==
    ASSUME NEW m, NEW r, StepResult(m, r), NEW e \in TriedEntries(m)
    PROVE  e \in TriedEntries(r) \cup {<<x[2], x[3]>> : x \in NewEntries(r)}
<1>1. PICK id \in TriedIds(m) : e = <<m.info[id].addr, m.info[id].source>>
  BY DEF TriedEntries, TriedIds, Ids
<1>2. Kept(m, r, id)
  BY DEF StepResult
<1>3. /\ id \in Ids(r) /\ e = <<r.info[id].addr, r.info[id].source>>
      /\ r.info[id].tried \/ \E p \in NB \X Pos : r.new[p] = id
  BY <1>1, <1>2 DEF Kept
<1>4. CASE r.info[id].tried
  BY <1>3, <1>4 DEF TriedEntries, Ids
<1>5. CASE \E p \in NB \X Pos : r.new[p] = id
  <2>1. PICK p \in NB \X Pos : r.new[p] = id
    BY <1>5
  <2>2. id # Nobody
    BY <1>3, IdsFinite DEF StepResult, Consistent, Sound
  <2> DEFINE x == <<p, r.info[id].addr, r.info[id].source>>
  <2>3. x \in NewEntries(r)
    BY <2>1, <2>2 DEF NewEntries
  <2>4. <<x[2], x[3]>> = e
    BY <1>3
  <2> HIDE DEF x
  <2> QED
    BY <2>3, <2>4
<1> QED
  BY <1>3, <1>4, <1>5

\* No operation of a running node forgets a tried address: it stays tried, or
\* goes back to a place in the new table.
THEOREM TriedNeverLost == Spec => TriedNotLost
<1> DEFINE Step == \/ \A r \in TriedEntries(addrman) :
                       r \in TriedEntries(addrman') \cup {<<e[2], e[3]>> : e \in NewEntries(addrman')}
                   \/ RestartWithoutFile
                   \/ \E usable \in BOOLEAN : Restart(usable)
<1>1. Inv /\ [Next]_vars => [Step]_vars
  <2>1. StepResult(addrman, addrman') => Step
    BY KeptEntries
  <2> HIDE DEF Step
  <2>2. Stepped => Step
    BY <2>1 DEF Stepped, Step
  <2> QED
    BY <2>2, NextInv
<1>2. TriedNotLost <=> [][Step]_vars
  BY DEF TriedNotLost
<1> HIDE DEF Step
<1> QED
  BY <1>1, <1>2, SpecInv, PTL DEF Spec

\* r holds what m holds, N new and T tried entries.
Reloaded(m, N, T, r) ==
    /\ NewEntries(r) = NewEntries(m) /\ TriedEntries(r) = TriedEntries(m)
    /\ r.nNew = N /\ r.nTried = T

\* Tables that hold exactly the entries of a file that holds those of m.
LEMMA SameContent ==
    ASSUME NEW m, NEW f, NEW N \in Nat, NEW T \in Nat,
           ContentInv(m, f, N, T), NEW r, Consistent(r), LoadedExactly(f, N, T, r)
    PROVE  Reloaded(m, N, T, r)
<1>2. N \in Nat /\ T \in Nat /\ ContentInv(m, f, N, T)
  OBVIOUS
<1>4. Consistent(r) /\ LoadedExactly(f, N, T, r)
  OBVIOUS
<1>5. /\ Ids(r) = 0 .. N + T - 1
      /\ \A i \in 0 .. N - 1 : /\ r.info[i].addr = f.new[i].addr /\ r.info[i].source = f.new[i].source
                               /\ ~ r.info[i].tried
      /\ \A i \in N .. N + T - 1 : r.info[i].tried
      /\ \A j \in 0 .. T - 1 : r.info[N + j].addr = f.tried[j].addr /\ r.info[N + j].source = f.tried[j].source
      /\ \A p \in NB \X Pos : r.new[p] = f.buckets[p]
  BY <1>4 DEF LoadedExactly
<1>R. \A id : Record(m, id).addr = m.info[id].addr /\ Record(m, id).source = m.info[id].source
  BY DEF Record
<1>6. NewEntries(r) = NewEntries(m)
  <2>1. ASSUME NEW p \in NB \X Pos
        PROVE  /\ m.new[p] # Nobody <=> r.new[p] # Nobody
               /\ m.new[p] # Nobody => /\ r.info[r.new[p]].addr = m.info[m.new[p]].addr
                                       /\ r.info[r.new[p]].source = m.info[m.new[p]].source
    <3>1. CASE m.new[p] = Nobody
      BY <3>1, <1>2, <1>5 DEF ContentInv
    <3>2. CASE m.new[p] # Nobody
      <4>0. r.new[p] = f.buckets[p]
        BY <1>5
      <4>1. r.new[p] \in 0 .. N - 1 /\ f.new[r.new[p]] = Record(m, m.new[p])
        BY <4>0, <3>2, <1>2 DEF ContentInv
      <4>2. r.new[p] # Nobody
        BY <4>1, <1>2 DEF Nobody
      <4>3. /\ r.info[r.new[p]].addr = m.info[m.new[p]].addr
            /\ r.info[r.new[p]].source = m.info[m.new[p]].source
        <5>1. /\ r.info[r.new[p]].addr = f.new[r.new[p]].addr
              /\ r.info[r.new[p]].source = f.new[r.new[p]].source
          BY <4>1, <1>5
        <5> QED
          BY <5>1, <4>1, <1>R
      <4> QED
        BY <3>2, <4>2, <4>3
    <3> QED
      BY <3>1, <3>2
  <2> QED
    BY <2>1 DEF NewEntries
<1>7. NewIds(r) = 0 .. N - 1 /\ TriedIds(r) = N .. N + T - 1
  <2>1. \A i \in 0 .. N + T - 1 : i \in 0 .. N - 1 \/ i \in N .. N + T - 1
    BY <1>2
  <2>2. \A i \in 0 .. N - 1 : i \in 0 .. N + T - 1
    BY <1>2
  <2>3. \A i \in N .. N + T - 1 : i \in 0 .. N + T - 1
    BY <1>2
  <2> QED
    BY <2>1, <2>2, <2>3, <1>5 DEF NewIds, TriedIds
<1>8. TriedEntries(r) = TriedEntries(m)
  <2>0. /\ TriedEntries(r) = {<<r.info[id].addr, r.info[id].source>> : id \in TriedIds(r)}
        /\ TriedEntries(m) = {<<m.info[id].addr, m.info[id].source>> : id \in TriedIds(m)}
    BY DEF TriedEntries, TriedIds, Ids
  <2>1. ASSUME NEW i \in TriedIds(r)
        PROVE  \E id \in TriedIds(m) : r.info[i].addr = m.info[id].addr /\ r.info[i].source = m.info[id].source
    <3>1. i \in N .. N + T - 1
      BY <1>7
    <3>2. PICK j \in 0 .. T - 1 : i = N + j
      <4>1. i - N \in 0 .. T - 1 /\ i = N + (i - N)
        BY <3>1, <1>2
      <4> QED
        BY <4>1
    <3>3. PICK id \in TriedIds(m) : f.tried[j] = Record(m, id)
      BY <1>2 DEF ContentInv
    <3>4. r.info[i].addr = f.tried[j].addr /\ r.info[i].source = f.tried[j].source
      BY <3>2, <1>5
    <3>5. r.info[i].addr = m.info[id].addr /\ r.info[i].source = m.info[id].source
      BY <3>3, <3>4, <1>R
    <3> QED
      BY <3>5
  <2>2. ASSUME NEW id \in TriedIds(m)
        PROVE  \E i \in TriedIds(r) : r.info[i].addr = m.info[id].addr /\ r.info[i].source = m.info[id].source
    <3>1. PICK j \in 0 .. T - 1 : f.tried[j] = Record(m, id)
      BY <1>2 DEF ContentInv
    <3>2. N + j \in TriedIds(r)
      <4>1. N + j \in N .. N + T - 1
        BY <1>2
      <4> QED
        BY <4>1, <1>7
    <3>3. r.info[N + j].addr = m.info[id].addr /\ r.info[N + j].source = m.info[id].source
      <4>1. r.info[N + j].addr = f.tried[j].addr /\ r.info[N + j].source = f.tried[j].source
        BY <1>5
      <4> QED
        BY <4>1, <3>1, <1>R
    <3> QED
      BY <3>2, <3>3
  <2> QED
    BY <2>0, <2>1, <2>2
<1>9. r.nNew = N /\ r.nTried = T
  <2>1. r.nTried = Cardinality(TriedIds(r)) /\ r.nNew + 0 = Cardinality(NewIds(r)) /\ r.nNew \in Int
    BY <1>4 DEF Consistent, Sound, CountInv, TypeInv
  <2>2. Cardinality(0 .. N - 1) = N
    BY <1>2, IntervalCount
  <2>3. Cardinality(N .. N + T - 1) = T
    <3>1. N \in Int /\ N + T - 1 \in Int
      BY <1>2
    <3>2. Cardinality(N .. N + T - 1) = IF N > N + T - 1 THEN 0 ELSE N + T - 1 - N + 1
      BY <3>1, FS_Interval
    <3> QED
      BY <3>2, <1>2
  <2> QED
    BY <2>1, <2>2, <2>3, <1>7
<1> QED
  BY <1>6, <1>8, <1>9 DEF Reloaded

\* A file that is written from consistent tables gives them back.
LEMMA ReloadGivesBack ==
    ASSUME NEW m, Consistent(m)
    PROVE  Reloaded(m, m.nNew, m.nTried, Unserialize(Serialize(m), TRUE))
<1> DEFINE f == Serialize(m)
           N == m.nNew
           T == m.nTried
           r == Unserialize(f, TRUE)
<1>1. SavedResult(m, f)
  BY SaveSound
<1>2. N \in Nat /\ T \in Nat /\ FileInv(f, N, T) /\ PlacesInv(f, N, T) /\ ContentInv(m, f, N, T)
  BY <1>1 DEF SavedResult
<1>0. TRUE \in BOOLEAN
  OBVIOUS
<1> HIDE DEF f, N, T
<1>3. UnserializeResult(f, N, T, TRUE, r)
  BY <1>0, <1>2, UnserializeSound
<1>4. Consistent(r) /\ LoadedExactly(f, N, T, r)
  BY <1>2, <1>3 DEF UnserializeResult
<1> HIDE DEF r
<1>5. Reloaded(m, N, T, r)
  BY <1>2, <1>4, SameContent
<1> QED
  BY <1>5 DEF r, f, N, T

\* Writing peers.dat and loading it at any time loses no entry and no place.
THEOREM ReloadAlwaysExact == Spec => []ReloadExact
<1>1. Inv => ReloadExact
  BY ReloadGivesBack DEF Inv, ReloadExact, Reloaded
<1> QED
  BY <1>1, SpecInv, PTL

=============================================================================
