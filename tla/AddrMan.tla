------------------------------ MODULE AddrMan ------------------------------
(***************************************************************************)
(* CAddrMan (addrman.cpp, addrman.h): the addresses of peers a node knows, *)
(* in a table of "new" ones, where an address may be several times, and a  *)
(* table of "tried" ones, where it is once; with peers.dat, from which     *)
(* both are rebuilt at the next start.                                     *)
(*                                                                         *)
(* Every operation runs under CAddrMan::cs, so it is one step.  The hashes *)
(* that choose a place are arbitrary functions; ids are never used twice.  *)
(* Attempt, Connected and Select change no table; how terrible an entry is *)
(* depends on the clock and is left open.                                  *)
(***************************************************************************)
EXTENDS Integers, Sequences, FiniteSets

CONSTANTS
    Addr,         \* network addresses
    Source,       \* where one hears of them
    NewBuckets,   \* ADDRMAN_NEW_BUCKET_COUNT
    TriedBuckets, \* ADDRMAN_TRIED_BUCKET_COUNT
    BucketSize,   \* ADDRMAN_BUCKET_SIZE
    MaxRefs,      \* ADDRMAN_NEW_BUCKETS_PER_ADDRESS
    NewBucket,    \* GetNewBucket
    TriedBucket,  \* GetTriedBucket
    NewPos,       \* GetBucketPosition in a new bucket
    TriedPos,     \* GetBucketPosition in the tried bucket
    NoFile,       \* there is no peers.dat
    MaxIds        \* bound on nIdCount

NB == 0 .. NewBuckets - 1
TB == 0 .. TriedBuckets - 1
Pos == 0 .. BucketSize - 1

ASSUME CountAssumption ==
    {NewBuckets, TriedBuckets, BucketSize, MaxRefs, MaxIds} \subseteq Nat \ {0}
ASSUME AddrAssumption == IsFiniteSet(Addr)
ASSUME HashAssumption ==
    /\ NewBucket \in [Addr \X Source -> NB] /\ NewPos \in [Addr \X NB -> Pos]
    /\ TriedBucket \in [Addr -> TB] /\ TriedPos \in [Addr -> Pos]

VARIABLES
    addrman,  \* the tables
    peersdat  \* the file, or NoFile

vars == <<addrman, peersdat>>

Nobody == -1  \* an empty place

Empty ==
    [info |-> <<>>, addr |-> <<>>, random |-> <<>>,
     new |-> [p \in NB \X Pos |-> Nobody], tried |-> [p \in TB \X Pos |-> Nobody],
     nNew |-> 0, nTried |-> 0, nIdCount |-> 0]

NewPlace(a, bucket) == <<bucket, NewPos[<<a, bucket>>]>>
TriedPlace(a) == <<TriedBucket[a], TriedPos[a]>>

Ran(f) == {f[x] : x \in DOMAIN f}
Without(f, S) == [x \in DOMAIN f \ S |-> f[x]]
With(f, x, v) == [y \in DOMAIN f \cup {x} |-> IF y = x THEN v ELSE f[y]]

------------------------------------------------------------------------------
(* The helpers of CAddrMan; positions in vRandom start at 1 here.           *)

\* Create.
Create(m, a, source) ==
    LET id == m.nIdCount IN
    [m EXCEPT !.nIdCount = id + 1,
              !.info = With(@, id, [addr |-> a, source |-> source, refs |-> 0,
                                    tried |-> FALSE, pos |-> Len(m.random) + 1]),
              !.addr = With(@, a, id),
              !.random = Append(@, id)]

\* SwapRandom.
SwapRandom(m, i, j) ==
    IF i = j THEN m
    ELSE [m EXCEPT !.info[m.random[i]].pos = j,
                   !.info[m.random[j]].pos = i,
                   !.random[i] = m.random[j],
                   !.random[j] = m.random[i]]

\* Mutant: the last id of vRandom is not put in the place of the one deleted.
MutantDelete(m, id) ==
    [m EXCEPT !.random = SubSeq(@, 1, Len(@) - 1),
              !.addr = Without(@, {m.info[id].addr}),
              !.info = Without(@, {id}),
              !.nNew = @ - 1]

\* Delete.
Delete(m, id) ==
    LET s == SwapRandom(m, m.info[id].pos, Len(m.random)) IN
    [s EXCEPT !.random = SubSeq(@, 1, Len(@) - 1),
              !.addr = Without(@, {m.info[id].addr}),
              !.info = Without(@, {id}),
              !.nNew = @ - 1]

\* ClearNew: an entry that loses its last place is deleted.
ClearNew(m, place) ==
    IF m.new[place] = Nobody THEN m
    ELSE LET id == m.new[place]
             cleared == [m EXCEPT !.info[id].refs = @ - 1, !.new[place] = Nobody]
         IN  IF cleared.info[id].refs = 0 THEN Delete(cleared, id) ELSE cleared

\* MakeTried, first part: out of every new bucket.
TakeFromNew(m, id) ==
    LET places == {NewPlace(m.info[id].addr, b) : b \in NB}
        mine == {p \in places : m.new[p] = id}
    IN  [m EXCEPT !.new = [p \in DOMAIN @ |-> IF p \in mine THEN Nobody ELSE @[p]],
                  !.info[id].refs = @ - Cardinality(mine),
                  !.nNew = @ - 1]

\* Mutant: the entry that makes room is forgotten.
MutantEvict(m, place) ==
    [m EXCEPT !.tried[place] = Nobody, !.nTried = @ - 1,
              !.random = SelectSeq(@, LAMBDA id : id # m.tried[place]),
              !.addr = Without(@, {m.info[m.tried[place]].addr}),
              !.info = Without(@, {m.tried[place]})]

\* MakeTried, second part: the entry in the way goes back to the new table, over
\* whatever is in its place there.
Evict(m, place) ==
    LET id == m.tried[place]
        out == [m EXCEPT !.info[id].tried = FALSE, !.tried[place] = Nobody, !.nTried = @ - 1]
        old == m.info[id]
        back == NewPlace(old.addr, NewBucket[<<old.addr, old.source>>])
        room == ClearNew(out, back)
    IN  [room EXCEPT !.info[id].refs = 1, !.new[back] = id, !.nNew = @ + 1]

\* The entry gets the place among the tried.
PutTried(m, id, place) ==
    [m EXCEPT !.tried[place] = id, !.nTried = @ + 1, !.info[id].tried = TRUE]

MakeTried(m, id) ==
    LET place == TriedPlace(m.info[id].addr)
        taken == TakeFromNew(m, id)
        room == IF taken.tried[place] = Nobody THEN taken ELSE Evict(taken, place)
    IN  PutTried(room, id, place)

\* The entry gets the place.
PutNew(m, id, place) == [m EXCEPT !.info[id].refs = @ + 1, !.new[place] = id]

\* Add_, once the entry exists.  terrible: what IsTerrible says of the one in its place.
Place(m, id, source, terrible) ==
    LET a == m.info[id].addr
        place == NewPlace(a, NewBucket[<<a, source>>])
        there == m.new[place]
    IN  IF there = id THEN m
        ELSE IF \/ there = Nobody
                \/ terrible
                \/ m.info[there].refs > 1 /\ m.info[id].refs = 0
        THEN PutNew(ClearNew(m, place), id, place)
        ELSE IF m.info[id].refs = 0 THEN Delete(m, id) ELSE m

------------------------------------------------------------------------------
(* Saving and loading.                                                      *)

\* The id in S with n smaller ones.
Nth(S, n) == CHOOSE id \in S : Cardinality({i \in S : i < id}) = n

Record(m, id) == [addr |-> m.info[id].addr, source |-> m.info[id].source]

\* Serialize: the new entries in the order of their ids, the tried ones, and for
\* each bucket of the new table the indices of its entries.
Serialize(m) ==
    LET new == {id \in DOMAIN m.info : m.info[id].refs # 0}
        tried == {id \in DOMAIN m.info : m.info[id].tried}
        index(id) == Cardinality({i \in new : i < id})
    IN  [new |-> [n \in 0 .. m.nNew - 1 |-> Record(m, Nth(new, n))],
         tried |-> [n \in 0 .. m.nTried - 1 |-> Record(m, Nth(tried, n))],
         buckets |-> [p \in DOMAIN m.new |->
                         IF m.new[p] = Nobody THEN Nobody ELSE index(m.new[p])]]

\* The new entries of the file.  If the buckets of the file cannot be used, each
\* gets the place its source gives it, if that is free.
LoadNew(file, usable) ==
    LET load[n \in 0 .. Cardinality(DOMAIN file.new)] ==
            IF n = 0 THEN Empty
            ELSE LET r == file.new[n - 1]
                     m == [Create(load[n - 1], r.addr, r.source) EXCEPT !.nNew = @ + 1]
                     place == NewPlace(r.addr, NewBucket[<<r.addr, r.source>>])
                 IN  IF usable \/ m.new[place] # Nobody THEN m ELSE PutNew(m, n - 1, place)
    IN  load[Cardinality(DOMAIN file.new)]

\* The tried entries, but those whose place is taken.
LoadTried(m, file) ==
    LET load[n \in 0 .. Cardinality(DOMAIN file.tried)] ==
            IF n = 0 THEN m
            ELSE LET r == file.tried[n - 1]
                     s == load[n - 1]
                     place == TriedPlace(r.addr)
                 IN  IF s.tried[place] # Nobody THEN s
                     ELSE PutTried(Create(s, r.addr, r.source), s.nIdCount, place)
    IN  load[Cardinality(DOMAIN file.tried)]

\* The places in the new table, bucket by bucket.
LoadPlaces(m, file) ==
    LET load[k \in 0 .. NewBuckets * BucketSize] ==
            IF k = 0 THEN m
            ELSE LET s == load[k - 1]
                     bucket == (k - 1) \div BucketSize
                     id == file.buckets[<<bucket, (k - 1) % BucketSize>>]
                 IN  IF id = Nobody THEN s
                     ELSE LET place == NewPlace(s.info[id].addr, bucket) IN
                          IF s.new[place] = Nobody /\ s.info[id].refs < MaxRefs
                          THEN PutNew(s, id, place)
                          ELSE s
    IN  load[NewBuckets * BucketSize]

\* New entries that got no place are deleted.
Prune(m) ==
    LET prune[n \in 0 .. m.nIdCount] ==
            IF n = 0 THEN m
            ELSE LET s == prune[n - 1]
                 IN  IF ~ s.info[n - 1].tried /\ s.info[n - 1].refs = 0
                     THEN Delete(s, n - 1) ELSE s
    IN  prune[m.nIdCount]

\* Mutant: an entry gets back only the place its source gives it.
MutantUnserialize(file, usable) == Prune(LoadTried(LoadNew(file, FALSE), file))

\* Unserialize.
Unserialize(file, usable) ==
    LET m == LoadTried(LoadNew(file, usable), file)
    IN  Prune(IF usable THEN LoadPlaces(m, file) ELSE m)

------------------------------------------------------------------------------
Init == addrman = Empty /\ peersdat = NoFile

Known == DOMAIN addrman.addr
InfoOf(a) == addrman.info[addrman.addr[a]]

\* Add_ of an address that is not known.
AddUnknown(a, source, terrible) ==
    /\ a \notin Known
    /\ addrman.nIdCount < MaxIds
    /\ LET m == [Create(addrman, a, source) EXCEPT !.nNew = @ + 1]
       IN  addrman' = Place(m, addrman.nIdCount, source, terrible)
    /\ UNCHANGED peersdat

\* Add_ of a known one, when it brings news and wins the stochastic test.
AddKnown(a, source, terrible) ==
    /\ a \in Known
    /\ ~ InfoOf(a).tried
    /\ InfoOf(a).refs # MaxRefs
    /\ addrman' = Place(addrman, addrman.addr[a], source, terrible)
    /\ UNCHANGED peersdat

\* Good_.  The bucket it looks for first is only there to be found.
Good(a) ==
    /\ a \in Known
    /\ ~ InfoOf(a).tried
    /\ \E bucket \in NB : addrman.new[NewPlace(a, bucket)] = addrman.addr[a]
    /\ addrman' = MakeTried(addrman, addrman.addr[a])
    /\ UNCHANGED peersdat

\* GetAddr_ shuffles vRandom from its beginning, as far as it needs addresses.
GetAddr(upTo, choice) ==
    /\ upTo <= Len(addrman.random)
    /\ \A n \in 1 .. upTo : choice[n] \in n .. Len(addrman.random)
    /\ LET shuffle[n \in 0 .. upTo] ==
               IF n = 0 THEN addrman ELSE SwapRandom(shuffle[n - 1], n, choice[n])
       IN  addrman' = shuffle[upTo]
    /\ UNCHANGED peersdat

\* DumpAddresses: every quarter of an hour and at shutdown.
DumpAddresses ==
    /\ peersdat' = Serialize(addrman)
    /\ UNCHANGED addrman

\* The node stops or crashes, and starts from the last file.  One of another
\* version, or with another number of buckets, is not usable in full; one that
\* is missing or damaged not at all.
Restart(usable) ==
    /\ peersdat # NoFile
    /\ addrman' = Unserialize(peersdat, usable)
    /\ UNCHANGED peersdat

RestartWithoutFile ==
    /\ addrman' = Empty
    /\ peersdat' = NoFile

Next ==
    \/ \E a \in Addr, s \in Source, terrible \in BOOLEAN : AddUnknown(a, s, terrible)
    \/ \E a \in Addr, s \in Source, terrible \in BOOLEAN : AddKnown(a, s, terrible)
    \/ \E a \in Addr : Good(a)
    \/ \E upTo \in 1 .. Cardinality(Addr) :
           \E choice \in [1 .. upTo -> 1 .. Cardinality(Addr)] : GetAddr(upTo, choice)
    \/ DumpAddresses
    \/ \E usable \in BOOLEAN : Restart(usable)
    \/ RestartWithoutFile

Spec == Init /\ [][Next]_vars

------------------------------------------------------------------------------
(* Properties.                                                              *)

\* Every part of the tables has its type.
TypeOK ==
    LET Id == 0 .. addrman.nIdCount - 1 IN
    /\ DOMAIN addrman.info \subseteq Id
    /\ \A id \in DOMAIN addrman.info :
        addrman.info[id] \in [addr : Addr, source : Source, refs : 0 .. MaxRefs,
                              tried : BOOLEAN, pos : 1 .. Len(addrman.random)]
    /\ DOMAIN addrman.addr \subseteq Addr /\ Ran(addrman.addr) \subseteq Id
    /\ addrman.random \in Seq(Id)
    /\ addrman.new \in [NB \X Pos -> Id \cup {Nobody}]
    /\ addrman.tried \in [TB \X Pos -> Id \cup {Nobody}]
    /\ {addrman.nNew, addrman.nTried, addrman.nIdCount} \subseteq 0 .. MaxIds + Cardinality(Addr)

\* vRandom, mapAddr and mapInfo of m hold the same entries.
IndexesAgree(m) ==
    /\ Ran(m.random) = DOMAIN m.info /\ Len(m.random) = m.nNew + m.nTried
    /\ \A id \in DOMAIN m.info :
        /\ m.random[m.info[id].pos] = id
        /\ m.info[id].addr \in DOMAIN m.addr /\ m.addr[m.info[id].addr] = id
    /\ Cardinality(DOMAIN m.addr) = Cardinality(DOMAIN m.info)

\* The places of an entry in the new table.
NewPlaces(m, id) == {p \in NB \X Pos : m.new[p] = id}

\* An entry is tried, with its one place in that table, or has as many places in
\* the new table as it counts, at least one; and the totals are right.
TablesAgree(m) ==
    /\ \A id \in DOMAIN m.info : LET i == m.info[id] IN
        /\ i.refs = Cardinality(NewPlaces(m, id))
        /\ i.refs # 0 <=> ~ i.tried
        /\ i.tried <=> m.tried[TriedPlace(i.addr)] = id
        /\ \A p \in NewPlaces(m, id) : p[2] = NewPos[<<i.addr, p[1]>>]
    /\ Ran(m.new) \cup Ran(m.tried) \subseteq DOMAIN m.info \cup {Nobody}
    /\ \A p \in TB \X Pos : m.tried[p] # Nobody => TriedPlace(m.info[m.tried[p]].addr) = p
    /\ m.nTried = Cardinality({id \in DOMAIN m.info : m.info[id].tried})
    /\ m.nNew = Cardinality({id \in DOMAIN m.info : ~ m.info[id].tried})

\* CAddrMan::Check_ returns 0 after every operation and every restart (but for
\* what it says of the times nLastTry and nLastSuccess): the assertions of Delete, ClearNew, MakeTried, SwapRandom and Serialize rest on
\* it, and so does Select_, which looks for an entry until it finds one.
TablesConsistent == TypeOK /\ IndexesAgree(addrman) /\ TablesAgree(addrman)

\* What a table holds, without the ids.
NewEntries(m) ==
    {<<p, m.info[m.new[p]].addr, m.info[m.new[p]].source>> : p \in {q \in NB \X Pos : m.new[q] # Nobody}}
TriedEntries(m) ==
    {<<m.info[id].addr, m.info[id].source>> : id \in {i \in DOMAIN m.info : m.info[i].tried}}

\* "vvTried, mapAddr and vVector are never encoded explicitly; they are instead
\* reconstructed from the other information" (addrman.h:263): loading a file that
\* is written now loses no entry and no place, so nothing is pruned.
ReloadExact ==
    LET m == Unserialize(Serialize(addrman), TRUE) IN
    /\ NewEntries(m) = NewEntries(addrman)
    /\ TriedEntries(m) = TriedEntries(addrman)
    /\ m.nNew = addrman.nNew /\ m.nTried = addrman.nTried

\* An address that was tried is not lost when another one takes its place: it
\* goes back to the new table (addrman.cpp:168), where only an address that is
\* added, or evicted, later may overwrite it.
TriedNotLost ==
    [][\/ \A r \in TriedEntries(addrman) :
           r \in TriedEntries(addrman') \cup {<<e[2], e[3]>> : e \in NewEntries(addrman')}
       \/ RestartWithoutFile
       \/ \E usable \in BOOLEAN : Restart(usable)]_vars

=============================================================================
