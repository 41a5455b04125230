--------------------------- MODULE CoinsViewProofs ---------------------------
(***************************************************************************)
(* The stack of coin caches is transparent, for any transactions, coins    *)
(* and blocks: Inv is inductive, and through it CoinsView implements       *)
(* UtxoStore.  Everything is argued entry by entry: the lemmas say what    *)
(* one cache operation does to what a reader of the cache sees.            *)
(***************************************************************************)
EXTENDS CoinsView, TLAPS

\* What the layers below a cache may answer, and what a cache may hold.
Answers == [Txids -> Coins \cup {Pruned, Missing}]
Caches == [Txids -> Entry \cup {NoEntry}]

\* What FetchCoins, ModifyCoins and BatchWrite return is again a cache.
LEMMA CacheTypes ==
    ASSUME NEW c \in Caches, NEW base \in Answers
    PROVE  /\ GetAll(c, base) \in Answers
           /\ \A t \in Txids : FetchCoins(c, base, t) \in Caches
           /\ \A t \in Txids, v \in Coins \cup {Pruned} :
                 ModifyCoins(c, base, t, v) \in Caches
           /\ \A child \in Caches : BatchWrite(c, child) \in Caches
<1>1. GetAll(c, base) \in Answers
  BY ValuesDistinct DEF Caches, Answers, GetAll, GetCoins, Entry
<1>2. ASSUME NEW t \in Txids PROVE FetchCoins(c, base, t) \in Caches
  BY ValuesDistinct DEF Caches, Answers, FetchCoins, FreshIn, Entry, Flags
<1>3. ASSUME NEW t \in Txids, NEW v \in Coins \cup {Pruned}
      PROVE  ModifyCoins(c, base, t, v) \in Caches
  <2>1. (IF c[t] # NoEntry THEN c[t].flags ELSE FreshIn(base, t)) \in SUBSET Flags
    BY DEF Caches, Entry, FreshIn, Flags
  <2> QED
    BY <2>1 DEF Caches, ModifyCoins, Entry, Flags
<1>4. ASSUME NEW child \in Caches PROVE BatchWrite(c, child) \in Caches
  <2>1. ASSUME NEW t \in Txids
        PROVE  MergeEntry(c[t], child[t]) \in Entry \cup {NoEntry}
    BY DEF Caches, MergeEntry, Entry, Flags
  <2> QED
    BY <2>1 DEF BatchWrite, Caches
<1> QED
  BY <1>1, <1>2, <1>3, <1>4

\* FetchCoins is invisible to a reader of the cache, keeps the flags sound,
\* and leaves an entry for every txid that the parent knows.
LEMMA FetchInvisible ==
    ASSUME NEW c \in Caches, NEW base \in Answers, NEW t \in Txids
    PROVE  /\ GetAll(FetchCoins(c, base, t), base) = GetAll(c, base)
           /\ FlagsSoundIn(c, base) => FlagsSoundIn(FetchCoins(c, base, t), base)
           /\ base[t] # Missing => FetchCoins(c, base, t)[t] # NoEntry
           /\ \A s \in Txids : c[s] # NoEntry => FetchCoins(c, base, t)[s] # NoEntry
           /\ \A s \in Txids \ {t} : FetchCoins(c, base, t)[s] = c[s]
<1> DEFINE d == FetchCoins(c, base, t)
<1>1. CASE c[t] # NoEntry \/ base[t] = Missing
  BY <1>1 DEF FetchCoins
<1>2. CASE c[t] = NoEntry /\ base[t] # Missing
  <2>1. d = [c EXCEPT ![t] = [coins |-> base[t], flags |-> FreshIn(base, t)]]
    BY <1>2 DEF FetchCoins
  <2>2. /\ d[t] = [coins |-> base[t], flags |-> FreshIn(base, t)]
        /\ d[t] # NoEntry
        /\ \A s \in Txids \ {t} : d[s] = c[s]
    BY <2>1, <1>2, ValuesDistinct DEF Caches, Answers, Entry, FreshIn, Flags
  <2>3. GetAll(d, base) = GetAll(c, base)
    BY <2>2, <1>2 DEF GetAll, GetCoins
  <2>4. ASSUME FlagsSoundIn(c, base) PROVE FlagsSoundIn(d, base)
    BY <2>2, <2>4, <1>2, ValuesDistinct DEF FlagsSoundIn, FreshIn, Value
  <2> QED
    BY <2>2, <2>3, <2>4
<1> QED
  BY <1>1, <1>2

\* ModifyCoins changes what a reader sees at t, and nothing else.
LEMMA ModifyChangesOne ==
    ASSUME NEW c \in Caches, NEW base \in Answers, NEW t \in Txids,
           NEW v \in Coins \cup {Pruned}, FlagsSoundIn(c, base)
    PROVE  /\ FlagsSoundIn(ModifyCoins(c, base, t, v), base)
           /\ Value(GetCoins(ModifyCoins(c, base, t, v), base, t)) = v
           /\ \A s \in Txids \ {t} : ModifyCoins(c, base, t, v)[s] = c[s]
<1> DEFINE old == IF c[t] # NoEntry THEN c[t].flags ELSE FreshIn(base, t)
           d == ModifyCoins(c, base, t, v)
<1>1. old \in SUBSET Flags /\ ("FRESH" \in old => Value(base[t]) = Pruned)
  BY ValuesDistinct DEF FlagsSoundIn, FreshIn, Value, Caches, Entry, Flags
<1>2. /\ d[t] = IF "FRESH" \in old /\ v = Pruned
                THEN NoEntry
                ELSE [coins |-> v, flags |-> old \cup {"DIRTY"}]
      /\ \A s \in Txids \ {t} : d[s] = c[s]
  BY DEF ModifyCoins, Caches
<1>3. CASE "FRESH" \in old /\ v = Pruned
  <2>1. d[t] = NoEntry
    BY <1>2, <1>3
  <2> QED
    BY <2>1, <1>1, <1>2, <1>3 DEF FlagsSoundIn, GetCoins
<1>4. CASE ~("FRESH" \in old /\ v = Pruned)
  <2>1. d[t] = [coins |-> v, flags |-> old \cup {"DIRTY"}]
    BY <1>2, <1>4
  <2>2. d[t] # NoEntry
    BY <2>1, <1>1, ValuesDistinct DEF Entry, Flags
  <2>3. "DIRTY" \in d[t].flags /\ ("FRESH" \in d[t].flags => Value(base[t]) = Pruned)
    BY <2>1, <1>1
  <2>4. FlagsSoundIn(d, base)
    BY <2>3, <1>2 DEF FlagsSoundIn
  <2> QED
    BY <2>1, <2>2, <2>4, <1>2, ValuesDistinct DEF GetCoins, Value
<1> HIDE DEF old, d
<1> QED
  BY <1>3, <1>4 DEF d

\* Flushing a child cache into c, on the map base below: a reader of c then
\* sees what a reader of the child saw, and the flags of c stay sound.
LEMMA FlushPublishes ==
    ASSUME NEW c \in Caches, NEW child \in Caches, NEW base \in Answers,
           FlagsSoundIn(c, base), FlagsSoundIn(child, GetAll(c, base)),
           \A t \in Txids :
              (child[t] # NoEntry /\ c[t] = NoEntry) => "FRESH" \in child[t].flags
    PROVE  /\ FlagsSoundIn(BatchWrite(c, child), base)
           /\ \A t \in Txids :
                 Value(GetCoins(BatchWrite(c, child), base, t))
                    = Value(GetCoins(child, GetAll(c, base), t))
<1> DEFINE d == BatchWrite(c, child)
<1>1. ASSUME NEW t \in Txids
      PROVE  /\ Value(GetCoins(d, base, t)) = Value(GetCoins(child, GetAll(c, base), t))
             /\ d[t] # NoEntry =>
                  /\ "FRESH" \in d[t].flags => Value(base[t]) = Pruned
                  /\ "DIRTY" \notin d[t].flags => d[t].coins = Value(base[t])
  <2>1. d[t] = MergeEntry(c[t], child[t])
    BY DEF BatchWrite
  <2>2. /\ c[t] \in Entry \cup {NoEntry}
        /\ child[t] \in Entry \cup {NoEntry}
        /\ GetAll(c, base)[t] = IF c[t] # NoEntry THEN c[t].coins ELSE base[t]
    BY DEF Caches, GetAll, GetCoins
  <2>3. c[t] # NoEntry =>
          /\ "FRESH" \in c[t].flags => Value(base[t]) = Pruned
          /\ "DIRTY" \notin c[t].flags => c[t].coins = Value(base[t])
    BY DEF FlagsSoundIn
  <2>4. child[t] # NoEntry =>
          /\ "FRESH" \in child[t].flags => Value(GetAll(c, base)[t]) = Pruned
          /\ "DIRTY" \notin child[t].flags => child[t].coins = Value(GetAll(c, base)[t])
    BY DEF FlagsSoundIn
  <2>5. CASE child[t] = NoEntry \/ "DIRTY" \notin child[t].flags
    <3>1. d[t] = c[t]
      BY <2>1, <2>5 DEF MergeEntry
    <3>2. Value(GetCoins(d, base, t)) = Value(GetAll(c, base)[t])
      BY <3>1, <2>2 DEF GetCoins
    <3>3. Value(GetCoins(child, GetAll(c, base), t)) = Value(GetAll(c, base)[t])
      BY <2>4, <2>5, <2>2, ValuesDistinct DEF GetCoins, Value, Entry
    <3> QED
      BY <3>1, <3>2, <3>3, <2>3
  <2>6. CASE child[t] # NoEntry /\ "DIRTY" \in child[t].flags /\ c[t] = NoEntry
    <3>1. Value(base[t]) = Pruned
      BY <2>6, <2>4, <2>2
    <3>2. d[t] = IF child[t].coins = Pruned THEN NoEntry
                 ELSE [coins |-> child[t].coins, flags |-> {"DIRTY", "FRESH"}]
      BY <2>1, <2>6 DEF MergeEntry
    <3> QED
      BY <3>1, <3>2, <2>2, <2>6, ValuesDistinct DEF GetCoins, Value, Entry, Flags
  <2>7. CASE child[t] # NoEntry /\ "DIRTY" \in child[t].flags /\ c[t] # NoEntry
    <3>1. d[t] = IF "FRESH" \in c[t].flags /\ child[t].coins = Pruned THEN NoEntry
                 ELSE [coins |-> child[t].coins, flags |-> c[t].flags \cup {"DIRTY"}]
      BY <2>1, <2>7 DEF MergeEntry
    <3>2. CASE "FRESH" \in c[t].flags /\ child[t].coins = Pruned
      BY <3>1, <3>2, <2>3, <2>7, ValuesDistinct DEF GetCoins, Value
    <3>3. CASE ~("FRESH" \in c[t].flags /\ child[t].coins = Pruned)
      <4>1. /\ d[t].coins = child[t].coins
            /\ d[t].flags = c[t].flags \cup {"DIRTY"}
            /\ d[t] # NoEntry
        BY <3>1, <3>3, <2>2, <2>7, ValuesDistinct DEF Entry, Flags
      <4> QED
        BY <4>1, <2>3, <2>7 DEF GetCoins
    <3> QED
      BY <3>2, <3>3
  <2> QED
    BY <2>5, <2>6, <2>7
<1> HIDE DEF d
<1> QED
  BY <1>1 DEF FlagsSoundIn, d

\* Writing the cache c into the database d leaves what a reader of c saw.
LEMMA WritePersists ==
    ASSUME NEW c \in Caches, NEW d \in [Txids -> Coins \cup {Missing}],
           FlagsSoundIn(c, d)
    PROVE  /\ BatchWriteCoins(d, c) \in [Txids -> Coins \cup {Missing}]
           /\ \A t \in Txids : Value(BatchWriteCoins(d, c)[t]) = Value(GetCoins(c, d, t))
<1>1. ASSUME NEW t \in Txids
      PROVE  /\ BatchWriteCoins(d, c)[t] \in Coins \cup {Missing}
             /\ Value(BatchWriteCoins(d, c)[t]) = Value(GetCoins(c, d, t))
  <2>1. c[t] \in Entry \cup {NoEntry} /\ d[t] \in Coins \cup {Missing}
    BY DEF Caches
  <2>2. CASE c[t] = NoEntry
    BY <2>1, <2>2 DEF BatchWriteCoins, GetCoins
  <2>3. CASE c[t] # NoEntry /\ "DIRTY" \notin c[t].flags
    <3>1. c[t].coins = Value(d[t]) /\ c[t].coins \in Coins \cup {Pruned}
      BY <2>1, <2>3 DEF FlagsSoundIn, Entry
    <3> QED
      BY <3>1, <2>1, <2>3, ValuesDistinct DEF BatchWriteCoins, GetCoins, Value
  <2>4. CASE c[t] # NoEntry /\ "DIRTY" \in c[t].flags
    BY <2>1, <2>4, ValuesDistinct DEF BatchWriteCoins, GetCoins, Value, Entry
  <2> QED
    BY <2>2, <2>3, <2>4
<1>2. BatchWriteCoins(d, c) = [t \in Txids |-> BatchWriteCoins(d, c)[t]]
  BY DEF BatchWriteCoins
<1> QED
  BY <1>1, <1>2

-----------------------------------------------------------------------------
(* One lemma per action: CacheInv is kept, and what a reader sees changes   *)
(* as the abstract action of UtxoStore says.                                *)

\* The three layers, as the lemmas above want them.
LEMMA Layers ==
    ASSUME CacheInv
    PROVE  /\ tip \in Caches /\ view \in Caches
           /\ db \in Answers /\ GetAll(tip, db) \in Answers
           /\ FlagsSoundIn(tip, db) /\ FlagsSoundIn(view, GetAll(tip, db))
           /\ TipCoins = [t \in Txids |-> Value(GetAll(tip, db)[t])]
           /\ TipCoins \in [Txids -> Coins \cup {Pruned}]
           /\ AllPruned \in [Txids -> Coins \cup {Pruned}]
           /\ EmptyCache \in Caches
           /\ \A base \in Answers : /\ GetAll(EmptyCache, base) = base
                                    /\ FlagsSoundIn(EmptyCache, base)
<1>1. tip \in Caches /\ view \in Caches /\ db \in Answers
  BY DEF CacheInv, TypeOK, Caches, Answers
<1>2. GetAll(tip, db) \in Answers
  BY <1>1, CacheTypes
<1>3. EmptyCache \in Caches
  BY DEF EmptyCache, Caches
<1>4. ASSUME NEW base \in Answers
      PROVE  GetAll(EmptyCache, base) = base /\ FlagsSoundIn(EmptyCache, base)
  BY DEF EmptyCache, GetAll, GetCoins, Answers, FlagsSoundIn
<1>5. TipCoins = [t \in Txids |-> Value(GetAll(tip, db)[t])]
  BY DEF TipCoins, GetAll
<1>6. TipCoins \in [Txids -> Coins \cup {Pruned}]
  BY <1>2, <1>5 DEF Answers, Value
<1>7. AllPruned \in [Txids -> Coins \cup {Pruned}]
  BY DEF AllPruned
<1> QED
  BY <1>1, <1>2, <1>3, <1>4, <1>5, <1>6, <1>7 DEF CacheInv, FlagsSound

\* A fresh scratch view shows what pcoinsTip shows.
LEMMA OpenViewStep ==
    ASSUME CacheInv, OpenView
    PROVE  /\ CacheInv' /\ TipCoins' = TipCoins /\ DbCoins' = DbCoins
           /\ GetBestBlock' = GetBestBlock /\ ViewCoins' = TipCoins
<1>1. /\ db' = db /\ dbBest' = dbBest /\ tip' = tip /\ view' = EmptyCache
      /\ viewOpen' = TRUE /\ tipBest' = GetBestBlock /\ intended' = TipCoins
  BY DEF OpenView
<1>2. GetBestBlock' = GetBestBlock /\ tipBest' \in Blocks \cup {NullHash}
  BY <1>1, BlocksAssumption DEF GetBestBlock, CacheInv, TypeOK
<1>3. TypeOK'
  BY <1>1, <1>2, Layers DEF CacheInv, TypeOK, Caches
<1>4. FlagsSound'
  BY <1>1, Layers DEF FlagsSound
<1>5. PulledThroughTip'
  BY <1>1 DEF PulledThroughTip, EmptyCache
<1>6. TipCoins' = TipCoins /\ DbCoins' = DbCoins
  BY <1>1 DEF TipCoins, DbCoins
<1>7. ViewCoins' = TipCoins
  BY <1>1 DEF ViewCoins, TipCoins, EmptyCache, GetCoins, GetAll
<1>8. ViewAsIntended'
  BY <1>1, <1>7 DEF ViewAsIntended
<1> QED
  BY <1>2, <1>3, <1>4, <1>5, <1>6, <1>7, <1>8 DEF CacheInv

\* Reading through the scratch view changes nothing a reader sees.
LEMMA ViewFetchStep ==
    ASSUME CacheInv, NEW t \in Txids, ViewFetch(t)
    PROVE  /\ CacheInv' /\ TipCoins' = TipCoins /\ DbCoins' = DbCoins
           /\ GetBestBlock' = GetBestBlock /\ ViewCoins' = ViewCoins
<1> DEFINE base == GetAll(tip, db)
<1>1. /\ db' = db /\ dbBest' = dbBest /\ tipBest' = tipBest
      /\ viewOpen /\ viewOpen' = viewOpen /\ intended' = intended
      /\ view' = FetchCoins(view, base, t)
      /\ tip' = tip \/ tip' = FetchCoins(tip, db, t)
      /\ view[t] = NoEntry => tip' = FetchCoins(tip, db, t)
  BY DEF ViewFetch
<1>2. /\ tip' \in Caches /\ view' \in Caches
      /\ GetAll(tip', db) = base
      /\ FlagsSoundIn(tip', db) /\ FlagsSoundIn(view', base)
      /\ GetAll(view', base) = GetAll(view, base)
      /\ \A s \in Txids : tip[s] # NoEntry => tip'[s] # NoEntry
  <2>1. /\ tip \in Caches /\ view \in Caches /\ db \in Answers /\ base \in Answers
        /\ FlagsSoundIn(tip, db) /\ FlagsSoundIn(view, base)
    BY Layers
  <2> HIDE DEF base
  <2>2. FetchCoins(tip, db, t) \in Caches /\ FetchCoins(view, base, t) \in Caches
    BY <2>1, CacheTypes
  <2>3. /\ GetAll(FetchCoins(tip, db, t), db) = base
        /\ FlagsSoundIn(FetchCoins(tip, db, t), db)
        /\ \A s \in Txids : tip[s] # NoEntry => FetchCoins(tip, db, t)[s] # NoEntry
    BY <2>1, FetchInvisible DEF base
  <2>4. /\ GetAll(FetchCoins(view, base, t), base) = GetAll(view, base)
        /\ FlagsSoundIn(FetchCoins(view, base, t), base)
    BY <2>1, FetchInvisible
  <2>5. GetAll(tip, db) = base
    BY DEF base
  <2> QED
    BY <1>1, <2>1, <2>2, <2>3, <2>4, <2>5
<1>3. TypeOK'
  BY <1>1, <1>2 DEF CacheInv, TypeOK, Caches
<1>4. FlagsSound'
  BY <1>1, <1>2 DEF FlagsSound
<1>5. PulledThroughTip'
  <2> SUFFICES ASSUME NEW s \in Txids, view'[s] # NoEntry, tip'[s] = NoEntry
               PROVE  "FRESH" \in view'[s].flags
    BY DEF PulledThroughTip
  <2>1. tip[s] = NoEntry
    BY <1>2
  <2>2. CASE view[s] # NoEntry
    BY <2>1, <2>2, <1>1, Layers DEF CacheInv, PulledThroughTip, FetchCoins, Caches
  <2>3. CASE view[s] = NoEntry
    <3>1. s = t /\ base[t] # Missing
      BY <2>3, <1>1, Layers DEF FetchCoins, Caches
    <3>2. db[t] # Missing
      BY <3>1, <2>1 DEF GetAll, GetCoins
    <3>3. tip'[t] # NoEntry
      BY <3>1, <3>2, <2>3, <1>1, Layers, FetchInvisible
    <3> QED
      BY <3>1, <3>3
  <2> QED
    BY <2>2, <2>3
<1>6. TipCoins' = TipCoins /\ DbCoins' = DbCoins /\ ViewCoins' = ViewCoins
  BY <1>1, <1>2 DEF TipCoins, DbCoins, ViewCoins, GetAll
<1>7. ViewAsIntended'
  BY <1>1, <1>6 DEF CacheInv, ViewAsIntended
<1> QED
  BY <1>1, <1>3, <1>4, <1>5, <1>6, <1>7 DEF CacheInv, GetBestBlock

\* A CCoinsModifier on the scratch view changes one entry of it.
LEMMA ViewModifyStep ==
    ASSUME CacheInv, NEW t \in Txids, NEW v \in Coins \cup {Pruned}, ViewModify(t, v)
    PROVE  /\ CacheInv' /\ TipCoins' = TipCoins /\ DbCoins' = DbCoins
           /\ GetBestBlock' = GetBestBlock
           /\ ViewCoins' = [ViewCoins EXCEPT ![t] = v]
<1> DEFINE base == GetAll(tip, db)
<1>1. /\ db' = db /\ dbBest' = dbBest /\ tipBest' = tipBest
      /\ viewOpen /\ viewOpen' = viewOpen
      /\ intended' = [intended EXCEPT ![t] = v]
      /\ view' = ModifyCoins(view, base, t, v)
      /\ tip' = tip \/ tip' = FetchCoins(tip, db, t)
      /\ view[t] = NoEntry => tip' = FetchCoins(tip, db, t)
  BY DEF ViewModify
<1>2. /\ tip \in Caches /\ view \in Caches /\ db \in Answers /\ base \in Answers
      /\ FlagsSoundIn(tip, db) /\ FlagsSoundIn(view, base)
  BY Layers
<1> HIDE DEF base
<1>3. FetchCoins(tip, db, t) \in Caches /\ view' \in Caches
  BY <1>1, <1>2, CacheTypes
<1>4. /\ GetAll(tip', db) = base
      /\ FlagsSoundIn(tip', db)
      /\ \A s \in Txids : tip[s] # NoEntry => tip'[s] # NoEntry
  BY <1>1, <1>2, FetchInvisible DEF base
<1>5. /\ FlagsSoundIn(view', base)
      /\ Value(GetCoins(view', base, t)) = v
      /\ \A s \in Txids \ {t} : view'[s] = view[s]
  BY <1>1, <1>2, ModifyChangesOne
<1>6. TypeOK'
  BY <1>1, <1>3 DEF CacheInv, TypeOK, Caches
<1>7. FlagsSound'
  BY <1>1, <1>4, <1>5 DEF FlagsSound
<1>8. PulledThroughTip'
  <2> SUFFICES ASSUME NEW s \in Txids, view'[s] # NoEntry, tip'[s] = NoEntry
               PROVE  "FRESH" \in view'[s].flags
    BY DEF PulledThroughTip
  <2>1. tip[s] = NoEntry
    BY <1>4
  <2>2. CASE s # t
    BY <2>1, <2>2, <1>5 DEF CacheInv, PulledThroughTip
  <2>3. CASE s = t /\ view[s] # NoEntry
    <3>1. "FRESH" \in view[t].flags
      BY <2>1, <2>3 DEF CacheInv, PulledThroughTip
    <3> QED
      BY <3>1, <2>3, <1>1, <1>2 DEF ModifyCoins, Caches
  <2>4. CASE s = t /\ view[s] = NoEntry
    <3>1. db[t] = Missing
      BY <2>4, <1>1, <1>2, FetchInvisible
    <3>2. base[t] = Missing
      BY <3>1, <2>1, <2>4 DEF base, GetAll, GetCoins
    <3> QED
      BY <3>2, <2>4, <1>1, <1>2 DEF ModifyCoins, FreshIn, Caches
  <2> QED
    BY <2>2, <2>3, <2>4
<1>9. TipCoins' = TipCoins /\ DbCoins' = DbCoins
  BY <1>1, <1>4 DEF TipCoins, DbCoins, GetAll, base
<1>10. ViewCoins' = [ViewCoins EXCEPT ![t] = v]
  <2>1. ViewCoins = [s \in Txids |-> Value(GetCoins(view, base, s))]
    BY DEF ViewCoins, base
  <2>2. ViewCoins' = [s \in Txids |-> Value(GetCoins(view', base, s))]
    BY <1>1, <1>4 DEF ViewCoins
  <2>3. \A s \in Txids \ {t} : GetCoins(view', base, s) = GetCoins(view, base, s)
    BY <1>5 DEF GetCoins
  <2> QED
    BY <2>1, <2>2, <2>3, <1>5
<1>11. ViewAsIntended'
  BY <1>1, <1>10 DEF CacheInv, ViewAsIntended
<1> QED
  BY <1>1, <1>6, <1>7, <1>8, <1>9, <1>10, <1>11 DEF CacheInv, GetBestBlock

\* Flushing the scratch view publishes it in pcoinsTip.
LEMMA FlushViewStep ==
    ASSUME CacheInv, NEW b \in Blocks, FlushView(b)
    PROVE  /\ CacheInv' /\ TipCoins' = ViewCoins /\ ViewCoins = CoinsAt[b]
           /\ DbCoins' = DbCoins /\ GetBestBlock' = b
<1>1. /\ db' = db /\ dbBest' = dbBest /\ tipBest' = b /\ viewOpen' = FALSE
      /\ tip' = BatchWrite(tip, view) /\ view' = EmptyCache /\ intended' = AllPruned
  BY DEF FlushView
<1>2. /\ tip \in Caches /\ view \in Caches /\ db \in Answers
      /\ FlagsSoundIn(tip, db) /\ FlagsSoundIn(view, GetAll(tip, db))
      /\ EmptyCache \in Caches /\ AllPruned \in [Txids -> Coins \cup {Pruned}]
      /\ \A base \in Answers : FlagsSoundIn(EmptyCache, base)
  BY Layers
<1>3. tip' \in Caches /\ GetAll(tip', db) \in Answers
  BY <1>1, <1>2, CacheTypes
<1>4. /\ FlagsSoundIn(tip', db)
      /\ \A t \in Txids : Value(GetCoins(tip', db, t))
                            = Value(GetCoins(view, GetAll(tip, db), t))
  BY <1>1, <1>2, FlushPublishes DEF CacheInv, PulledThroughTip
<1>5. TypeOK'
  BY <1>1, <1>2, <1>3 DEF CacheInv, TypeOK, Caches
<1>6. FlagsSound'
  BY <1>1, <1>2, <1>3, <1>4 DEF FlagsSound
<1>7. PulledThroughTip'
  BY <1>1 DEF PulledThroughTip, EmptyCache
<1>8. TipCoins' = ViewCoins /\ DbCoins' = DbCoins
  BY <1>1, <1>4 DEF TipCoins, ViewCoins, DbCoins
<1>9. GetBestBlock' = b
  BY <1>1, BlocksAssumption DEF GetBestBlock
<1>10. ViewCoins = CoinsAt[b] /\ ViewAsIntended'
  BY <1>1 DEF FlushView, CacheInv, ViewAsIntended
<1> QED
  BY <1>5, <1>6, <1>7, <1>8, <1>9, <1>10 DEF CacheInv

\* Destroying the scratch view changes nothing below it.
LEMMA DropViewStep ==
    ASSUME CacheInv, DropView
    PROVE  /\ CacheInv' /\ TipCoins' = TipCoins /\ DbCoins' = DbCoins
           /\ GetBestBlock' = GetBestBlock
<1>1. /\ db' = db /\ dbBest' = dbBest /\ tip' = tip /\ tipBest' = tipBest
      /\ view' = EmptyCache /\ viewOpen' = FALSE /\ intended' = AllPruned
  BY DEF DropView
<1>2. TypeOK'
  BY <1>1, Layers DEF CacheInv, TypeOK, Caches
<1>3. FlagsSound'
  BY <1>1, Layers DEF FlagsSound
<1>4. PulledThroughTip'
  BY <1>1 DEF PulledThroughTip, EmptyCache
<1>5. ViewAsIntended'
  BY <1>1 DEF ViewAsIntended
<1> QED
  BY <1>1, <1>2, <1>3, <1>4, <1>5 DEF CacheInv, TipCoins, DbCoins, GetBestBlock

\* Reading through pcoinsTip changes nothing a reader sees.
LEMMA TipFetchStep ==
    ASSUME CacheInv, NEW t \in Txids, TipFetch(t)
    PROVE  /\ CacheInv' /\ TipCoins' = TipCoins /\ DbCoins' = DbCoins
           /\ GetBestBlock' = GetBestBlock /\ ViewCoins' = ViewCoins
<1>1. /\ db' = db /\ dbBest' = dbBest /\ tipBest' = tipBest
      /\ view' = view /\ viewOpen' = viewOpen /\ tip' = FetchCoins(tip, db, t)
      /\ intended' = intended
  BY DEF TipFetch
<1>2. /\ tip \in Caches /\ db \in Answers /\ FlagsSoundIn(tip, db)
  BY Layers
<1>3. /\ tip' \in Caches
      /\ GetAll(tip', db) = GetAll(tip, db)
      /\ FlagsSoundIn(tip', db)
      /\ \A s \in Txids : tip[s] # NoEntry => tip'[s] # NoEntry
  <2>1. tip' \in Caches
    BY <1>1, <1>2, CacheTypes
  <2> QED
    BY <2>1, <1>1, <1>2, FetchInvisible
<1>4. TypeOK'
  BY <1>1, <1>3 DEF CacheInv, TypeOK, Caches
<1>5. FlagsSound'
  BY <1>1, <1>3 DEF CacheInv, FlagsSound
<1>6. PulledThroughTip'
  BY <1>1, <1>3 DEF CacheInv, PulledThroughTip
<1>7. TipCoins' = TipCoins /\ DbCoins' = DbCoins /\ ViewCoins' = ViewCoins
  BY <1>1, <1>3 DEF TipCoins, DbCoins, ViewCoins, GetAll
<1>8. ViewAsIntended'
  BY <1>1, <1>7 DEF CacheInv, ViewAsIntended
<1> QED
  BY <1>1, <1>4, <1>5, <1>6, <1>7, <1>8 DEF CacheInv, GetBestBlock

\* An empty stack of caches over a database of the right type.
LEMMA EmptyCaches ==
    ASSUME CacheInv, tip' = EmptyCache, view' = EmptyCache, viewOpen' = FALSE,
           db' \in [Txids -> Coins \cup {Missing}], dbBest' \in Blocks,
           tipBest' \in Blocks \cup {NullHash}, intended' \in {intended, AllPruned}
    PROVE  CacheInv' /\ TipCoins' = DbCoins'
<1>1. db' \in Answers
  BY DEF Answers
<1>2. /\ EmptyCache \in Caches /\ GetAll(EmptyCache, db') = db'
      /\ FlagsSoundIn(EmptyCache, db')
  BY <1>1, Layers
<1>3. TypeOK'
  BY <1>2, Layers DEF CacheInv, TypeOK, Caches
<1>4. FlagsSound' /\ PulledThroughTip' /\ ViewAsIntended'
  BY <1>2 DEF FlagsSound, PulledThroughTip, EmptyCache, ViewAsIntended
<1>5. TipCoins' = DbCoins'
  BY DEF TipCoins, DbCoins, GetCoins, EmptyCache
<1> QED
  BY <1>3, <1>4, <1>5 DEF CacheInv

\* Flushing pcoinsTip makes it durable, and stays invisible above.
LEMMA FlushTipStep ==
    ASSUME CacheInv, FlushTip
    PROVE  /\ CacheInv' /\ TipCoins' = TipCoins /\ DbCoins' = TipCoins
           /\ GetBestBlock' = GetBestBlock /\ dbBest' = GetBestBlock
<1>1. /\ db' = BatchWriteCoins(db, tip) /\ tip' = EmptyCache /\ tipBest' = tipBest
      /\ dbBest' = BatchWriteHashBestChain(dbBest, tipBest)
      /\ view' = EmptyCache /\ viewOpen' = FALSE /\ intended' = intended
  BY DEF FlushTip, CacheInv, TypeOK
<1>2. /\ db' \in [Txids -> Coins \cup {Missing}]
      /\ \A t \in Txids : Value(db'[t]) = Value(GetCoins(tip, db, t))
  BY <1>1, Layers, WritePersists DEF CacheInv, TypeOK
<1>3. dbBest' = GetBestBlock /\ GetBestBlock' = GetBestBlock /\ dbBest' \in Blocks
  BY <1>1, BlocksAssumption DEF BatchWriteHashBestChain, GetBestBlock, CacheInv, TypeOK
<1>4. CacheInv' /\ TipCoins' = DbCoins'
  BY <1>1, <1>2, <1>3, EmptyCaches DEF CacheInv, TypeOK
<1>5. DbCoins' = TipCoins
  BY <1>2 DEF DbCoins, TipCoins
<1> QED
  BY <1>3, <1>4, <1>5

\* A restart falls back to the coin database.
LEMMA RestartStep ==
    ASSUME CacheInv, Restart
    PROVE  /\ CacheInv' /\ TipCoins' = DbCoins /\ DbCoins' = DbCoins
           /\ GetBestBlock' = dbBest
<1>1. /\ db' = db /\ dbBest' = dbBest /\ tipBest' = NullHash
      /\ tip' = EmptyCache /\ view' = EmptyCache /\ viewOpen' = FALSE
      /\ intended' = AllPruned
  BY DEF Restart
<1>2. CacheInv' /\ TipCoins' = DbCoins'
  BY <1>1, EmptyCaches DEF CacheInv, TypeOK
<1> QED
  BY <1>1, <1>2 DEF DbCoins, GetBestBlock

\* A failed write empties pcoinsTip and keeps the flags sound.
LEMMA FlushTipFailsStep ==
    ASSUME CacheInv, FlushTipFails
    PROVE  CacheInv'
<1>1. /\ db' = db /\ dbBest' = dbBest /\ tipBest' = tipBest
      /\ tip' = EmptyCache /\ view' = EmptyCache /\ viewOpen' = FALSE
      /\ intended' = intended
  BY DEF FlushTipFails, CacheInv, TypeOK
<1> QED
  BY <1>1, EmptyCaches DEF CacheInv, TypeOK

\* The state InitBlockIndex leaves satisfies the invariant.
LEMMA InitState ==
    ASSUME Init
    PROVE  Inv
<1>1. TypeOK
  BY BlocksAssumption DEF Init, TypeOK, EmptyCache, AllPruned
<1>2. FlagsSound /\ PulledThroughTip /\ ViewAsIntended
  BY DEF Init, FlagsSound, FlagsSoundIn, PulledThroughTip, EmptyCache, ViewAsIntended
<1>3. TipCoins = CoinsAt[Genesis] /\ DbCoins = CoinsAt[Genesis]
  BY BlocksAssumption DEF Init, TipCoins, DbCoins, GetCoins, Value, EmptyCache
<1> QED
  BY <1>1, <1>2, <1>3
  DEF Inv, CacheInv, TipMatchesBestBlock, DbMatchesBestBlock, GetBestBlock, Init

\* A stuttering step changes nothing.
LEMMA StutterStep ==
    ASSUME UNCHANGED vars
    PROVE  /\ CacheInv => CacheInv'
           /\ TipCoins' = TipCoins /\ DbCoins' = DbCoins /\ ViewCoins' = ViewCoins
           /\ GetBestBlock' = GetBestBlock
  BY DEF vars, CacheInv, TypeOK, FlagsSound, PulledThroughTip, ViewAsIntended,
         TipCoins, DbCoins, ViewCoins, GetBestBlock

-----------------------------------------------------------------------------
\* Every step, a failed write included, keeps what the caches rely on.
LEMMA CacheInvStep ==
    ASSUME CacheInv, [NextWithWriteFailure]_vars
    PROVE  CacheInv'
<1>1. CASE OpenView
  BY <1>1, OpenViewStep
<1>2. ASSUME NEW t \in Txids, ViewFetch(t) PROVE CacheInv'
  BY <1>2, ViewFetchStep
<1>3. ASSUME NEW t \in Txids, NEW v \in Coins \cup {Pruned}, ViewModify(t, v)
      PROVE  CacheInv'
  BY <1>3, ViewModifyStep
<1>4. ASSUME NEW b \in Blocks, FlushView(b) PROVE CacheInv'
  BY <1>4, FlushViewStep
<1>5. CASE DropView
  BY <1>5, DropViewStep
<1>6. ASSUME NEW t \in Txids, TipFetch(t) PROVE CacheInv'
  BY <1>6, TipFetchStep
<1>7. CASE FlushTip
  BY <1>7, FlushTipStep
<1>8. CASE Restart
  BY <1>8, RestartStep
<1>9. CASE FlushTipFails
  BY <1>9, FlushTipFailsStep
<1>10. CASE UNCHANGED vars
  BY <1>10, StutterStep
<1> QED
  BY <1>1, <1>2, <1>3, <1>4, <1>5, <1>6, <1>7, <1>8, <1>9, <1>10
  DEF NextWithWriteFailure, Next

\* Without a failed write, the caches and the database also stay the coins
\* of the blocks they name.
LEMMA InvStep ==
    ASSUME Inv, [Next]_vars
    PROVE  Inv'
<1> USE DEF Inv, TipMatchesBestBlock, DbMatchesBestBlock
<1>0. CacheInv'
  BY CacheInvStep DEF NextWithWriteFailure
<1>1. CASE OpenView
  BY <1>0, <1>1, OpenViewStep DEF OpenView
<1>2. ASSUME NEW t \in Txids, ViewFetch(t) PROVE Inv'
  BY <1>0, <1>2, ViewFetchStep DEF ViewFetch
<1>3. ASSUME NEW t \in Txids, NEW v \in Coins \cup {Pruned}, ViewModify(t, v)
      PROVE  Inv'
  BY <1>0, <1>3, ViewModifyStep DEF ViewModify
<1>4. ASSUME NEW b \in Blocks, FlushView(b) PROVE Inv'
  BY <1>0, <1>4, FlushViewStep DEF FlushView
<1>5. CASE DropView
  BY <1>0, <1>5, DropViewStep DEF DropView
<1>6. ASSUME NEW t \in Txids, TipFetch(t) PROVE Inv'
  BY <1>0, <1>6, TipFetchStep DEF TipFetch
<1>7. CASE FlushTip
  BY <1>0, <1>7, FlushTipStep
<1>8. CASE Restart
  BY <1>0, <1>8, RestartStep DEF Restart
<1>9. CASE UNCHANGED vars
  BY <1>0, <1>9, StutterStep DEF vars
<1> QED
  BY <1>1, <1>2, <1>3, <1>4, <1>5, <1>6, <1>7, <1>8, <1>9 DEF Next

\* The variables of CoinsView keep their types (coins.h, txdb.h).
THEOREM TypeCorrect == Spec => []TypeOK
<1>1. Init => Inv
  BY InitState
<1>2. Inv /\ [Next]_vars => Inv'
  BY InvStep
<1>3. Inv => TypeOK
  BY DEF Inv, CacheInv
<1> QED
  BY <1>1, <1>2, <1>3, PTL DEF Spec

\* Whenever the process dies, the coin database holds exactly the coins of
\* the block it names, and so does pcoinsTip while it runs: what
\* CCoinsViewCache::Flush and CCoinsViewDB::BatchWrite are for.
THEOREM ConsistentAtBestBlock == Spec => [](TipMatchesBestBlock /\ DbMatchesBestBlock)
<1>1. Init => Inv
  BY InitState
<1>2. Inv /\ [Next]_vars => Inv'
  BY InvStep
<1>3. Inv => TipMatchesBestBlock /\ DbMatchesBestBlock
  BY DEF Inv
<1> QED
  BY <1>1, <1>2, <1>3, PTL DEF Spec

\* DIRTY and FRESH mean what coins.h says in both caches, even when writes
\* to LevelDB fail.
THEOREM FlagsAlwaysSound == SpecWithWriteFailure => []FlagsSound
<1>1. Init => CacheInv
  BY InitState DEF Inv
<1>2. CacheInv /\ [NextWithWriteFailure]_vars => CacheInv'
  BY CacheInvStep
<1>3. CacheInv => FlagsSound
  BY DEF CacheInv
<1> QED
  BY <1>1, <1>2, <1>3, PTL DEF SpecWithWriteFailure

\* A scratch view shows its owner what it found and wrote, even when writes
\* to LevelDB fail.
THEOREM ViewsFaithful == SpecWithWriteFailure => []ViewAsIntended
<1>1. Init => CacheInv
  BY InitState DEF Inv
<1>2. CacheInv /\ [NextWithWriteFailure]_vars => CacheInv'
  BY CacheInvStep
<1>3. CacheInv => ViewAsIntended
  BY DEF CacheInv
<1> QED
  BY <1>1, <1>2, <1>3, PTL DEF SpecWithWriteFailure

\* The assert in CCoinsViewCache::BatchWrite never fires, even when writes to
\* LevelDB fail.
THEOREM AssertNeverFires == SpecWithWriteFailure => []BatchWriteAssertHolds
<1>1. Init => CacheInv
  BY InitState DEF Inv
<1>2. CacheInv /\ [NextWithWriteFailure]_vars => CacheInv'
  BY CacheInvStep
<1>3. CacheInv => BatchWriteAssertHolds
  BY DEF CacheInv, PulledThroughTip, BatchWriteAssertHolds, MergeAssert
<1> QED
  BY <1>1, <1>2, <1>3, PTL DEF SpecWithWriteFailure

\* Every step of the caches is a step of the transactional map, or none.
LEMMA RefinementStep ==
    ASSUME Inv, Inv', [Next]_vars
    PROVE  [Store!Next]_(Store!storeVars)
<1> USE DEF Store!Next, Store!storeVars
<1> DEFINE scratch == IF viewOpen THEN ViewCoins ELSE NoEntry
<1>0. viewOpen => scratch = ViewCoins /\ scratch # NoEntry
  <2>1. ViewCoins \in [Txids -> Coins \cup {Pruned}]
    <3>1. \A t \in Txids : GetCoins(view, GetAll(tip, db), t) \in Coins \cup {Pruned, Missing}
      BY CacheTypes, Layers DEF Inv, GetAll, Answers
    <3> QED
      BY <3>1 DEF ViewCoins, Value
  <2> QED
    BY <2>1, ValuesDistinct
<1>1. CASE OpenView
  <2>1. Store!Begin
    BY <1>1, OpenViewStep DEF Inv, OpenView, Store!Begin
  <2> QED
    BY <2>1
<1>2. ASSUME NEW t \in Txids, ViewFetch(t)
      PROVE  UNCHANGED Store!storeVars
  BY <1>2, ViewFetchStep DEF Inv, ViewFetch
<1>3. ASSUME NEW t \in Txids, NEW v \in Coins \cup {Pruned}, ViewModify(t, v)
      PROVE  Store!Change(t, v)
  BY <1>0, <1>3, ViewModifyStep DEF Inv, ViewModify, Store!Change
<1>4. ASSUME NEW b \in Blocks, FlushView(b)
      PROVE  Store!Publish(b)
  BY <1>4, FlushViewStep DEF Inv, FlushView, Store!Publish
<1>5. CASE DropView
  <2>1. Store!Drop
    BY <1>5, DropViewStep DEF Inv, DropView, Store!Drop
  <2> QED
    BY <2>1
<1>6. ASSUME NEW t \in Txids, TipFetch(t)
      PROVE  UNCHANGED Store!storeVars
  BY <1>6, TipFetchStep DEF Inv, TipFetch
<1>7. CASE FlushTip
  <2>1. Store!Persist
    BY <1>7, FlushTipStep DEF Inv, FlushTip, Store!Persist
  <2> QED
    BY <2>1
<1>8. CASE Restart
  <2>1. Store!Recover
    BY <1>8, RestartStep DEF Inv, Restart, Store!Recover
  <2> QED
    BY <2>1
<1>9. CASE UNCHANGED vars
  BY <1>9, StutterStep DEF vars
<1> HIDE DEF scratch
<1> QED
  BY <1>1, <1>2, <1>3, <1>4, <1>5, <1>6, <1>7, <1>8, <1>9 DEF Next

\* Seen through GetCoins and GetBestBlock, scratch view, pcoinsTip and
\* LevelDB are the transactional map of UtxoStore.
THEOREM CachesTransparent == Spec => ImplementsStore
<1>1. Init => Inv
  BY InitState
<1>2. Inv /\ [Next]_vars => Inv'
  BY InvStep
<1>3. Init => Store!Init
  <2> SUFFICES ASSUME Init PROVE Store!Init
    OBVIOUS
  <2>1. Inv
    BY InitState
  <2>2. GetBestBlock = Genesis /\ ~viewOpen /\ dbBest = Genesis
    BY DEF Init, GetBestBlock
  <2> QED
    BY <2>1, <2>2 DEF Store!Init, Inv, TipMatchesBestBlock, DbMatchesBestBlock
<1>4. Inv /\ Inv' /\ [Next]_vars => [Store!Next]_(Store!storeVars)
  BY RefinementStep
<1> QED
  BY <1>1, <1>2, <1>3, <1>4, PTL DEF Spec, ImplementsStore, Store!Spec
=============================================================================
