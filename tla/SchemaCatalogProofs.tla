------------------------- MODULE SchemaCatalogProofs -------------------------
(***************************************************************************)
(* Proofs about SchemaCatalog, for any threads, tables, TTL, limits, and   *)
(* about DomainRegistry, for any callers, texts, TTL and limits.           *)
(***************************************************************************)
EXTENDS SchemaCatalog, DomainRegistry, FiniteSetTheorems, SequenceTheorems,
        WellFoundedInduction, TLAPS

Loaded == {"columns", "meta", "store"}

\* A thread in a call has a table, and a thread that loads has an entry.
LocalsOK == \A t \in Threads :
    /\ pc[t] # "idle" => table[t] \in Tables
    /\ pc[t] \in Loaded => row[t] \in Entries

\* The thread that reads the file holds the lock.
LockOwned == \A t \in Threads : pc[t] = "install" <=> lock = t

\* What a reload has read is the file, unless the file was written meanwhile.
Followed ==
    ~torn => IF Unlocked THEN semantic = mtime ELSE text[lock] = file

\* What a thread has read is current, or was changed after the thread took the time.
RowFresh == \A t \in Threads :
    /\ start[t] <= now
    /\ pc[t] \in Loaded =>
          row[t].schema = database[table[t]] \/ start[t] <= changed[table[t]]
    /\ pc[t] \in {"meta", "store"} => row[t].columns = semantic \/ start[t] <= reloaded
    /\ pc[t] = "store" => row[t].meta = semantic \/ start[t] <= reloaded

\* So a cached entry is current or expires within the TTL of the change.
CacheFresh == \A k \in Tables : cache[k] # NoEntry =>
    /\ cache[k].expire <= now + TTL
    /\ cache[k].schema = database[k] \/ cache[k].expire <= changed[k] + TTL
    /\ cache[k].columns = semantic \/ cache[k].expire <= reloaded + TTL
    /\ cache[k].meta = semantic \/ cache[k].expire <= reloaded + TTL

IInv == TypeOK /\ edits <= MaxEdits /\ LocalsOK /\ LockOwned /\ Followed /\ RowFresh /\ CacheFresh

Caches == [Tables -> Entries \cup {NoEntry}]

LEMMA NoEntryIsNone == NoEntry \notin Entries
BY CatalogAssumption DEF Entries, Versions

\* The trim only drops entries, and leaves no more than max_entries.
LEMMA TrimmedFits ==
    ASSUME NEW c \in Caches, NEW d \in Trimmed(c)
    PROVE  /\ d \in Caches
           /\ \A k \in Tables : d[k] \in {c[k], NoEntry}
           /\ Cardinality(Cached(d)) <= MaxEntries
<1>1. IsFiniteSet(Cached(c)) /\ Cardinality(Cached(c)) \in Nat
  BY CatalogAssumption, FS_Subset, FS_CardinalityType DEF Cached
<1>2. CASE Cardinality(Cached(c)) <= MaxEntries
  BY <1>2 DEF Trimmed
<1>3. CASE ~(Cardinality(Cached(c)) <= MaxEntries)
  <2>1. PICK old \in SUBSET Cached(c) :
          /\ Cardinality(old) = Cardinality(Cached(c)) - MaxEntries
          /\ d = [k \in Tables |-> IF k \in old THEN NoEntry ELSE c[k]]
    BY <1>3 DEF Trimmed, Excess
  <2>2. d \in Caches /\ \A k \in Tables : d[k] \in {c[k], NoEntry}
    BY <2>1 DEF Caches
  <2>3. Cached(d) = Cached(c) \ old /\ Cached(c) \cap old = old
    BY <2>1 DEF Cached
  <2>4. Cardinality(Cached(d)) = Cardinality(Cached(c)) - Cardinality(old)
    BY <1>1, <2>3, FS_Difference
  <2> QED
    BY <1>1, <2>1, <2>2, <2>4, CatalogAssumption
<1> QED
  BY <1>2, <1>3

LEMMA InitIInv == Init => IInv
<1> SUFFICES ASSUME Init PROVE IInv
  OBVIOUS
<1>1. Cached(cache) = {}
  BY DEF Init, Cached
<1>2. Cardinality(Cached(cache)) <= MaxEntries
  BY <1>1, FS_EmptySet, CatalogAssumption
<1>3. TypeOK
  <2>1. 0 \in Versions /\ 1 \in Versions
    BY CatalogAssumption DEF Versions
  <2> QED
    BY <1>2, <2>1, CatalogAssumption DEF Init, TypeOK, Missing
<1> QED
  BY <1>3, CatalogAssumption DEF Init, IInv, LocalsOK, LockOwned, Followed, Unlocked, RowFresh,
     CacheFresh, Loaded

\* The types of all variables but the cache.
Types ==
    /\ now \in Nat /\ checked \in Nat /\ reloaded \in Nat
    /\ file \in Versions /\ edits \in Nat /\ changes \in Nat
    /\ semantic \in Versions /\ mtime \in Versions
    /\ database \in [Tables -> Schemas]
    /\ changed \in [Tables -> Nat]
    /\ torn \in BOOLEAN
    /\ lock \in Threads \cup {NoThread}
    /\ pc \in [Threads -> {"idle", "check", "reload", "install", "clock", "lookup", "load",
                           "columns", "meta", "store"}]
    /\ table \in [Threads -> Tables \cup {NoTable}]
    /\ start \in [Threads -> Nat]
    /\ row \in [Threads -> Entries \cup {NoEntry}]
    /\ text \in [Threads -> Versions]
    /\ edits <= MaxEdits

CacheOK == cache \in Caches /\ Cardinality(Cached(cache)) <= MaxEntries

LEMMA TypesAre == TypeOK /\ edits <= MaxEdits <=> Types /\ CacheOK
BY DEF TypeOK, Types, CacheOK, Caches

LEMMA MissingIsVersion == Missing \in Versions
BY CatalogAssumption DEF Missing, Versions

LEMMA TypesStep == Types /\ LocalsOK /\ [Next]_vars => Types'
<1> SUFFICES ASSUME Types, LocalsOK, [Next]_vars PROVE Types'
  OBVIOUS
<1> USE CatalogAssumption, MissingIsVersion DEF Types, Goto, world, semantics, local
<1>1. CASE UNCHANGED vars
  BY <1>1 DEF vars
<1>2. ASSUME NEW t \in Threads, Return(t),
             UNCHANGED <<world, semantics, checked, lock>>
      PROVE  Types'
  BY <1>2 DEF Return
<1>3. ASSUME NEW t \in Threads, NEW k \in Tables, Call(t, k) PROVE Types'
  BY <1>3 DEF Call
<1>4. ASSUME NEW t \in Threads, MaybeReload(t) PROVE Types'
  BY <1>4 DEF MaybeReload
<1>5. ASSUME NEW t \in Threads, ReloadRead(t) PROVE Types'
  BY <1>5 DEF ReloadRead
<1>6. ASSUME NEW t \in Threads, ReloadInstall(t) PROVE Types'
  BY <1>6 DEF ReloadInstall, NewSemantics
<1>7. ASSUME NEW t \in Threads, ReadClock(t) PROVE Types'
  BY <1>7 DEF ReadClock
<1>8. ASSUME NEW t \in Threads, Lookup(t) PROVE Types'
  <2>1. CASE Return(t)
    BY <1>2, <1>8, <2>1 DEF Lookup
  <2>2. CASE Goto(t, "load") /\ UNCHANGED <<table, start, row, text>>
    BY <1>8, <2>2 DEF Lookup
  <2> QED
    BY <1>8, <2>1, <2>2 DEF Lookup
<1>9. ASSUME NEW t \in Threads, Load(t) PROVE Types'
  <2>1. Row(database[table[t]]) \in Entries
    BY <1>9 DEF Load, Row, Entries, LocalsOK
  <2> QED
    BY <1>9, <2>1 DEF Load
<1>10. ASSUME NEW t \in Threads, LoadFails(t) PROVE Types'
  BY <1>2, <1>10 DEF LoadFails
<1>11. ASSUME NEW t \in Threads, MergeColumns(t) PROVE Types'
  <2>1. [row[t] EXCEPT !.columns = semantic] \in Entries
    BY <1>11 DEF MergeColumns, Entries, LocalsOK, Loaded
  <2> QED
    BY <1>11, <2>1 DEF MergeColumns
<1>12. ASSUME NEW t \in Threads, MergeMeta(t) PROVE Types'
  <2>1. [row[t] EXCEPT !.meta = semantic] \in Entries
    BY <1>12 DEF MergeMeta, Entries, LocalsOK, Loaded
  <2> QED
    BY <1>12, <2>1 DEF MergeMeta
<1>13. ASSUME NEW t \in Threads, Store(t) PROVE Types'
  BY <1>2, <1>13 DEF Store
<1>14. CASE Tick
  BY <1>14 DEF Tick
<1>15. CASE EditFile
  <2>1. edits + 1 \in Versions
    BY <1>15 DEF EditFile, Versions
  <2> QED
    BY <1>15, <2>1 DEF EditFile
<1>16. ASSUME NEW k \in Tables, ChangeSchema(k) PROVE Types'
  BY <1>16 DEF ChangeSchema
<1> QED
  BY <1>1, <1>3, <1>4, <1>5, <1>6, <1>7, <1>8, <1>9, <1>10, <1>11, <1>12, <1>13, <1>14, <1>15,
     <1>16 DEF Next, ThreadStep

-----------------------------------------------------------------------------
Stored(t) == [cache EXCEPT ![table[t]] = [row[t] EXCEPT !.expire = Expiry(t)]]

\* What store() puts into the cache is an entry with the time the thread took.
LEMMA StoredIs ==
    ASSUME Types, CacheOK, LocalsOK, NEW t \in Threads, Store(t)
    PROVE  /\ table[t] \in Tables /\ row[t] \in Entries
           /\ Stored(t) \in Caches
           /\ \A k \in Tables : k # table[t] => Stored(t)[k] = cache[k]
           /\ Stored(t)[table[t]].expire = start[t] + TTL
           /\ Stored(t)[table[t]].schema = row[t].schema
           /\ Stored(t)[table[t]].columns = row[t].columns
           /\ Stored(t)[table[t]].meta = row[t].meta
<1>1. table[t] \in Tables /\ row[t] \in Entries
  BY DEF Store, LocalsOK, Loaded
<1>2. start[t] + TTL \in Nat
  BY CatalogAssumption DEF Types
<1> DEFINE e == [row[t] EXCEPT !.expire = start[t] + TTL]
<1>3. /\ e \in Entries /\ e.expire = start[t] + TTL /\ e.schema = row[t].schema
      /\ e.columns = row[t].columns /\ e.meta = row[t].meta
  BY <1>1, <1>2 DEF Entries
<1>4. Stored(t) = [cache EXCEPT ![table[t]] = e]
  BY DEF Stored, Expiry
<1> HIDE DEF e
<1> QED
  BY <1>1, <1>3, <1>4 DEF CacheOK, Caches

\* A step leaves the cache alone, empties it or stores an entry.
LEMMA CacheStep ==
    ASSUME [Next]_vars
    PROVE  \/ cache' = cache
           \/ \E t \in Threads : ReloadInstall(t)
           \/ \E t \in Threads : Store(t)
BY DEF Next, vars, ThreadStep, Call, MaybeReload, ReloadRead, ReadClock, Lookup, Load, LoadFails,
       MergeColumns, MergeMeta, Tick, EditFile, ChangeSchema

LEMMA CacheOKStep == Types /\ CacheOK /\ LocalsOK /\ [Next]_vars => CacheOK'
<1> SUFFICES ASSUME Types, CacheOK, LocalsOK, [Next]_vars PROVE CacheOK'
  OBVIOUS
<1>1. CASE cache' = cache
  BY <1>1 DEF CacheOK, Caches, Cached
<1>2. ASSUME NEW t \in Threads, ReloadInstall(t) PROVE CacheOK'
  <2>1. cache' \in Caches /\ Cached(cache') = {}
    BY <1>2 DEF ReloadInstall, Caches, Cached
  <2>2. Cardinality(Cached(cache')) <= MaxEntries
    BY <2>1, FS_EmptySet, CatalogAssumption
  <2> QED
    BY <2>1, <2>2 DEF CacheOK, Cached
<1>3. ASSUME NEW t \in Threads, Store(t) PROVE CacheOK'
  <2>1. Stored(t) \in Caches /\ cache' \in Trimmed(Stored(t))
    BY <1>3, StoredIs DEF Store, Stored
  <2>2. cache' \in Caches /\ Cardinality(Cached(cache')) <= MaxEntries
    BY <2>1, TrimmedFits
  <2> QED
    BY <2>2 DEF CacheOK, Caches, Cached
<1> QED
  BY <1>1, <1>2, <1>3, CacheStep

LEMMA LocalsOKStep == Types /\ LocalsOK /\ [Next]_vars => LocalsOK'
<1> SUFFICES ASSUME Types, LocalsOK, [Next]_vars, NEW u \in Threads
             PROVE  /\ pc'[u] # "idle" => table'[u] \in Tables
                    /\ pc'[u] \in Loaded => row'[u] \in Entries
  BY DEF LocalsOK, Entries
<1>1. CASE UNCHANGED <<pc, table, row>>
  BY <1>1 DEF LocalsOK
<1>2. ASSUME NEW t \in Threads, Return(t) PROVE /\ pc'[u] # "idle" => table'[u] \in Tables
                                                /\ pc'[u] \in Loaded => row'[u] \in Entries
  BY <1>2 DEF Return, Goto, LocalsOK, Types, Loaded
<1>3. ASSUME NEW t \in Threads, NEW k \in Tables, Call(t, k)
      PROVE  /\ pc'[u] # "idle" => table'[u] \in Tables
             /\ pc'[u] \in Loaded => row'[u] \in Entries
  BY <1>3 DEF Call, Goto, LocalsOK, Types, Loaded
<1>4. ASSUME NEW t \in Threads, UNCHANGED <<table, row>>, pc[t] # "idle",
             NEW s \in {"clock", "reload", "install", "lookup", "load"}, Goto(t, s)
      PROVE  /\ pc'[u] # "idle" => table'[u] \in Tables
             /\ pc'[u] \in Loaded => row'[u] \in Entries
  BY <1>4 DEF Goto, LocalsOK, Types, Loaded
<1>5. ASSUME NEW t \in Threads, NEW e \in Entries, row' = [row EXCEPT ![t] = e], table' = table,
             pc[t] # "idle", NEW s \in Loaded, Goto(t, s)
      PROVE  /\ pc'[u] # "idle" => table'[u] \in Tables
             /\ pc'[u] \in Loaded => row'[u] \in Entries
  BY <1>5 DEF Goto, LocalsOK, Types, Loaded
<1>6. ASSUME NEW t \in Threads, Load(t) PROVE \E e \in Entries : row' = [row EXCEPT ![t] = e]
  <2>1. Row(database[table[t]]) \in Entries
    BY <1>6, CatalogAssumption DEF Load, Row, Entries, LocalsOK, Types, Versions, Missing
  <2> QED
    BY <1>6, <2>1 DEF Load
<1>7. ASSUME NEW t \in Threads, MergeColumns(t) PROVE \E e \in Entries : row' = [row EXCEPT ![t] = e]
  <2>1. [row[t] EXCEPT !.columns = semantic] \in Entries
    BY <1>7 DEF MergeColumns, Entries, LocalsOK, Loaded, Types
  <2> QED
    BY <1>7, <2>1 DEF MergeColumns
<1>8. ASSUME NEW t \in Threads, MergeMeta(t) PROVE \E e \in Entries : row' = [row EXCEPT ![t] = e]
  <2>1. [row[t] EXCEPT !.meta = semantic] \in Entries
    BY <1>8 DEF MergeMeta, Entries, LocalsOK, Loaded, Types
  <2> QED
    BY <1>8, <2>1 DEF MergeMeta
<1>9. ASSUME NEW t \in Threads, ThreadStep(t)
      PROVE  /\ pc'[u] # "idle" => table'[u] \in Tables
             /\ pc'[u] \in Loaded => row'[u] \in Entries
  <2>1. CASE MaybeReload(t)
    BY <1>4, <2>1 DEF MaybeReload
  <2>2. CASE ReloadRead(t)
    BY <1>4, <2>2 DEF ReloadRead
  <2>3. CASE ReloadInstall(t)
    BY <1>4, <2>3 DEF ReloadInstall
  <2>4. CASE ReadClock(t)
    BY <1>4, <2>4 DEF ReadClock
  <2>5. CASE Lookup(t)
    BY <1>2, <1>4, <2>5 DEF Lookup
  <2>6. CASE Load(t)
    BY <1>5, <1>6, <2>6 DEF Load, Loaded
  <2>7. CASE LoadFails(t)
    BY <1>2, <2>7 DEF LoadFails
  <2>8. CASE MergeColumns(t)
    BY <1>5, <1>7, <2>8 DEF MergeColumns, Loaded
  <2>9. CASE MergeMeta(t)
    BY <1>5, <1>8, <2>9 DEF MergeMeta, Loaded
  <2>10. CASE Store(t)
    BY <1>2, <2>10 DEF Store
  <2> QED
    BY <1>9, <2>1, <2>2, <2>3, <2>4, <2>5, <2>6, <2>7, <2>8, <2>9, <2>10 DEF ThreadStep
<1> QED
  BY <1>1, <1>3, <1>9 DEF Next, vars, local, Tick, EditFile, ChangeSchema

-----------------------------------------------------------------------------
\* The steps between ReloadRead and ReloadInstall are those of other threads.
LEMMA FollowedStep ==
    Types /\ LockOwned /\ Followed /\ [Next]_vars => LockOwned' /\ Followed'
<1> SUFFICES ASSUME Types, LockOwned, Followed, [Next]_vars PROVE LockOwned' /\ Followed'
  OBVIOUS
<1> USE CatalogAssumption DEF LockOwned, Followed, Unlocked, Goto, world, semantics, local
<1>1. ASSUME UNCHANGED <<file, semantics, lock, text>>,
             \A u \in Threads : pc'[u] = "install" <=> pc[u] = "install"
      PROVE  LockOwned' /\ Followed'
  BY <1>1
<1>2. CASE UNCHANGED vars
  BY <1>1, <1>2 DEF vars
<1>3. ASSUME NEW t \in Threads, Return(t), UNCHANGED <<world, semantics, lock>>, pc[t] # "install"
      PROVE  LockOwned' /\ Followed'
  BY <1>1, <1>3 DEF Return, Types
<1>4. ASSUME NEW t \in Threads, NEW s \in {"check", "clock", "reload", "lookup", "load"} \cup Loaded,
             Goto(t, s), pc[t] # "install", UNCHANGED <<file, semantics, lock, text>>
      PROVE  LockOwned' /\ Followed'
  BY <1>1, <1>4 DEF Types, Loaded
<1>5. ASSUME NEW t \in Threads, NEW k \in Tables, Call(t, k) PROVE LockOwned' /\ Followed'
  BY <1>4, <1>5 DEF Call
<1>6. ASSUME NEW t \in Threads, MaybeReload(t) PROVE LockOwned' /\ Followed'
  BY <1>4, <1>6 DEF MaybeReload
<1>7. ASSUME NEW t \in Threads, ReloadRead(t) PROVE LockOwned' /\ Followed'
  BY <1>7 DEF ReloadRead, Types
<1>8. ASSUME NEW t \in Threads, ReloadInstall(t) PROVE LockOwned' /\ Followed'
  BY <1>8 DEF ReloadInstall, NewSemantics, Types
<1>9. ASSUME NEW t \in Threads, ReadClock(t) PROVE LockOwned' /\ Followed'
  BY <1>4, <1>9 DEF ReadClock
<1>10. ASSUME NEW t \in Threads, Lookup(t) PROVE LockOwned' /\ Followed'
  BY <1>3, <1>4, <1>10 DEF Lookup
<1>11. ASSUME NEW t \in Threads, Load(t) \/ MergeColumns(t) \/ MergeMeta(t)
       PROVE  LockOwned' /\ Followed'
  BY <1>4, <1>11 DEF Load, MergeColumns, MergeMeta, Loaded
<1>12. ASSUME NEW t \in Threads, LoadFails(t) \/ Store(t) PROVE LockOwned' /\ Followed'
  BY <1>3, <1>12 DEF LoadFails, Store
<1>13. CASE EditFile
  BY <1>13 DEF EditFile, Types
<1>14. CASE Tick \/ \E k \in Tables : ChangeSchema(k)
  BY <1>1, <1>14 DEF Tick, ChangeSchema
<1> QED
  BY <1>2, <1>5, <1>6, <1>7, <1>8, <1>9, <1>10, <1>11, <1>12, <1>13, <1>14 DEF Next, ThreadStep

RowOK(u) ==
    /\ start[u] <= now
    /\ pc[u] \in Loaded =>
          row[u].schema = database[table[u]] \/ start[u] <= changed[table[u]]
    /\ pc[u] \in {"meta", "store"} => row[u].columns = semantic \/ start[u] <= reloaded
    /\ pc[u] = "store" => row[u].meta = semantic \/ start[u] <= reloaded

LEMMA RowFreshIs == RowFresh <=> \A u \in Threads : RowOK(u)
BY DEF RowFresh, RowOK

\* A change is stamped with a time no earlier than any thread has taken.
LEMMA RowFreshStep == Types /\ LocalsOK /\ RowFresh /\ [Next]_vars => RowFresh'
<1> SUFFICES ASSUME Types, LocalsOK, RowFresh, [Next]_vars, NEW u \in Threads PROVE RowOK(u)'
  BY RowFreshIs DEF RowOK, RowFresh
<1> USE CatalogAssumption DEF Goto, world, semantics, local
<1>0. RowOK(u)
  BY RowFreshIs
<1>1. ASSUME UNCHANGED <<pc, row, start, table, now, database, changed, semantic, reloaded>>
      PROVE  RowOK(u)'
  BY <1>0, <1>1 DEF RowOK
<1>2. ASSUME NEW t \in Threads, Return(t), UNCHANGED <<world, semantics>> PROVE RowOK(u)'
  BY <1>0, <1>2 DEF Return, RowOK, Types, Loaded
<1>3. ASSUME NEW t \in Threads, NEW s \in {"check", "reload", "install", "clock", "load"}, Goto(t, s),
             pc[t] \notin Loaded, \A v \in Threads \ {t} : table'[v] = table[v],
             UNCHANGED <<start, row, now, database, changed, semantic, reloaded>>
      PROVE  RowOK(u)'
  BY <1>0, <1>3 DEF RowOK, Types, Loaded
<1>4. ASSUME NEW t \in Threads, NEW k \in Tables, Call(t, k) PROVE RowOK(u)'
  BY <1>3, <1>4 DEF Call, Types, Loaded
<1>5. ASSUME NEW t \in Threads, MaybeReload(t) \/ ReloadRead(t) PROVE RowOK(u)'
  BY <1>3, <1>5 DEF MaybeReload, ReloadRead, Loaded
<1>6. ASSUME NEW t \in Threads, ReloadInstall(t) PROVE RowOK(u)'
  BY <1>0, <1>6 DEF ReloadInstall, RowOK, Types, Loaded
<1>7. ASSUME NEW t \in Threads, ReadClock(t) PROVE RowOK(u)'
  BY <1>0, <1>7 DEF ReadClock, RowOK, Types, Loaded
<1>8. ASSUME NEW t \in Threads, Lookup(t) PROVE RowOK(u)'
  BY <1>2, <1>3, <1>8 DEF Lookup, Loaded
<1>9. ASSUME NEW t \in Threads, Load(t) PROVE RowOK(u)'
  <2>1. row'[t] = Row(database[table[t]]) /\ Row(database[table[t]]).schema = database[table[t]]
    BY <1>9 DEF Load, Row, Types
  <2> QED
    BY <1>0, <1>9, <2>1 DEF Load, RowOK, Types, Loaded
<1>10. ASSUME NEW t \in Threads, MergeColumns(t) PROVE RowOK(u)'
  <2> DEFINE e == [row[t] EXCEPT !.columns = semantic]
  <2>1. row[t] \in Entries
    BY <1>10 DEF MergeColumns, LocalsOK, Loaded
  <2>2. e.columns = semantic /\ e.schema = row[t].schema
    BY <2>1 DEF Entries
  <2>3. row' = [row EXCEPT ![t] = e]
    BY <1>10 DEF MergeColumns
  <2> HIDE DEF e
  <2> QED
    BY <1>0, <1>10, <2>2, <2>3 DEF MergeColumns, RowOK, Types, Loaded
<1>11. ASSUME NEW t \in Threads, MergeMeta(t) PROVE RowOK(u)'
  <2> DEFINE e == [row[t] EXCEPT !.meta = semantic]
  <2>1. row[t] \in Entries
    BY <1>11 DEF MergeMeta, LocalsOK, Loaded
  <2>2. e.meta = semantic /\ e.schema = row[t].schema /\ e.columns = row[t].columns
    BY <2>1 DEF Entries
  <2>3. row' = [row EXCEPT ![t] = e]
    BY <1>11 DEF MergeMeta
  <2> HIDE DEF e
  <2> QED
    BY <1>0, <1>11, <2>2, <2>3 DEF MergeMeta, RowOK, Types, Loaded
<1>12. ASSUME NEW t \in Threads, LoadFails(t) \/ Store(t) PROVE RowOK(u)'
  BY <1>2, <1>12 DEF LoadFails, Store
<1>13. CASE Tick
  BY <1>0, <1>13 DEF Tick, RowOK, Types
<1>14. ASSUME NEW k \in Tables, ChangeSchema(k) PROVE RowOK(u)'
  BY <1>0, <1>14 DEF ChangeSchema, RowOK, Types, LocalsOK, Loaded
<1> QED
  BY <1>1, <1>4, <1>5, <1>6, <1>7, <1>8, <1>9, <1>10, <1>11, <1>12, <1>13, <1>14
     DEF Next, ThreadStep, vars, EditFile

EntryOK(e, k) ==
    /\ e.expire <= now + TTL
    /\ e.schema = database[k] \/ e.expire <= changed[k] + TTL
    /\ e.columns = semantic \/ e.expire <= reloaded + TTL
    /\ e.meta = semantic \/ e.expire <= reloaded + TTL

LEMMA CacheFreshIs == CacheFresh <=> \A k \in Tables : cache[k] # NoEntry => EntryOK(cache[k], k)
BY DEF CacheFresh, EntryOK

\* An entry expires TTL after a time that was taken before all it was made of was read.
LEMMA CacheFreshStep ==
    Types /\ CacheOK /\ LocalsOK /\ RowFresh /\ CacheFresh /\ [Next]_vars => CacheFresh'
<1> SUFFICES ASSUME Types, CacheOK, LocalsOK, RowFresh, CacheFresh, [Next]_vars,
                    NEW k \in Tables, cache'[k] # NoEntry
             PROVE  EntryOK(cache[k], k)'
  BY DEF CacheFresh, EntryOK
<1> USE CatalogAssumption, NoEntryIsNone
<1>1. cache[k] # NoEntry => EntryOK(cache[k], k) /\ cache[k].expire \in Nat
  BY CacheFreshIs DEF CacheOK, Caches, Entries
<1>2. CASE UNCHANGED <<cache, now, database, changed, semantic, reloaded>>
  BY <1>1, <1>2 DEF EntryOK
<1>3. ASSUME NEW t \in Threads, ReloadInstall(t) PROVE FALSE
  BY <1>3 DEF ReloadInstall
<1>4. ASSUME NEW t \in Threads, Store(t) PROVE EntryOK(cache[k], k)'
  <2>1. UNCHANGED <<now, database, changed, semantic, reloaded>>
    BY <1>4 DEF Store, world, semantics
  <2>2. cache'[k] = Stored(t)[k]
    <3>1. Stored(t) \in Caches /\ cache' \in Trimmed(Stored(t))
      BY <1>4, StoredIs DEF Store, Stored
    <3>2. cache'[k] \in {Stored(t)[k], NoEntry}
      BY <3>1, TrimmedFits
    <3> QED
      BY <3>2
  <2>3. CASE k # table[t]
    BY <1>1, <1>4, <2>1, <2>2, <2>3, StoredIs DEF EntryOK
  <2>4. CASE k = table[t]
    <3> DEFINE e == Stored(t)[k]
    <3>1. /\ e.expire = start[t] + TTL /\ e.schema = row[t].schema
          /\ e.columns = row[t].columns /\ e.meta = row[t].meta
      BY <1>4, <2>4, StoredIs
    <3>2. /\ start[t] <= now
          /\ row[t].schema = database[k] \/ start[t] <= changed[k]
          /\ row[t].columns = semantic \/ start[t] <= reloaded
          /\ row[t].meta = semantic \/ start[t] <= reloaded
      BY <1>4, <2>4 DEF Store, RowFresh, Loaded
    <3>3. start[t] \in Nat /\ now \in Nat /\ changed[k] \in Nat /\ reloaded \in Nat
      BY DEF Types
    <3> HIDE DEF e
    <3>4. EntryOK(e, k)
      BY <3>1, <3>2, <3>3 DEF EntryOK
    <3> QED
      BY <2>1, <2>2, <3>4 DEF EntryOK, e
  <2> QED
    BY <2>3, <2>4
<1>5. CASE Tick
  BY <1>1, <1>5 DEF Tick, EntryOK, Types, semantics
<1>6. ASSUME NEW l \in Tables, ChangeSchema(l) PROVE EntryOK(cache[k], k)'
  BY <1>1, <1>6 DEF ChangeSchema, EntryOK, Types, semantics
<1> QED
  BY <1>2, <1>3, <1>4, <1>5, <1>6 DEF Next, ThreadStep, vars, world, semantics, Call, MaybeReload,
     ReloadRead, ReadClock, Lookup, Load, LoadFails, MergeColumns, MergeMeta, EditFile

LEMMA StepIInv == IInv /\ [Next]_vars => IInv'
<1> SUFFICES ASSUME IInv, [Next]_vars PROVE IInv'
  OBVIOUS
<1>1. Types /\ CacheOK /\ LocalsOK /\ LockOwned /\ Followed /\ RowFresh /\ CacheFresh
  BY TypesAre DEF IInv
<1>2. Types' /\ CacheOK' /\ LocalsOK' /\ LockOwned' /\ Followed' /\ RowFresh' /\ CacheFresh'
  BY <1>1, TypesStep, CacheOKStep, LocalsOKStep, FollowedStep, RowFreshStep, CacheFreshStep
<1>3. TypeOK' /\ (edits <= MaxEdits)'
  BY <1>2 DEF Types, CacheOK, TypeOK, Caches
<1> QED
  BY <1>2, <1>3 DEF IInv

\* The inductive invariant of the catalog.
THEOREM CatalogInvariant == Spec => []IInv
<1> QED
  BY InitIInv, StepIInv, PTL DEF Spec

\* The state is well typed, and the cache of tables keeps to max_entries.
THEOREM CatalogTypeOK == Spec => []TypeOK
<1>1. IInv => TypeOK
  BY DEF IInv
<1> QED
  BY <1>1, CatalogInvariant, PTL

\* Whatever overtakes a load, the cache is wrong for no longer than the TTL.
THEOREM CatalogStaleOnlyWithinTtl == Spec => []StaleOnlyWithinTtl
<1>1. IInv => StaleOnlyWithinTtl
  <2> SUFFICES ASSUME IInv, NEW k \in Tables, cache[k] # NoEntry, now < cache[k].expire
               PROVE  /\ changed[k] + TTL <= now => cache[k].schema = database[k]
                      /\ reloaded + TTL <= now =>
                            cache[k].columns = semantic /\ cache[k].meta = semantic
    BY DEF StaleOnlyWithinTtl
  <2>1. /\ now \in Nat /\ changed[k] \in Nat /\ reloaded \in Nat /\ TTL \in Nat
        /\ cache[k].expire \in Nat
    BY CatalogAssumption DEF IInv, TypeOK, Entries
  <2>2. EntryOK(cache[k], k)
    BY CacheFreshIs DEF IInv
  <2> QED
    BY <2>1, <2>2 DEF EntryOK
<1> QED
  BY <1>1, CatalogInvariant, PTL

\* The semantics are those of the file whose mtime the catalog remembers.
THEOREM CatalogSemanticsFollowFile == Spec => []SemanticsFollowFile
<1>1. IInv => SemanticsFollowFile
  BY DEF IInv, Followed, SemanticsFollowFile
<1> QED
  BY <1>1, CatalogInvariant, PTL

-----------------------------------------------------------------------------
(* The registry of the domain tools *)

Calls == [at : {"idle", "check", "load", "install", "get"}, since : Nat, text : Texts,
          late : BOOLEAN]

RegistryTypes ==
    /\ time \in Nat /\ writes \in Nat /\ written \in Nat /\ lastCheck \in Nat
    /\ document \in [mtime : Nat, text : Texts]
    /\ specs \in Texts /\ loadedMtime \in Nat /\ overtaken \in BOOLEAN
    /\ call \in [Callers -> Calls]

\* The clock is ahead of what it stamped, and no mtime is used twice.
Stamps ==
    /\ written <= time /\ lastCheck <= time
    /\ document.mtime <= writes /\ loadedMtime <= writes

\* A load carries definitions that can be used, the file's unless the file was written
\* meanwhile, and a call has looked at the mtime or come within the TTL of one that did.
CallOK(t) ==
    /\ call[t].since <= time
    /\ At(t, "install") => CanLoad(call[t].text)
    /\ At(t, "install") /\ ~call[t].late =>
          call[t].text = document.text /\ document.mtime # NoMtime
    /\ ~At(t, "install") => ~call[t].late
    /\ call[t].at \in {"load", "install", "get"} =>
          call[t].since <= lastCheck \/ call[t].since < lastCheck + ReloadSeconds

CallsOK == \A t \in Callers : CallOK(t)

\* The definitions in use are the file's of the mtime they were given.
Covered ==
    /\ CanLoad(specs)
    /\ ~overtaken => loadedMtime # NoMtime
    /\ ~overtaken /\ loadedMtime = document.mtime => specs = document.text

\* Once a check saw the file as it is, the file is loaded or somebody loads it.
Noticed ==
    lastCheck > written /\ document.mtime # NoMtime /\ CanLoad(document.text)
        => loadedMtime = document.mtime \/ \E u \in Callers : Loading(u)

RegistryInv == RegistryTypes /\ Stamps /\ CallsOK /\ Covered /\ Noticed

LEMMA MalformedIsText == Malformed \in Texts /\ OtherTools \in Texts
BY DEF Texts

LEMMA InitRegistryInv == DomainInit => RegistryInv
<1> SUFFICES ASSUME DomainInit PROVE RegistryInv
  OBVIOUS
<1> USE RegistryAssumption DEF DomainInit
<1>1. PICK words \in Texts : CanLoad(words) /\ document = [mtime |-> 1, text |-> words]
  OBVIOUS
<1>2. document.mtime = 1 /\ document.text = words
  BY <1>1
<1>3. RegistryTypes
  BY <1>1, <1>2, MalformedIsText DEF RegistryTypes, Calls, Idle
<1>4. Stamps
  BY <1>2 DEF Stamps
<1>5. CallsOK
  BY DEF CallsOK, CallOK, At, Idle
<1>6. Covered
  BY <1>1, <1>2 DEF Covered, NoMtime
<1>7. Noticed
  BY DEF Noticed
<1> QED BY <1>3, <1>4, <1>5, <1>6, <1>7 DEF RegistryInv

LEMMA RunStep ==
    ASSUME RegistryInv, NEW t \in Callers, Run(t) PROVE RegistryInv'
<1> USE DEF Run, Be, At, disk, registry, RegistryInv
<1>1. call' = [call EXCEPT ![t] = [Idle EXCEPT !.at = "check"]] /\ call[t].at = "idle"
      /\ UNCHANGED <<time, document, writes, written, specs, loadedMtime, overtaken, lastCheck>>
  OBVIOUS
<1>2. RegistryTypes'
  BY ONLY <1>1, RegistryTypes, MalformedIsText DEF RegistryTypes, Calls, Idle
<1>3. \A u \in Callers : u # t => call'[u] = call[u]
  BY <1>1 DEF RegistryTypes
<1>4. call'[t] = [Idle EXCEPT !.at = "check"]
  BY <1>1 DEF RegistryTypes
<1>5. CallsOK'
  BY ONLY <1>1, <1>3, <1>4, CallsOK, RegistryTypes
     DEF CallsOK, CallOK, At, Idle, RegistryTypes
<1>6. Stamps' /\ Covered'
  BY <1>1 DEF Stamps, Covered
<1>7. Noticed'
  BY ONLY <1>1, <1>3, <1>4, Noticed DEF Noticed, Loading, Idle
<1> QED BY <1>2, <1>5, <1>6, <1>7

LEMMA CheckMtimeStep ==
    ASSUME RegistryInv, NEW t \in Callers, CheckMtime(t) PROVE RegistryInv'
<1>1. PICK step \in {"get", "load"} :
        /\ call' = [call EXCEPT ![t] = [call[t] EXCEPT !.at = step, !.since = time]]
        /\ call[t].at = "check"
        /\ \/ ~Due(t) /\ step = "get" /\ lastCheck' = lastCheck
           \/ /\ lastCheck' = time
              /\ document.mtime = loadedMtime \/ step = "load"
        /\ UNCHANGED <<time, document, writes, written, specs, loadedMtime, overtaken>>
  BY DEF CheckMtime, AfterCheck, Be, At, disk, registry
<1>2. RegistryTypes'
  BY ONLY <1>1, RegistryInv DEF RegistryInv, RegistryTypes, Calls
<1>3. \A u \in Callers : u # t => call'[u] = call[u]
  BY ONLY <1>1, RegistryInv DEF RegistryInv, RegistryTypes
<1>4. call'[t].at = step /\ call'[t].since = time /\ call'[t].late = call[t].late
  BY ONLY <1>1, RegistryInv DEF RegistryInv, RegistryTypes, Calls
<1>5. lastCheck <= lastCheck' /\ lastCheck' <= time /\ lastCheck' \in Nat
  BY ONLY <1>1, RegistryInv DEF RegistryInv, RegistryTypes, Stamps
<1>6. ASSUME NEW u \in Callers PROVE CallOK(u)'
  <2>1. CASE u = t
    <3>1. ~call[t].late
      BY <1>1 DEF RegistryInv, CallsOK, CallOK, At
    <3>2. time <= lastCheck' \/ time < lastCheck' + ReloadSeconds
      BY <1>1, RegistryAssumption DEF RegistryInv, RegistryTypes, Due
    <3> QED BY ONLY <1>1, <1>4, <2>1, <3>1, <3>2, RegistryInv
            DEF RegistryInv, RegistryTypes, CallOK, At
  <2>2. CASE u # t
    BY ONLY <1>1, <1>3, <1>5, <1>6, <2>2, RegistryInv, RegistryAssumption
       DEF RegistryInv, RegistryTypes, Calls, CallsOK, CallOK, At
  <2> QED BY <2>1, <2>2
<1>7. CallsOK'
  BY <1>6 DEF CallsOK
<1>8. Stamps' /\ Covered'
  BY ONLY <1>1, <1>5, RegistryInv DEF RegistryInv, RegistryTypes, Stamps, Covered
<1>9. Noticed'
  <2>1. CASE lastCheck' = lastCheck /\ step = "get"
    BY ONLY <1>1, <1>3, <1>4, <2>1, RegistryInv DEF RegistryInv, Noticed, Loading
  <2>2. CASE step = "load"
    BY <1>4, <2>2 DEF Noticed, Loading
  <2>3. CASE document.mtime = loadedMtime
    BY <1>1, <2>3 DEF Noticed
  <2> QED BY <1>1, <2>1, <2>2, <2>3
<1> QED BY <1>2, <1>7, <1>8, <1>9 DEF RegistryInv

LEMMA LoadStep ==
    ASSUME RegistryInv, NEW t \in Callers, LoadDefinitions(t) PROVE RegistryInv'
<1>1. PICK c :
        /\ call' = [call EXCEPT ![t] = c]
        /\ call[t].at = "load"
        /\ \/ /\ document.mtime # NoMtime /\ CanLoad(document.text)
              /\ c = [call[t] EXCEPT !.at = "install", !.text = document.text]
           \/ ~(document.mtime # NoMtime /\ CanLoad(document.text)) /\ c = Idle
        /\ UNCHANGED <<time, document, writes, written, specs, loadedMtime, overtaken, lastCheck>>
  BY DEF LoadDefinitions, Be, Answer, At, disk, registry
<1>2. c \in Calls
  <2>1. document.text \in Texts /\ call[t] \in Calls /\ Idle \in Calls
    BY MalformedIsText DEF RegistryInv, RegistryTypes, Calls, Idle
  <2> QED BY ONLY <1>1, <2>1 DEF Calls
<1>3. RegistryTypes'
  BY ONLY <1>1, <1>2, RegistryInv DEF RegistryInv, RegistryTypes
<1>4. call'[t] = c /\ \A u \in Callers : u # t => call'[u] = call[u]
  BY ONLY <1>1, RegistryInv DEF RegistryInv, RegistryTypes
<1>5. CallOK(t)
  BY DEF RegistryInv, CallsOK
<1>6. CallOK(t)'
  <2>1. CASE c = Idle
    BY ONLY <1>1, <1>4, <2>1, RegistryInv DEF CallOK, At, Idle, RegistryInv, RegistryTypes
  <2>2. CASE c = [call[t] EXCEPT !.at = "install", !.text = document.text]
             /\ document.mtime # NoMtime /\ CanLoad(document.text)
    <3>1. /\ c.at = "install" /\ c.text = document.text /\ c.since = call[t].since
          /\ c.late = call[t].late
      BY <2>2 DEF RegistryInv, RegistryTypes, Calls
    <3> QED BY <1>1, <1>4, <1>5, <2>2, <3>1 DEF CallOK, At, CanLoad, Good
  <2> QED BY <1>1, <2>1, <2>2
<1>7. CallsOK'
  BY ONLY <1>1, <1>4, <1>6, RegistryInv DEF RegistryInv, CallsOK, CallOK, At
<1>8. Stamps' /\ Covered'
  BY ONLY <1>1, RegistryInv DEF RegistryInv, Stamps, Covered
<1>9. Noticed'
  <2>1. CASE c = Idle /\ ~(document.mtime # NoMtime /\ CanLoad(document.text))
    BY <1>1, <2>1 DEF Noticed, CanLoad, Good
  <2>2. CASE c = [call[t] EXCEPT !.at = "install", !.text = document.text]
    <3>1. c.at = "install"
      BY <2>2 DEF RegistryInv, RegistryTypes, Calls
    <3> QED BY <1>4, <3>1 DEF Noticed, Loading
  <2> QED BY <1>1, <2>1, <2>2
<1> QED BY <1>3, <1>7, <1>8, <1>9 DEF RegistryInv

LEMMA InstallStep ==
    ASSUME RegistryInv, NEW t \in Callers, Install(t) PROVE RegistryInv'
<1>1. PICK c :
        /\ call' = [call EXCEPT ![t] = c]
        /\ c = [call[t] EXCEPT !.at = "get", !.text = Malformed, !.late = FALSE]
        /\ call[t].at = "install"
        /\ specs' = call[t].text /\ loadedMtime' = document.mtime /\ overtaken' = call[t].late
        /\ UNCHANGED <<time, document, writes, written, lastCheck>>
  BY DEF Install, Be, At, disk
<1>2. c \in Calls /\ c.at = "get" /\ c.late = FALSE /\ c.since = call[t].since
  BY <1>1, MalformedIsText DEF RegistryInv, RegistryTypes, Calls
<1>3. call[t] \in Calls /\ CallOK(t)
  BY DEF RegistryInv, RegistryTypes, CallsOK
<1>4. RegistryTypes'
  BY ONLY <1>1, <1>2, <1>3, RegistryInv DEF RegistryInv, RegistryTypes, Calls
<1>5. call'[t] = c /\ \A u \in Callers : u # t => call'[u] = call[u]
  BY ONLY <1>1, RegistryInv DEF RegistryInv, RegistryTypes
<1>6. CallOK(t)'
  BY ONLY <1>1, <1>2, <1>3, <1>5 DEF CallOK, At
<1>7. CallsOK'
  BY ONLY <1>1, <1>5, <1>6, RegistryInv DEF RegistryInv, CallsOK, CallOK, At
<1>8. Stamps'
  BY ONLY <1>1, RegistryInv DEF RegistryInv, Stamps
<1>9. Covered'
  BY <1>1, <1>3 DEF Covered, CallOK, At, CanLoad, Good
<1>10. Noticed'
  BY <1>1 DEF Noticed
<1> QED BY <1>4, <1>7, <1>8, <1>9, <1>10 DEF RegistryInv

LEMMA QueryStep ==
    ASSUME RegistryInv, NEW t \in Callers, GetAndQuery(t) PROVE RegistryInv'
<1>1. /\ call' = [call EXCEPT ![t] = Idle] /\ call[t].at = "get"
      /\ UNCHANGED <<time, document, writes, written, specs, loadedMtime, overtaken, lastCheck>>
  BY DEF GetAndQuery, Answer, At, disk, registry
<1>2. RegistryTypes'
  BY ONLY <1>1, RegistryInv, MalformedIsText DEF RegistryInv, RegistryTypes, Calls, Idle
<1>3. call'[t] = Idle /\ \A u \in Callers : u # t => call'[u] = call[u]
  BY ONLY <1>1, RegistryInv DEF RegistryInv, RegistryTypes
<1>4. CallsOK'
  BY ONLY <1>1, <1>3, RegistryInv DEF RegistryInv, RegistryTypes, CallsOK, CallOK, At, Idle
<1>5. Stamps' /\ Covered'
  BY ONLY <1>1, RegistryInv DEF RegistryInv, Stamps, Covered
<1>6. Noticed'
  BY ONLY <1>1, <1>3, RegistryInv DEF RegistryInv, Noticed, Loading
<1> QED BY <1>2, <1>4, <1>5, <1>6 DEF RegistryInv

LEMMA AdvanceStep == ASSUME RegistryInv, Advance PROVE RegistryInv'
<1>1. /\ time' = time + 1
      /\ UNCHANGED <<call, document, writes, written, specs, loadedMtime, overtaken, lastCheck>>
  BY DEF Advance, disk, registry
<1>2. RegistryTypes' /\ Stamps'
  BY ONLY <1>1, RegistryInv DEF RegistryInv, RegistryTypes, Stamps
<1>3. CallsOK'
  BY ONLY <1>1, RegistryInv DEF RegistryInv, RegistryTypes, Calls, CallsOK, CallOK, At
<1>4. Covered' /\ Noticed'
  BY ONLY <1>1, RegistryInv DEF RegistryInv, Covered, Noticed, Loading
<1> QED BY <1>2, <1>3, <1>4 DEF RegistryInv

LEMMA WriteStep == ASSUME RegistryInv, Write PROVE RegistryInv'
<1>1. /\ writes' = writes + 1 /\ written' = time
      /\ document' \in [mtime : Nat, text : Texts]
      /\ document'.mtime = writes + 1 \/ document'.mtime = NoMtime
      /\ call' = [t \in Callers |-> [call[t] EXCEPT !.late = call[t].at = "install"]]
      /\ UNCHANGED <<time, specs, loadedMtime, overtaken, lastCheck>>
  BY MalformedIsText DEF Write, registry, RegistryInv, RegistryTypes, NoMtime
<1>2. ASSUME NEW t \in Callers
      PROVE  /\ call'[t] \in Calls /\ call'[t].at = call[t].at /\ call'[t].text = call[t].text
             /\ call'[t].since = call[t].since /\ call'[t].late = (call[t].at = "install")
  BY <1>1 DEF RegistryInv, RegistryTypes, Calls
<1>3. call' \in [Callers -> Calls]
  BY <1>1, <1>2
<1>4. RegistryTypes' /\ Stamps'
  BY ONLY <1>1, <1>3, RegistryInv DEF RegistryInv, RegistryTypes, Stamps, NoMtime
<1>5. CallsOK'
  BY ONLY <1>1, <1>2, RegistryInv DEF RegistryInv, CallsOK, CallOK, At
<1>6. Covered'
  BY ONLY <1>1, RegistryInv DEF RegistryInv, RegistryTypes, Stamps, Covered, NoMtime
<1>7. Noticed'
  BY ONLY <1>1, RegistryInv DEF RegistryInv, RegistryTypes, Stamps, Noticed
<1> QED BY <1>4, <1>5, <1>6, <1>7 DEF RegistryInv

LEMMA RegistryStep == RegistryInv /\ [DomainNext]_domain => RegistryInv'
<1> SUFFICES ASSUME RegistryInv, [DomainNext]_domain PROVE RegistryInv'
  OBVIOUS
<1>1. CASE UNCHANGED domain
  <2>1. UNCHANGED <<time, document, writes, written, specs, loadedMtime, overtaken, lastCheck, call>>
    BY <1>1 DEF domain, disk, registry
  <2> QED BY ONLY <2>1, RegistryInv
          DEF RegistryInv, RegistryTypes, Stamps, CallsOK, CallOK, At, Covered, Noticed, Loading
<1> QED BY <1>1, RunStep, CheckMtimeStep, LoadStep, InstallStep, QueryStep, AdvanceStep, WriteStep
        DEF DomainNext

\* The definitions in use are accounted for in every reachable state of the registry.
THEOREM RegistryInvariant == DomainSpec => []RegistryInv
BY InitRegistryInv, RegistryStep, PTL DEF DomainSpec

\* The registry and its callers are well typed; what is in use was loaded from a text.
THEOREM CatalogDomainTypeOK == DomainSpec => []DomainTypeOK
<1> DEFINE StatusOK == answer.status \in {"none", "unknown", "invalid", "error", "mismatch",
                                         "raised", "rows"}
<1>1. DomainInit => StatusOK
  BY DEF DomainInit, NoAnswer
<1>2. StatusOK /\ [DomainNext]_domain => StatusOK'
  <2> SUFFICES ASSUME StatusOK, [DomainNext]_domain PROVE StatusOK'
    OBVIOUS
  <2>1. ASSUME answer' = NoAnswer PROVE StatusOK'
    BY <2>1 DEF NoAnswer
  <2>2. CASE UNCHANGED domain
    BY <2>2 DEF domain
  <2>3. ASSUME NEW t \in Callers, Run(t) \/ CheckMtime(t) \/ Install(t) PROVE StatusOK'
    BY <2>3, <2>1 DEF Run, CheckMtime, Install, AfterCheck, Be
  <2>4. ASSUME NEW t \in Callers, LoadDefinitions(t) PROVE StatusOK'
    <3>1. answer' \in {NoAnswer, [status |-> "raised"], [status |-> "unknown"]}
      BY <2>4 DEF LoadDefinitions, Be, Answer
    <3> QED BY <2>1, <3>1
  <2>5. ASSUME NEW t \in Callers, GetAndQuery(t) PROVE StatusOK'
    <3>1. PICK args \in ArgumentSets :
             \/ answer' \in {[status |-> "unknown"], [status |-> "invalid"]}
             \/ \E a \in Answers(specs, args) : answer' = a
      BY <2>5 DEF GetAndQuery, Answer
    <3>2. ASSUME NEW a \in Answers(specs, args) PROVE a.status \in {"error", "mismatch", "rows"}
      BY <3>2 DEF Answers
    <3> QED BY <3>1, <3>2
  <2>6. CASE Advance \/ Write
    BY <2>6, <2>1 DEF Advance, Write
  <2> QED BY <2>2, <2>3, <2>4, <2>5, <2>6 DEF DomainNext
<1>3. RegistryInv /\ StatusOK => DomainTypeOK
  BY DEF RegistryInv, RegistryTypes, Covered, CanLoad, Calls, DomainTypeOK
<1> HIDE DEF StatusOK
<1> QED BY <1>1, <1>2, <1>3, RegistryInvariant, PTL DEF DomainSpec

\* _maybe_reload() and _load() of registry.py, by any number of callers: the definitions
\* in use follow the file within the TTL, for every TTL, as RegistryFollowsFile says.
THEOREM CatalogRegistryFollowsFile == DomainSpec => []RegistryFollowsFile
<1>1. RegistryInv => RegistryFollowsFile
  <2> SUFFICES ASSUME RegistryInv PROVE RegistryFollowsFile
    OBVIOUS
  <2>1. ASSUME NEW t \in Callers, Informed(t), ~overtaken
        PROVE  specs = document.text
    <3>1. lastCheck > written
      BY <2>1, RegistryAssumption
         DEF RegistryInv, RegistryTypes, Calls, CallsOK, CallOK, At, Informed
    <3> QED BY <2>1, <3>1 DEF RegistryInv, Noticed, Covered, Informed
  <2> QED BY <2>1 DEF RegistryFollowsFile, RegistryInv, Covered
<1> QED BY <1>1, RegistryInvariant, PTL

-----------------------------------------------------------------------------
(* AnswersAsDeclared: the placeholders, by their rank among the slots of   *)
(* values, and the rows that are kept, by least counterexamples over Nat.  *)

LEMMA Least ==
  ASSUME NEW T \in SUBSET Nat, T # {}
  PROVE  \E x \in T : \A y \in T : x <= y
<1>1. IsWellFoundedOn(OpToRel(<, Nat), Nat)
  BY NatLessThanWellFounded
<1>2. PICK x \in T : \A y \in T : <<y, x>> \notin OpToRel(<, Nat)
  BY <1>1, WFMin
<1>3. \A y \in T : ~(y < x)
  BY <1>2 DEF OpToRel
<1> QED BY <1>3

\* The rank of i in a finite set of numbers.
Rank(V, i) == Cardinality({j \in V : j <= i})

\* Ranks number the elements of a finite set from 1.
LEMMA RankNumbers ==
  ASSUME NEW V \in SUBSET Nat, IsFiniteSet(V), NEW i \in V
  PROVE  /\ Rank(V, i) \in 1..Cardinality(V)
         /\ \A k \in V : Rank(V, k) = Rank(V, i) => k = i
<1>1. ASSUME NEW k \in V
      PROVE  {j \in V : j <= k} \in SUBSET V /\ IsFiniteSet({j \in V : j <= k})
  BY FS_Subset
<1>2. Rank(V, i) <= Cardinality(V) /\ Cardinality(V) \in Nat /\ Rank(V, i) \in Nat
  BY <1>1, FS_Subset, FS_CardinalityType DEF Rank
<1>3. Rank(V, i) # 0
  <2>1. i \in {j \in V : j <= i}
    OBVIOUS
  <2> QED BY <2>1, <1>1, FS_EmptySet DEF Rank
<1>4. ASSUME NEW k \in V, NEW n \in V, k < n PROVE Rank(V, k) # Rank(V, n)
  <2>1. {j \in V : j <= k} \in SUBSET {j \in V : j <= n}
    <3>1. ASSUME NEW j \in V, j <= k PROVE j <= n
      <4>1. j \in Nat /\ k \in Nat /\ n \in Nat
        OBVIOUS
      <4> QED BY <4>1, <3>1, <1>4
    <3> QED BY <3>1
  <2>2. n \in {j \in V : j <= n} /\ n \notin {j \in V : j <= k}
    BY <1>4
  <2>3. {j \in V : j <= k} # {j \in V : j <= n}
    BY <2>2
  <2> QED BY <1>1, <2>1, <2>3, FS_Subset DEF Rank
<1>5. ASSUME NEW k \in V, Rank(V, k) = Rank(V, i) PROVE k = i
  <2>1. ~(k < i) /\ ~(i < k)
    BY <1>4, <1>5
  <2> QED BY <2>1
<1> QED BY <1>2, <1>3, <1>5

\* The k-th placeholder is bound to the slot it stands for.
LEMMA BoundIsSlot ==
  ASSUME NEW d, d.slots \in Seq(Names), NEW i \in ValueSlots(d)
  PROVE  /\ Rank(ValueSlots(d), i) \in DOMAIN BoundSlots(d)
         /\ BoundSlots(d)[Rank(ValueSlots(d), i)] = d.slots[i]
<1> DEFINE V == ValueSlots(d)
           slot(k) == d.slots[CHOOSE j \in V : Rank(V, j) = k]
<1>1. V \in SUBSET (1..Len(d.slots)) /\ Len(d.slots) \in Nat
  BY DEF ValueSlots
<1>2. IsFiniteSet(V) /\ V \in SUBSET Nat
  <2>1. IsFiniteSet(1..Len(d.slots))
    BY <1>1, FS_Interval
  <2>2. V \in SUBSET Nat
    BY <1>1
  <2> HIDE DEF V
  <2>3. IsFiniteSet(V)
    BY <1>1, <2>1, FS_Subset
  <2> QED BY <2>2, <2>3
<1>3. BoundSlots(d) = [k \in 1..Cardinality(V) |-> slot(k)]
  BY DEF BoundSlots, ValueSlots, IsValueSlot, Rank
<1>4. /\ Rank(V, i) \in 1..Cardinality(V)
      /\ \A k \in V : Rank(V, k) = Rank(V, i) => k = i
  BY ONLY <1>2, RankNumbers, i \in V
<1>5. (CHOOSE j \in V : Rank(V, j) = Rank(V, i)) = i
  BY <1>4
<1>6. slot(Rank(V, i)) = d.slots[i]
  BY <1>5
<1> HIDE DEF V, slot
<1>7. BoundSlots(d)[Rank(V, i)] = slot(Rank(V, i)) /\ Rank(V, i) \in DOMAIN BoundSlots(d)
  BY <1>3, <1>4
<1> QED BY <1>6, <1>7 DEF V

-----------------------------------------------------------------------------
\* f holds the partial sums of the first n rows.
IsSum(f, rows, n) == f = [k \in 0..n |-> IF k = 0 THEN 0 ELSE f[k - 1] + rows[k]]

LEMMA BytesIs ==
  ASSUME NEW rows, NEW n \in Nat
  PROVE  Bytes(rows, n) = (CHOOSE f : IsSum(f, rows, n))[n]
BY DEF Bytes, IsSum

\* Partial sums exist, by the least number of rows for which they would not.
LEMMA SumsExist ==
  ASSUME NEW rows \in Seq(Nat), NEW n \in 0..Len(rows)
  PROVE  \E f : IsSum(f, rows, n)
<1> DEFINE T == {k \in 0..Len(rows) : ~ \E f : IsSum(f, rows, k)}
<1> SUFFICES ASSUME T # {} PROVE FALSE
  OBVIOUS
<1>1. PICK m \in T : \A k \in T : m <= k
  <2>1. T \in SUBSET Nat
    OBVIOUS
  <2> HIDE DEF T
  <2> QED BY <2>1, Least
<1>2. CASE m = 0
  <2> DEFINE f == [k \in 0..0 |-> 0]
  <2>1. IsSum(f, rows, 0)
    BY DEF IsSum
  <2> HIDE DEF f
  <2> QED BY <2>1, <1>1, <1>2
<1>3. CASE m # 0
  <2>1. m - 1 \in 0..Len(rows) /\ m - 1 \notin T /\ m \in Nat
    BY <1>1, <1>3
  <2>2. PICK f : IsSum(f, rows, m - 1)
    BY <2>1
  <2> DEFINE g == [k \in 0..m |-> IF k = m THEN f[m - 1] + rows[m] ELSE f[k]]
  <2>3. ASSUME NEW k \in 0..m PROVE g[k] = IF k = 0 THEN 0 ELSE g[k - 1] + rows[k]
    <3>1. f = [j \in 0..(m - 1) |-> IF j = 0 THEN 0 ELSE f[j - 1] + rows[j]]
      BY <2>2 DEF IsSum
    <3>2. CASE k = m
      BY <3>2, <1>3, <2>1
    <3>3. CASE k # m
      <4>1. k \in 0..(m - 1)
        BY <3>3, <2>1
      <4>2. g[k] = f[k] /\ (k # 0 => k - 1 \in 0..m /\ k - 1 # m /\ g[k - 1] = f[k - 1])
        BY <3>3, <2>1
      <4>3. f[k] = IF k = 0 THEN 0 ELSE f[k - 1] + rows[k]
        BY ONLY <3>1, <4>1
      <4> QED BY ONLY <4>2, <4>3
    <3> QED BY <3>2, <3>3
  <2>4. g = [k \in 0..m |-> g[k]]
    OBVIOUS
  <2> HIDE DEF g
  <2>5. IsSum(g, rows, m)
    BY <2>3, <2>4 DEF IsSum
  <2> QED BY <2>5, <1>1
<1> QED BY <1>2, <1>3

\* The size of some rows is a number.
LEMMA BytesIsNat ==
  ASSUME NEW rows \in Seq(Nat), NEW n \in 0..Len(rows)
  PROVE  Bytes(rows, n) \in Nat /\ (n = 0 => Bytes(rows, n) = 0)
<1> DEFINE f == CHOOSE g : IsSum(g, rows, n)
<1>1. IsSum(f, rows, n)
  BY SumsExist
<1>2. Bytes(rows, n) = f[n]
  BY BytesIs
<1> HIDE DEF f
<1>3. f = [k \in 0..n |-> IF k = 0 THEN 0 ELSE f[k - 1] + rows[k]]
  BY <1>1 DEF IsSum
<1>4. \A k \in 0..n : f[k] = IF k = 0 THEN 0 ELSE f[k - 1] + rows[k]
  BY ONLY <1>3
<1>5. f[n] \in Nat
  <2> DEFINE T == {k \in 0..n : f[k] \notin Nat}
  <2> SUFFICES ASSUME T # {} PROVE FALSE
    OBVIOUS
  <2>1. PICK m \in T : \A k \in T : m <= k
    <3>1. T \in SUBSET Nat
      OBVIOUS
    <3> HIDE DEF T
    <3> QED BY <3>1, Least
  <2>2. m # 0
    BY <2>1, <1>4
  <2>3. m - 1 \in 0..n /\ f[m - 1] \in Nat /\ rows[m] \in Nat
    BY <2>1, <2>2
  <2> QED BY <2>1, <2>2, <2>3, <1>4
<1> QED BY <1>2, <1>4, <1>5

\* The size of some rows depends on these rows only.
LEMMA BytesOfPrefix ==
  ASSUME NEW s, NEW rows, NEW n \in Nat, \A k \in 1..n : s[k] = rows[k]
  PROVE  Bytes(s, n) = Bytes(rows, n)
<1>1. ASSUME NEW f PROVE IsSum(f, s, n) <=> IsSum(f, rows, n)
  <2>1. [k \in 0..n |-> IF k = 0 THEN 0 ELSE f[k - 1] + s[k]]
          = [k \in 0..n |-> IF k = 0 THEN 0 ELSE f[k - 1] + rows[k]]
    OBVIOUS
  <2> QED BY <2>1 DEF IsSum
<1>2. (CHOOSE f : IsSum(f, s, n)) = (CHOOSE f : IsSum(f, rows, n))
  BY <1>1
<1> QED BY <1>2, BytesIs

\* What KeptCount() chooses exists: it is one less than the first row over the cap.
Keeps(rows, n) ==
    /\ \A k \in 1..n : MaxBytes = 0 \/ Bytes(rows, k) <= MaxBytes
    /\ n = Len(rows) \/ (MaxBytes > 0 /\ Bytes(rows, n + 1) > MaxBytes)

LEMMA KeptCountIs ==
  ASSUME NEW rows \in Seq(Nat)
  PROVE  KeptCount(rows) \in 0..Len(rows) /\ Keeps(rows, KeptCount(rows))
<1> DEFINE T == {k \in 1..Len(rows) : Bytes(rows, k) > MaxBytes}
<1>1. MaxBytes \in Nat /\ \A k \in 0..Len(rows) : Bytes(rows, k) \in Nat
  BY DomainAssumption, BytesIsNat
<1>2. \E n \in 0..Len(rows) : Keeps(rows, n)
  <2>1. CASE MaxBytes = 0 \/ T = {}
    <3>1. ASSUME NEW k \in 1..Len(rows) PROVE MaxBytes = 0 \/ Bytes(rows, k) <= MaxBytes
      BY <1>1, <2>1
    <3>2. Keeps(rows, Len(rows))
      BY <3>1 DEF Keeps
    <3> QED BY <3>2
  <2>2. CASE MaxBytes # 0 /\ T # {}
    <3>1. PICK m \in T : \A k \in T : m <= k
      <4>1. T \in SUBSET Nat
        OBVIOUS
      <4> HIDE DEF T
      <4> QED BY <4>1, <2>2, Least
    <3>2. m \in 1..Len(rows) /\ m - 1 \in 0..Len(rows) /\ (m - 1) + 1 = m
      BY <3>1
    <3>3. ASSUME NEW k \in 1..(m - 1) PROVE Bytes(rows, k) <= MaxBytes
      <4>1. k \notin T /\ k \in 1..Len(rows)
        BY <3>1, <3>2
      <4> QED BY <4>1, <1>1
    <3>4. Keeps(rows, m - 1)
      BY <3>1, <3>2, <3>3, <2>2, <1>1 DEF Keeps
    <3> QED BY <3>2, <3>4
  <2> QED BY <2>1, <2>2
<1>3. KeptCount(rows) = CHOOSE n \in 0..Len(rows) : Keeps(rows, n)
  BY DEF KeptCount, Keeps
<1> QED BY <1>2, <1>3

\* The rows of an answer.
LEMMA ResultIs ==
  ASSUME NEW rows \in Seq(Nat)
  PROVE  LET kept == Result(rows).rows IN
         /\ \A i \in DOMAIN kept : kept[i] = rows[i]
         /\ Len(kept) <= MaxRows
         /\ MaxBytes > 0 => Bytes(kept, Len(kept)) <= MaxBytes
         /\ Result(rows).truncated = "" => kept = rows
         /\ Result(rows).truncated = "rows" => Len(kept) = MaxRows
         /\ Result(rows).truncated = "bytes"
               => MaxBytes > 0 /\ Bytes(rows, Len(kept) + 1) > MaxBytes
<1> DEFINE m == IF Len(rows) < MaxRows THEN Len(rows) ELSE MaxRows
           fetched == Fetched(rows)
           n == KeptCount(fetched)
           kept == SubSeq(fetched, 1, n)
<1>1. m \in 0..Len(rows) /\ m <= MaxRows /\ MaxRows \in Nat \ {0} /\ MaxBytes \in Nat
  BY DomainAssumption
<1>2. /\ fetched \in Seq(Nat) /\ Len(fetched) = m
      /\ \A i \in 1..m : fetched[i] = rows[i]
  <2>1. fetched = SubSeq(rows, 1, m)
    BY DEF Fetched
  <2>2. \A i \in 1..m : rows[i] \in Nat
    BY <1>1
  <2> HIDE DEF m, fetched
  <2> QED BY <2>1, <2>2, <1>1, SubSeqProperties
<1>3. /\ Result(rows).rows = kept
      /\ Result(rows).truncated =
            IF n < Len(fetched) THEN "bytes" ELSE IF n >= MaxRows THEN "rows" ELSE ""
  BY DEF Result
<1>4. n \in 0..Len(fetched) /\ Keeps(fetched, n)
  BY <1>2, KeptCountIs
<1> HIDE DEF fetched, n
<1>5. kept \in Seq(Nat) /\ Len(kept) = n /\ \A i \in 1..n : kept[i] = fetched[i]
  <2>1. \A i \in 1..n : fetched[i] \in Nat
    BY <1>2, <1>4
  <2> QED BY <1>2, <1>4, <2>1, SubSeqProperties
<1> HIDE DEF kept
<1>6. \A i \in DOMAIN kept : kept[i] = rows[i]
  <2>1. DOMAIN kept = 1..n /\ \A i \in 1..n : i \in 1..m
    BY <1>1, <1>2, <1>4, <1>5
  <2> HIDE DEF m
  <2> QED BY <2>1, <1>2, <1>5
<1>7. Len(kept) <= MaxRows
  BY <1>1, <1>2, <1>4, <1>5
<1>8. ASSUME MaxBytes > 0 PROVE Bytes(kept, Len(kept)) <= MaxBytes
  <2>1. Bytes(kept, n) = Bytes(fetched, n)
    BY <1>4, <1>5, BytesOfPrefix
  <2>2. CASE n = 0
    <3>1. Bytes(fetched, n) = 0
      BY <2>2, <1>2, <1>4, BytesIsNat
    <3> QED BY ONLY <3>1, <2>1, <1>1, <1>5
  <2>3. CASE n # 0
    <3>1. n \in 1..n
      BY <2>3, <1>4
    <3>2. MaxBytes # 0
      BY <1>8
    <3> QED BY <2>1, <3>1, <3>2, <1>4, <1>5 DEF Keeps
  <2> QED BY <2>2, <2>3
<1>9. ASSUME Result(rows).truncated = "" PROVE kept = rows
  <2>1. ~(n < Len(fetched)) /\ ~(n >= MaxRows)
    BY ONLY <1>9, <1>3
  <2>2. n = Len(fetched) /\ n < MaxRows
    BY <2>1, <1>1, <1>2, <1>4
  <2>3. Len(rows) = n
    BY <2>2, <1>1, <1>2
  <2>4. \A i \in 1..n : kept[i] = rows[i]
    BY <2>2, <2>3, <1>2, <1>5
  <2> HIDE DEF m
  <2> QED BY <2>3, <2>4, <1>5
<1>10. ASSUME Result(rows).truncated = "rows" PROVE Len(kept) = MaxRows
  <2>1. n >= MaxRows
    BY ONLY <1>10, <1>3
  <2> QED BY <2>1, <1>1, <1>5, <1>7
<1>11. ASSUME Result(rows).truncated = "bytes"
       PROVE  MaxBytes > 0 /\ Bytes(rows, Len(kept) + 1) > MaxBytes
  <2>1. n < Len(fetched)
    BY ONLY <1>11, <1>3
  <2>2. MaxBytes > 0 /\ Bytes(fetched, n + 1) > MaxBytes
    BY <2>1, <1>4 DEF Keeps
  <2>3. n + 1 \in Nat /\ \A k \in 1..(n + 1) : k \in 1..m
    BY <2>1, <1>1, <1>2, <1>4
  <2>4. Bytes(fetched, n + 1) = Bytes(rows, n + 1)
    <3> HIDE DEF m
    <3> QED BY <2>3, <1>2, BytesOfPrefix
  <2> QED BY <2>2, <2>4, <1>5
<1> QED BY <1>3, <1>6, <1>7, <1>8, <1>9, <1>10, <1>11

-----------------------------------------------------------------------------
\* What Answers() promises of one slot.
SlotOK(d, args, sql, params, i) ==
    IF i \in ValueSlots(d)
      THEN LET value == params[Cardinality({j \in ValueSlots(d) : j <= i})]
               p == d.parameters[d.slots[i]] IN
           /\ sql[i] = "?"
           /\ Given(args, d.slots[i])
                => /\ args[d.slots[i]] \in DOMAIN p.coerce
                   /\ value = p.coerce[args[d.slots[i]]]
           /\ ~Given(args, d.slots[i])
                => \/ value = None /\ p.default = None
                   \/ p.default \in DOMAIN p.coerce /\ value = p.coerce[p.default]
           /\ p.required => value # None
      ELSE \E v \in DOMAIN d.identifiers[d.slots[i]] :
              sql[i] = d.identifiers[d.slots[i]][v]

\* A value that is not null is never coerced to null.
LEMMA CoercedIsNotNull ==
  ASSUME NEW d, IsDefinition(d), NEW p \in Declared(d), NEW raw \in DOMAIN d.parameters[p].coerce
  PROVE  d.parameters[p].coerce[raw] # None
<1>1. d.parameters[p].coerce[raw] \in Raws
  BY DEF IsDefinition, IsMapping, Declared
<1> QED BY <1>1, DomainAssumption DEF Raws

LEMMA RenderedIsDeclared ==
  ASSUME NEW d, IsDefinition(d), Loadable(d), NEW args, Renders(d, args), NEW i \in DOMAIN d.slots
  PROVE  SlotOK(d, args, Sql(d, args), Params(d, args), i)
<1> DEFINE slot == d.slots[i]
           p == d.parameters[slot]
           raw == Raw(d, args, slot)
<1>1. Accepted(d, args, slot)
  BY DEF Renders, SlotsOf
<1>2. i \in ValueSlots(d) <=> slot \notin Identifiers(d)
  BY DEF ValueSlots
<1>3. Sql(d, args)[i] = IF slot \in Identifiers(d) THEN d.identifiers[slot][raw] ELSE "?"
  BY DEF Sql
<1>4. CASE i \in ValueSlots(d)
  <2> DEFINE k == Cardinality({j \in ValueSlots(d) : j <= i})
             value == Params(d, args)[k]
  <2>1. k \in DOMAIN BoundSlots(d) /\ BoundSlots(d)[k] = slot
    BY <1>4, BoundIsSlot DEF Rank, IsDefinition
  <2>2. value = Effective(d, args, slot)
    BY <2>1 DEF Params
  <2> HIDE DEF k
  <2>3. value = IF raw = None THEN None ELSE p.coerce[raw]
    BY <2>2, <1>2, <1>4 DEF Effective
  <2>4. /\ p.required => raw \notin Absent
        /\ raw = None \/ raw \in DOMAIN p.coerce
    BY <1>1, <1>2, <1>4 DEF Accepted
  <2>5. slot \in Declared(d)
    BY <1>2, <1>4 DEF Loadable, SlotsDefined, SlotsOf
  <2>6. ASSUME Given(args, slot)
        PROVE  args[slot] \in DOMAIN p.coerce /\ value = p.coerce[args[slot]]
    <3>1. raw = args[slot] /\ raw # None
      BY <2>6 DEF Raw, Given, Absent
    <3> QED BY <3>1, <2>3, <2>4
  <2>7. ASSUME ~Given(args, slot)
        PROVE  \/ value = None /\ p.default = None
               \/ p.default \in DOMAIN p.coerce /\ value = p.coerce[p.default]
    <3>1. raw = p.default
      BY <2>7 DEF Raw
    <3> QED BY <3>1, <2>3, <2>4
  <2>8. ASSUME p.required PROVE value # None
    <3>1. raw # None /\ raw \in DOMAIN p.coerce
      BY <2>4, <2>8 DEF Absent
    <3> QED BY <3>1, <2>3, <2>5, CoercedIsNotNull
  <2> QED BY <2>6, <2>7, <2>8, <1>2, <1>3, <1>4 DEF SlotOK, k
<1>5. CASE i \notin ValueSlots(d)
  BY <1>1, <1>2, <1>3, <1>5 DEF Accepted, SlotOK
<1> QED BY <1>4, <1>5

\* An answer with rows is one of a definition that can be rendered with its arguments.
AnswerIs(a) ==
    a.status = "rows" =>
       /\ IsDefinition(a.definition) /\ Loadable(a.definition)
       /\ Renders(a.definition, a.args)
       /\ a.sql = Sql(a.definition, a.args) /\ a.params = Params(a.definition, a.args)
       /\ a.table \in RowSets /\ a.result = Result(a.table)

LEMMA AnswersAre ==
  ASSUME NEW d \in Definitions, Loadable(d), NEW args, Renders(d, args), NEW a \in Answers(d, args)
  PROVE  AnswerIs(a)
<1>1. IsDefinition(d)
  BY RegistryAssumption
<1>2. CASE a.status # "rows"
  BY <1>2 DEF AnswerIs
<1>3. CASE a.status = "rows"
  <2>1. PICK rows \in RowSets :
          a = [status |-> "rows", definition |-> d, args |-> args, sql |-> Sql(d, args),
               params |-> Params(d, args), table |-> rows, result |-> Result(rows)]
    BY <1>3 DEF Answers
  <2> QED BY ONLY <2>1, <1>1, Loadable(d), Renders(d, args) DEF AnswerIs
<1> QED BY <1>2, <1>3

LEMMA AnswerIsStep == RegistryInv /\ AnswerIs(answer) /\ [DomainNext]_domain => AnswerIs(answer')
<1> SUFFICES ASSUME RegistryInv, AnswerIs(answer), [DomainNext]_domain PROVE AnswerIs(answer')
  OBVIOUS
<1>1. ASSUME answer'.status # "rows" PROVE AnswerIs(answer')
  BY <1>1 DEF AnswerIs
<1>2. ASSUME answer' = NoAnswer PROVE AnswerIs(answer')
  BY <1>1, <1>2 DEF NoAnswer
<1>3. CASE UNCHANGED domain
  BY <1>3 DEF domain
<1>4. ASSUME NEW t \in Callers, Run(t) \/ CheckMtime(t) \/ Install(t) PROVE AnswerIs(answer')
  BY <1>4, <1>2 DEF Run, CheckMtime, Install, AfterCheck, Be
<1>5. ASSUME NEW t \in Callers, LoadDefinitions(t) PROVE AnswerIs(answer')
  <2>1. answer' \in {NoAnswer, [status |-> "raised"], [status |-> "unknown"]}
    BY <1>5 DEF LoadDefinitions, Be, Answer
  <2> QED BY <2>1, <1>1, <1>2
<1>6. ASSUME NEW t \in Callers, GetAndQuery(t) PROVE AnswerIs(answer')
  <2>1. PICK args \in ArgumentSets :
          \/ answer' \in {[status |-> "unknown"], [status |-> "invalid"]}
          \/ /\ specs # OtherTools /\ Renders(specs, args)
             /\ \E a \in Answers(specs, args) : answer' = a
    BY <1>6 DEF GetAndQuery, Answer
  <2>2. CASE answer' \in {[status |-> "unknown"], [status |-> "invalid"]}
    BY <2>2, <1>1
  <2>3. CASE /\ specs # OtherTools /\ Renders(specs, args)
             /\ \E a \in Answers(specs, args) : answer' = a
    <3>1. specs \in Definitions /\ Loadable(specs)
      BY <2>3 DEF RegistryInv, RegistryTypes, Covered, CanLoad, Good, Texts
    <3> QED BY <2>3, <3>1, AnswersAre
  <2> QED BY <2>1, <2>2, <2>3
<1>7. CASE Advance \/ Write
  BY <1>7, <1>2 DEF Advance, Write
<1> QED BY <1>3, <1>4, <1>5, <1>6, <1>7 DEF DomainNext

\* render() and QueryExecutor.run(): for any definitions, arguments, rows and caps every
\* placeholder is bound to the value of its own slot, and the rows are the first the query
\* has within both caps, as AnswersAsDeclared says.
THEOREM CatalogAnswersAsDeclared == DomainSpec => []AnswersAsDeclared
<1>1. DomainInit => AnswerIs(answer)
  BY DEF DomainInit, NoAnswer, AnswerIs
<1>2. AnswerIs(answer) => AnswersAsDeclared
  <2> SUFFICES ASSUME AnswerIs(answer), answer.status = "rows" PROVE AnswersAsDeclared
    BY DEF AnswersAsDeclared
  <2> DEFINE d == answer.definition
             args == answer.args
             kept == answer.result.rows
  <2>1. /\ IsDefinition(d) /\ Loadable(d) /\ Renders(d, args)
        /\ answer.sql = Sql(d, args) /\ answer.params = Params(d, args)
        /\ answer.table \in Seq(Nat) /\ answer.result = Result(answer.table)
    BY RegistryAssumption DEF AnswerIs
  <2>2. \A i \in DOMAIN d.slots : SlotOK(d, args, answer.sql, answer.params, i)
    BY ONLY <2>1, RenderedIsDeclared
  <2>3. /\ \A i \in DOMAIN kept : kept[i] = answer.table[i]
        /\ Len(kept) <= MaxRows
        /\ MaxBytes > 0 => Bytes(kept, Len(kept)) <= MaxBytes
        /\ answer.result.truncated = "" => kept = answer.table
        /\ answer.result.truncated = "rows" => Len(kept) = MaxRows
        /\ answer.result.truncated = "bytes"
              => MaxBytes > 0 /\ Bytes(answer.table, Len(kept) + 1) > MaxBytes
    BY <2>1, ResultIs
  <2> QED BY <2>2, <2>3 DEF AnswersAsDeclared, SlotOK
<1>3. DomainSpec => [](RegistryInv /\ AnswerIs(answer))
  <2>1. (RegistryInv /\ AnswerIs(answer)) /\ [DomainNext]_domain
          => (RegistryInv /\ AnswerIs(answer))'
    BY RegistryStep, AnswerIsStep DEF AnswerIs
  <2> QED BY <1>1, <2>1, InitRegistryInv, PTL DEF DomainSpec
<1> QED BY <1>2, <1>3, PTL
=============================================================================
