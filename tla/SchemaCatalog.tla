---------------------------- MODULE SchemaCatalog ----------------------------
(***************************************************************************)
(* mcp_server/catalog/service.py: the catalog all threads share, a cache   *)
(* of table schemas over the database and over the YAML file with the      *)
(* semantic metadata.  A read of the database is one step, outside the     *)
(* lock; so is a read of the file, inside it.  The table list, which is    *)
(* cached the same way without semantics or a limit, invalidate() and      *)
(* get_table(refresh=True), which nothing in the server calls, and the     *)
(* hit statistics are left out.                                            *)
(***************************************************************************)
EXTENDS Naturals, FiniteSets

CONSTANTS Threads, Tables,
          NoTable,
          Schemas,      \* what the database may answer for a table
          NoEntry, NoThread,
          TTL,          \* ttl_seconds
          MaxEntries,   \* max_entries
          MaxNow,       \* bound: ticks of the clock
          MaxEdits,     \* bound: versions of the file
          MaxChanges    \* bound: changes of the database

ASSUME CatalogAssumption ==
    /\ NoTable \notin Tables
    /\ NoThread \notin Threads
    /\ NoEntry \notin [schema : Schemas, columns : 0..MaxEdits, meta : 0..MaxEdits,
                       expire : Nat]
    /\ IsFiniteSet(Tables)
    /\ TTL \in Nat /\ MaxEntries \in Nat /\ MaxNow \in Nat
    /\ MaxEdits \in Nat \ {0} /\ MaxChanges \in Nat

Missing == 0

VARIABLES now,        \* time.monotonic()
          file,       \* the file: its mtime, which stands for its text, or Missing
          edits,      \* number of versions so far
          changes,    \* number of changes of the database so far
          database,   \* the schema of each table in the database
          changed,    \* history: when it changed last
          semantic, mtime, checked,   \* _semantic, _semantic_mtime, _semantic_checked
          reloaded,   \* history: when _semantic changed last
          torn,       \* history: the file changed while the last reload read it
          cache,      \* _cache
          lock,       \* the thread that reloads, under _lock
          pc, table,  \* where each thread is, and for which table
          start,      \* the time it took before its lookup
          row,        \* the entry it is loading
          text        \* the text of the file it has read

world == <<now, file, edits, changes, database, changed>>
semantics == <<semantic, mtime, reloaded, torn>>
local == <<pc, table, start, row, text>>
vars == <<world, semantics, checked, cache, lock, local>>

Versions == 0..MaxEdits
Entries == [schema : Schemas, columns : Versions, meta : Versions, expire : Nat]

\* The answer s of the database.
Row(s) == [schema |-> s, columns |-> Missing, meta |-> Missing, expire |-> 0]

\* The server is up and has loaded version 1 of the file.
Init ==
    /\ now = 0
    /\ file = 1 /\ edits = 1
    /\ changes = 0
    /\ database \in [Tables -> Schemas]
    /\ changed = [k \in Tables |-> 0]
    /\ semantic = file /\ mtime = file
    /\ checked = 0 /\ reloaded = 0
    /\ torn = FALSE
    /\ cache = [k \in Tables |-> NoEntry]
    /\ lock = NoThread
    /\ pc = [t \in Threads |-> "idle"]
    /\ table = [t \in Threads |-> NoTable]
    /\ start = [t \in Threads |-> 0]
    /\ row = [t \in Threads |-> NoEntry]
    /\ text = [t \in Threads |-> Missing]

Goto(t, s) == pc' = [pc EXCEPT ![t] = s]
Unlocked == lock = NoThread

\* The call returns or raises: its locals are gone.
Return(t) ==
    /\ Goto(t, "idle")
    /\ table' = [table EXCEPT ![t] = NoTable]
    /\ start' = [start EXCEPT ![t] = 0]
    /\ row' = [row EXCEPT ![t] = NoEntry]
    /\ UNCHANGED text

-----------------------------------------------------------------------------
(* _maybe_reload_semantics() and reload_semantics() *)

\* get_table(k).
Call(t, k) ==
    /\ pc[t] = "idle"
    /\ table' = [table EXCEPT ![t] = k]
    /\ Goto(t, "check")
    /\ UNCHANGED <<world, semantics, checked, cache, lock, start, row, text>>

\* One critical section: the check time is set before the mtimes are compared.
MaybeReload(t) ==
    /\ pc[t] = "check"
    /\ Unlocked
    /\ \/ now < checked + TTL /\ Goto(t, "clock") /\ UNCHANGED checked
       \/ /\ now >= checked + TTL
          /\ checked' = now
          /\ Goto(t, IF file = mtime THEN "clock" ELSE "reload")
    /\ UNCHANGED <<world, semantics, cache, lock, table, start, row, text>>

\* load_semantics(): a missing or malformed file is empty semantics, never an error.
ReloadRead(t) ==
    /\ pc[t] = "reload"
    /\ Unlocked
    /\ lock' = t
    /\ text' = [text EXCEPT ![t] = file]
    /\ torn' = FALSE
    /\ Goto(t, "install")
    /\ UNCHANGED <<world, semantic, mtime, reloaded, checked, cache, table, start, row>>

NewSemantics_KeepsDeleted(t) == IF text[t] = Missing THEN semantic ELSE text[t]
NewSemantics(t) == text[t]

\* The new semantics, the mtime of the file as it is now, and the cache emptied.
ReloadInstall(t) ==
    /\ pc[t] = "install"
    /\ semantic' = NewSemantics(t)
    /\ mtime' = file
    /\ reloaded' = now
    /\ cache' = [k \in Tables |-> NoEntry]
    /\ lock' = NoThread
    /\ text' = [text EXCEPT ![t] = Missing]
    /\ Goto(t, "clock")
    /\ UNCHANGED <<world, torn, checked, table, start, row>>

-----------------------------------------------------------------------------
(* get_table() after that, _load_table() and _trim_cache() *)

\* now = time.monotonic(), before the lock.
ReadClock(t) ==
    /\ pc[t] = "clock"
    /\ start' = [start EXCEPT ![t] = now]
    /\ Goto(t, "lookup")
    /\ UNCHANGED <<world, semantics, checked, cache, lock, table, row, text>>

Usable(t) == cache[table[t]] # NoEntry /\ start[t] < cache[table[t]].expire

\* A hit returns the entry.
Lookup(t) ==
    /\ pc[t] = "lookup"
    /\ Unlocked
    /\ IF Usable(t) THEN Return(t) ELSE Goto(t, "load") /\ UNCHANGED <<table, start, row, text>>
    /\ UNCHANGED <<world, semantics, checked, cache, lock>>

\* The statements of the load; an error of the database ends the call.
Load(t) ==
    /\ pc[t] = "load"
    /\ row' = [row EXCEPT ![t] = Row(database[table[t]])]
    /\ Goto(t, "columns")
    /\ UNCHANGED <<world, semantics, checked, cache, lock, table, start, text>>

LoadFails(t) ==
    /\ pc[t] = "load"
    /\ Return(t)
    /\ UNCHANGED <<world, semantics, checked, cache, lock>>

\* self._semantic is read without the lock, for the columns and again for the table.
MergeColumns(t) ==
    /\ pc[t] = "columns"
    /\ row' = [row EXCEPT ![t] = [@ EXCEPT !.columns = semantic]]
    /\ Goto(t, "meta")
    /\ UNCHANGED <<world, semantics, checked, cache, lock, table, start, text>>

MergeMeta(t) ==
    /\ pc[t] = "meta"
    /\ row' = [row EXCEPT ![t] = [@ EXCEPT !.meta = semantic]]
    /\ Goto(t, "store")
    /\ UNCHANGED <<world, semantics, checked, cache, lock, table, start, text>>

Cached(c) == {k \in Tables : c[k] # NoEntry}

Excess_OffByOne(c) == Cardinality(Cached(c)) - (MaxEntries + 1)
Excess(c) == Cardinality(Cached(c)) - MaxEntries

\* Over max_entries the tables that expire first are dropped.
Trimmed(c) ==
    IF Cardinality(Cached(c)) <= MaxEntries THEN {c}
    ELSE {[k \in Tables |-> IF k \in old THEN NoEntry ELSE c[k]] :
            old \in {o \in SUBSET Cached(c) :
                       /\ Cardinality(o) = Excess(c)
                       /\ \A k \in o, l \in Cached(c) \ o : c[k].expire <= c[l].expire}}

Expiry_AtStore(t) == now + TTL
Expiry(t) == start[t] + TTL

Store(t) ==
    /\ pc[t] = "store"
    /\ Unlocked
    /\ cache' \in Trimmed([cache EXCEPT ![table[t]] = [row[t] EXCEPT !.expire = Expiry(t)]])
    /\ Return(t)
    /\ UNCHANGED <<world, semantics, checked, lock>>

-----------------------------------------------------------------------------
(* The clock, the editor of the file and the owner of the database *)

Tick ==
    /\ now < MaxNow
    /\ now' = now + 1
    /\ UNCHANGED <<file, edits, changes, database, changed, semantics, checked, cache, lock, local>>

EditFile ==
    /\ edits < MaxEdits
    /\ edits' = edits + 1
    /\ file' \in {Missing, edits + 1}
    /\ torn' = (torn \/ ~Unlocked)
    /\ UNCHANGED <<now, changes, database, changed, semantic, mtime, reloaded, checked, cache,
                   lock, local>>

ChangeSchema(k) ==
    /\ changes < MaxChanges
    /\ changes' = changes + 1
    /\ \E s \in Schemas \ {database[k]} : database' = [database EXCEPT ![k] = s]
    /\ changed' = [changed EXCEPT ![k] = now]
    /\ UNCHANGED <<now, file, edits, semantics, checked, cache, lock, local>>

-----------------------------------------------------------------------------
ThreadStep(t) ==
    \/ MaybeReload(t) \/ ReloadRead(t) \/ ReloadInstall(t)
    \/ ReadClock(t) \/ Lookup(t) \/ Load(t) \/ LoadFails(t)
    \/ MergeColumns(t) \/ MergeMeta(t) \/ Store(t)

Next ==
    \/ \E t \in Threads : ThreadStep(t) \/ \E k \in Tables : Call(t, k)
    \/ Tick \/ EditFile
    \/ \E k \in Tables : ChangeSchema(k)

Spec == Init /\ [][Next]_vars

-----------------------------------------------------------------------------
\* Every variable has its type; the cache of tables holds no more than max_entries.
TypeOK ==
    /\ now \in Nat /\ checked \in Nat /\ reloaded \in Nat
    /\ file \in Versions /\ edits \in Nat /\ changes \in Nat
    /\ semantic \in Versions /\ mtime \in Versions
    /\ database \in [Tables -> Schemas]
    /\ changed \in [Tables -> Nat]
    /\ torn \in BOOLEAN
    /\ cache \in [Tables -> Entries \cup {NoEntry}]
    /\ Cardinality(Cached(cache)) <= MaxEntries
    /\ lock \in Threads \cup {NoThread}
    /\ pc \in [Threads -> {"idle", "check", "reload", "install", "clock", "lookup", "load",
                           "columns", "meta", "store"}]
    /\ table \in [Threads -> Tables \cup {NoTable}]
    /\ start \in [Threads -> Nat]
    /\ row \in [Threads -> Entries \cup {NoEntry}]
    /\ text \in [Threads -> Versions]

\* A schema that can still be served is the database's if that has not changed
\* for ttl_seconds, and carries the catalog's semantics if those have not changed for
\* ttl_seconds: a load that is overtaken by a change, a reload or another load may undo
\* them in the cache, but for no longer than that.
StaleOnlyWithinTtl ==
    \A k \in Tables : cache[k] # NoEntry /\ now < cache[k].expire =>
        /\ changed[k] + TTL <= now => cache[k].schema = database[k]
        /\ reloaded + TTL <= now =>
              cache[k].columns = semantic /\ cache[k].meta = semantic

\* "Hot reload by mtime": when the remembered mtime is the file's, so that no check will
\* reload, the semantics are the file's too, deleted file included, unless the file was
\* written between the two looks reload_semantics() takes at it.
SemanticsFollowFile ==
    Unlocked /\ mtime = file /\ ~torn => semantic = file

\* "Semantics are hot reloaded by the mtime of the YAML": whenever no check will reload, the
\* semantics are the file's, also when it is written while reload_semantics() is at it.
SemanticsAreReloaded ==
    Unlocked /\ mtime = file => semantic = file
=============================================================================
