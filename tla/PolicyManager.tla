---------------------------- MODULE PolicyManager ----------------------------
(***************************************************************************)
(* mcp_server/authorization/manager.py: the versioned policy store in      *)
(* MySQL (MySqlPolicyStore) and, in every server or CLI process, one       *)
(* PolicyManager that caches the active version.                           *)
(*                                                                         *)
(* A version is the hash of its document, so a document stands for its     *)
(* version.  The store changes in a transaction: SELECT ... FOR UPDATE     *)
(* locks the row of the active pointer, the statements that follow change  *)
(* the store and the commit releases the row.  The manager runs get() and  *)
(* the tail of publish() under its RLock; get_context() and reload() read  *)
(* _cached and _cached_policy again after the lock is released.            *)
(***************************************************************************)
EXTENDS Naturals, FiniteSets

CONSTANTS Threads,        \* threads of all processes
          Home,           \* Home[t]: the process (manager) thread t runs in
          Calls,          \* Calls[t]: which of the manager's methods it calls
          Pollers,        \* threads that ask for the policy for ever (readiness probe)
          Docs,           \* policy documents
          Seed,           \* the document of configs/permissions.yaml
          NoDoc, NoThread,
          MaxPublish,     \* bound: calls of publish()
          MaxFaults       \* bound: failed store reads and failed audit writes

Managers == {Home[t] : t \in Threads}
Methods  == {"context", "reload", "publish"}
Bootstrap == "bootstrap"

ASSUME PolicyAssumption ==
    /\ Calls \in [Threads -> SUBSET Methods]
    /\ Pollers \subseteq {t \in Threads : "context" \in Calls[t]}
    /\ Seed \in Docs
    /\ NoDoc \notin Docs
    /\ NoThread \notin Threads
    /\ MaxPublish \in Nat /\ MaxFaults \in Nat

VARIABLES active,    \* policy_active -> policy_versions, NoDoc when empty
          versions,  \* rows of policy_versions
          row,       \* transaction that holds the row of policy_active locked
          lastActor, \* actor of the last row of policy_audit; a thread stands for its user
          publishes, \* number of calls of publish()
          faults,    \* number of injected failures
          cached,    \* _cached (the record) of each manager
          policy,    \* _cached_policy (the compiled policy) of each manager
          fresh,     \* now - _last_check < reload_seconds
          lock,      \* owner of the manager's RLock
          pc, op,    \* where each thread is, and in which call
          arg,       \* document and expected version of its publish
          rec,       \* the record it read from the store
          seen,      \* the compiled policy get_context() took after the lock
          during,    \* history: versions active at some moment of its reload()
          raced      \* history: records that publications of the same process
                     \* installed during its reload()

store == <<active, versions, lastActor>>
history == <<during, raced>>
cache == <<cached, policy, fresh>>
local == <<op, arg, rec, seen, history>>
vars == <<store, row, cache, publishes, faults, lock, pc, local>>

Maybe == Docs \cup {NoDoc}
NoArg == [doc |-> NoDoc, expected |-> NoDoc]

InGet == {"read", "compare", "setrecord"}
Steps == InGet \cup {"idle", "enter", "select", "write", "readback", "install",
                     "compile", "context", "version"}

Init ==
    /\ active = NoDoc
    /\ versions = {}
    /\ lastActor = NoThread
    /\ row = NoThread
    /\ publishes = 0
    /\ faults = 0
    /\ cached = [m \in Managers |-> NoDoc]
    /\ policy = [m \in Managers |-> NoDoc]
    /\ fresh = [m \in Managers |-> FALSE]
    /\ lock = [m \in Managers |-> NoThread]
    /\ pc = [t \in Threads |-> "idle"]
    /\ op = [t \in Threads |-> "none"]
    /\ arg = [t \in Threads |-> NoArg]
    /\ rec = [t \in Threads |-> NoDoc]
    /\ seen = [t \in Threads |-> NoDoc]
    /\ during = [t \in Threads |-> {}]
    /\ raced = [t \in Threads |-> {}]

Goto(t, s) == pc' = [pc EXCEPT ![t] = s]
Free(t) == lock[Home[t]] = NoThread
Lock(t) == lock' = [lock EXCEPT ![Home[t]] = t]

Unlock_KeepsLock(t) == UNCHANGED lock
Unlock(t) == lock' = [lock EXCEPT ![Home[t]] = IF @ = t THEN NoThread ELSE @]

\* The call returns or raises: its locals are gone and a lock it holds is released.
Finish(t) ==
    /\ Goto(t, "idle")
    /\ Unlock(t)
    /\ op' = [op EXCEPT ![t] = "none"]
    /\ arg' = [arg EXCEPT ![t] = NoArg]
    /\ rec' = [rec EXCEPT ![t] = NoDoc]
    /\ seen' = [seen EXCEPT ![t] = NoDoc]
    /\ during' = [during EXCEPT ![t] = {}]
    /\ raced' = [raced EXCEPT ![t] = {}]

\* A transaction that ends, by a commit or a rollback, releases the row if it holds it.
ReleaseRow(t) == row' = IF row = t THEN NoThread ELSE row

\* A database error, or an audit write that fails with AUDIT_REQUIRED set.
Raise(t) ==
    /\ faults < MaxFaults
    /\ faults' = faults + 1
    /\ Finish(t)
    /\ ReleaseRow(t)
    /\ UNCHANGED <<store, publishes>>

-----------------------------------------------------------------------------
(* PolicyManager.get(force) and its callers get_context() and reload() *)

\* "context": get_context(); "reload": reload(), which forces the read.
CallGet(t, kind) ==
    /\ pc[t] = "idle"
    /\ kind \in Calls[t]
    /\ Goto(t, "enter")
    /\ op' = [op EXCEPT ![t] = kind]
    /\ during' = [during EXCEPT ![t] = IF kind = "reload" THEN {active} ELSE {}]
    /\ UNCHANGED <<store, row, cache, publishes, faults, lock, arg, rec, seen, raced>>

Stale(t) == policy[Home[t]] = NoDoc \/ ~fresh[Home[t]]
MustRead_IgnoresForce(t) == Stale(t)
MustRead(t) == op[t] = "reload" \/ Stale(t)

\* Taking the RLock; a fresh cache is returned at once.
Enter(t) ==
    /\ pc[t] = "enter"
    /\ Free(t)
    /\ \/ MustRead(t) /\ Lock(t) /\ Goto(t, "read")
       \/ ~MustRead(t) /\ Goto(t, "context") /\ UNCHANGED lock
    /\ UNCHANGED <<store, row, cache, publishes, faults, local>>

\* _store.get_active(); an empty MySQL store is seeded.
ReadActive(t) ==
    /\ pc[t] = "read"
    /\ rec' = [rec EXCEPT ![t] = active]
    /\ IF active = NoDoc
         THEN Goto(t, "select") /\ arg' = [arg EXCEPT ![t] = [doc |-> Seed, expected |-> NoDoc]]
         ELSE Goto(t, "compare") /\ UNCHANGED arg
    /\ UNCHANGED <<store, row, cache, publishes, faults, lock, op, seen, history>>

ReadFails(t) == pc[t] = "read" /\ Raise(t) /\ UNCHANGED cache

\* The end of get(): _last_check is set, its locals are gone, the lock is released.
Refreshed(t) ==
    /\ fresh' = [fresh EXCEPT ![Home[t]] = TRUE]
    /\ arg' = [arg EXCEPT ![t] = NoArg]
    /\ rec' = [rec EXCEPT ![t] = NoDoc]
    /\ Unlock(t)
    /\ Goto(t, "context")

Changed_NeverAgain(t) == cached[Home[t]] = NoDoc
Changed(t) == rec[t] # cached[Home[t]]

\* The version comparison; a new version is compiled into _cached_policy first.
Compare(t) ==
    /\ pc[t] = "compare"
    /\ IF Changed(t)
         THEN /\ policy' = [policy EXCEPT ![Home[t]] = rec[t]]
              /\ Goto(t, "setrecord")
              /\ UNCHANGED <<fresh, lock, arg, rec>>
         ELSE Refreshed(t) /\ UNCHANGED policy
    /\ UNCHANGED <<store, row, cached, publishes, faults, op, seen, history>>

StoreRecord(t) == cached' = [cached EXCEPT ![Home[t]] = rec[t]]

\* _cached = record, log_event("policy_loaded") and the end of get().
SetRecord(t) ==
    /\ pc[t] = "setrecord"
    /\ StoreRecord(t)
    /\ Refreshed(t)
    /\ UNCHANGED <<store, row, policy, publishes, faults, op, seen, history>>

\* The mandatory audit write fails: the record stays, _last_check is not set.
LogLoadedFails(t) ==
    /\ pc[t] = "setrecord"
    /\ StoreRecord(t)
    /\ Raise(t)
    /\ UNCHANGED <<policy, fresh>>

\* After the lock: get_context() takes the compiled policy and then the record's version;
\* reload() takes the record only.
ReadPolicy(t) ==
    /\ pc[t] = "context"
    /\ op[t] = "context"
    /\ seen' = [seen EXCEPT ![t] = policy[Home[t]]]
    /\ Goto(t, "version")
    /\ UNCHANGED <<store, row, cache, publishes, faults, lock, op, arg, rec, history>>

ReadVersion(t) ==
    /\ \/ pc[t] = "version"
       \/ pc[t] = "context" /\ op[t] = "reload"
    /\ Finish(t)
    /\ UNCHANGED <<store, row, cache, publishes, faults>>

-----------------------------------------------------------------------------
(* PolicyManager.publish() and MySqlPolicyStore.publish() *)

\* The caller bases the document on the version it saw, or passes no expected version.
CallPublish(t, doc, expected) ==
    /\ pc[t] = "idle"
    /\ "publish" \in Calls[t]
    /\ publishes < MaxPublish
    /\ publishes' = publishes + 1
    /\ Goto(t, "select")
    /\ op' = [op EXCEPT ![t] = "publish"]
    /\ arg' = [arg EXCEPT ![t] = [doc |-> doc, expected |-> expected]]
    /\ UNCHANGED <<store, row, cache, faults, lock, rec, seen, history>>

Actor(t) == IF op[t] = "publish" THEN t ELSE Bootstrap

Conflict(t) == arg[t].expected # NoDoc /\ active # arg[t].expected

LocksRow_PlainSelect(t) == UNCHANGED row
\* The row exists once a version is active; an empty table has no row to lock.
LocksRow(t) == row' = IF active = NoDoc THEN row ELSE t

\* SELECT ... FOR UPDATE: it waits for the row, reads the committed version and compares
\* it with the expected one.
Select(t) ==
    /\ pc[t] = "select"
    /\ row = NoThread
    /\ ~Conflict(t)
    /\ LocksRow(t)
    /\ Goto(t, "write")
    /\ UNCHANGED <<store, cache, publishes, faults, lock, local>>

\* PolicyConflictError: the transaction is rolled back.
SelectConflict(t) ==
    /\ pc[t] = "select"
    /\ row = NoThread
    /\ Conflict(t)
    /\ Finish(t)
    /\ UNCHANGED <<store, row, cache, publishes, faults>>

\* Version row (an old row of the same hash is kept), active pointer, policy event and
\* commit: the store changes for others with the commit.
Write(t) ==
    /\ pc[t] = "write"
    /\ row \in {NoThread, t}
    /\ active' = arg[t].doc
    /\ versions' = versions \cup {arg[t].doc}
    /\ lastActor' = Actor(t)
    /\ row' = NoThread
    /\ during' = [u \in Threads |->
                     IF op[u] = "reload" THEN during[u] \cup {arg[t].doc} ELSE {}]
    /\ Goto(t, "readback")
    /\ UNCHANGED <<cache, publishes, faults, lock, op, arg, rec, seen, raced>>

\* A database error inside the transaction (a lost connection, a wait for the row that
\* times out, the victim of a deadlock of two transactions on the empty table): rollback.
TransactionFails(t) == pc[t] \in {"select", "write"} /\ Raise(t) /\ UNCHANGED cache

\* log_event("policy_published") and record = self.get_active(): by now it may be another
\* publisher's version.
ReadBack(t) ==
    /\ pc[t] = "readback"
    /\ rec' = [rec EXCEPT ![t] = active]
    /\ Goto(t, IF op[t] = "publish" THEN "install" ELSE "compare")
    /\ UNCHANGED <<store, row, cache, publishes, faults, lock, op, arg, seen, history>>

\* The audit write or the read fails after the commit: the version is published, the
\* caller sees an error and this manager keeps its old cache.
ReadBackFails(t) == pc[t] = "readback" /\ Raise(t) /\ UNCHANGED cache

\* The tail of PolicyManager.publish(), under the RLock: record first, then policy.
Install(t) ==
    /\ pc[t] = "install"
    /\ Free(t)
    /\ Lock(t)
    /\ StoreRecord(t)
    /\ raced' = [u \in Threads |-> IF op[u] = "reload" /\ Home[u] = Home[t]
                                     THEN raced[u] \cup {rec[t]} ELSE raced[u]]
    /\ Goto(t, "compile")
    /\ UNCHANGED <<store, row, policy, fresh, publishes, faults, op, arg, rec, seen, during>>

Compiled_Own(t) == arg[t].doc
Compiled(t) == rec[t]

Compile(t) ==
    /\ pc[t] = "compile"
    /\ policy' = [policy EXCEPT ![Home[t]] = Compiled(t)]
    /\ fresh' = [fresh EXCEPT ![Home[t]] = TRUE]
    /\ Finish(t)
    /\ UNCHANGED <<store, row, cached, publishes, faults>>

-----------------------------------------------------------------------------
\* The reload interval of a manager runs out.
Elapse(m) ==
    /\ fresh[m]
    /\ fresh' = [fresh EXCEPT ![m] = FALSE]
    /\ UNCHANGED <<store, row, cached, policy, publishes, faults, lock, pc, local>>

Locking(t) == Enter(t) \/ Install(t)

Running(t) ==
    \/ ReadActive(t) \/ Compare(t) \/ SetRecord(t) \/ ReadPolicy(t) \/ ReadVersion(t)
    \/ Select(t) \/ SelectConflict(t) \/ Write(t) \/ ReadBack(t) \/ Compile(t)

Failing(t) ==
    \/ ReadFails(t) \/ LogLoadedFails(t) \/ TransactionFails(t) \/ ReadBackFails(t)

Calling(t) ==
    \/ \E kind \in {"context", "reload"} : CallGet(t, kind)
    \/ \E d \in Docs, e \in {NoDoc, active} : CallPublish(t, d, e)

Next ==
    \/ \E t \in Threads : Calling(t) \/ Locking(t) \/ Running(t) \/ Failing(t)
    \/ \E m \in Managers : Elapse(m)

Spec == Init /\ [][Next]_vars

\* Threads are scheduled, the database answers, a waiter for the RLock gets it if it is
\* released again and again, the reload interval runs out, and the probes keep asking.
Fairness ==
    /\ \A t \in Threads : SF_vars(Locking(t)) /\ WF_vars(Running(t))
    /\ \A t \in Pollers : WF_vars(CallGet(t, "context"))
    /\ \A m \in Managers : WF_vars(Elapse(m))

FairSpec == Spec /\ Fairness

-----------------------------------------------------------------------------
\* Every variable has its type.
TypeOK ==
    /\ active \in Maybe
    /\ versions \in SUBSET Docs
    /\ lastActor \in Threads \cup {NoThread, Bootstrap}
    /\ row \in Threads \cup {NoThread}
    /\ publishes \in 0..MaxPublish
    /\ faults \in 0..MaxFaults
    /\ cached \in [Managers -> Maybe]
    /\ policy \in [Managers -> Maybe]
    /\ fresh \in [Managers -> BOOLEAN]
    /\ lock \in [Managers -> Threads \cup {NoThread}]
    /\ pc \in [Threads -> Steps]
    /\ op \in [Threads -> Methods \cup {"none"}]
    /\ arg \in [Threads -> [doc : Maybe, expected : Maybe]]
    /\ rec \in [Threads -> Maybe]
    /\ seen \in [Threads -> Maybe]
    /\ during \in [Threads -> SUBSET Maybe]
    /\ raced \in [Threads -> SUBSET Maybe]

\* Whenever a manager's lock is free, the compiled policy it serves is the one of the
\* record it reports, also after a store error or a failed audit write inside get().
CacheCoherent ==
    \A m \in Managers : lock[m] = NoThread => policy[m] = cached[m]

Answers(t) == op[t] = "reload" /\ pc[t] = "context" /\ pc'[t] = "idle"

\* The record reload() returns, which it reads after the lock is released, was active at
\* some moment of the call, or a publication of the same process installed it during the
\* call: it is never one the manager had cached before and nobody confirmed.
ReloadIsCurrent ==
    [][\A t \in Threads : Answers(t) => cached[Home[t]] \in during[t] \cup raced[t]]_vars

\* "Forcibly reloads the active policy from the backend store": the record reload()
\* returns was active at some moment of the call.
ReloadAnswersActive ==
    [][\A t \in Threads : Answers(t) => cached[Home[t]] \in during[t]]_vars

\* A publication that named the version it was based on replaces exactly that version,
\* however many publishers race between its check and its writes: no update is lost.
NoLostUpdate ==
    [][\A t \in Threads :
          pc[t] = "write" /\ pc'[t] = "readback" /\ arg[t].expected # NoDoc
              => active = arg[t].expected]_vars

\* Once publishing stops, every polled manager ends up serving the active version for ever.
StaleCacheHeals ==
    <>[](\A t \in Pollers : cached[Home[t]] = active /\ policy[Home[t]] = active)

\* Every call ends: no raise leaves the RLock held.
CallsReturn == \A t \in Threads : pc[t] # "idle" ~> pc[t] = "idle"

\* "Publishes a new policy version and hot-loads it at once": when no call is under way
\* in the process that made the last publication, it serves the active version.
PublishedIsServed ==
    \A t \in Threads :
        /\ lastActor = t
        /\ \A u \in Threads : Home[u] = Home[t] => pc[u] = "idle"
        /\ faults = 0
        => cached[Home[t]] = active
=============================================================================
