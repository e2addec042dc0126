----------------------------- MODULE AuditWriter -----------------------------
(***************************************************************************)
(* mcp_server/authorization/audit.py with AUDIT_STORE=mysql and            *)
(* AUDIT_ASYNC: log_event() in the threads of the requests, the            *)
(* audit-writer thread behind a bounded queue, flush() and stop().  A      *)
(* request logs one event, so it stands for its event.  The periodic       *)
(* maintenance, which moves old rows only, and the creation of the table   *)
(* are left out.  ServerLifespan puts the actions together.                *)
(***************************************************************************)
EXTENDS Naturals, Sequences, FiniteSets

CONSTANTS Requests,
          Barrier,       \* the ("__flush__", event) entry
          Nothing,       \* the writer has no row in hand
          QueueSize      \* AUDIT_QUEUE_SIZE

ASSUME AuditAssumption ==
    /\ IsFiniteSet(Requests)
    /\ Barrier \notin Requests /\ Nothing \notin Requests
    /\ QueueSize \in Nat \ {0}

VARIABLES required,   \* AUDIT_REQUIRED, one value for the life of the server
          queue,      \* _queue
          stopping,   \* _stop
          closed,     \* _closed
          worker,     \* the audit-writer thread
          writing,    \* the row it is inserting
          table,      \* rows of request_audit_events
          persisted, failed,   \* _persisted and _failed
          flushed,    \* the barrier of flush() is set
          pc,         \* where each request is
          main        \* where lifespan() is

counters == <<persisted, failed>>
writer == <<stopping, closed, worker, writing>>
audit == <<required, queue, writer, table, counters, flushed>>

InLog == {"alive", "start", "put", "sync"}

AuditInit ==
    /\ required \in BOOLEAN
    /\ queue = <<>>
    /\ stopping = FALSE
    /\ closed = FALSE
    /\ worker = "new"
    /\ writing = Nothing
    /\ table = {}
    /\ persisted = 0 /\ failed = 0
    /\ flushed = FALSE

At(r, s) == pc[r] = s
Goto(r, s) == pc' = [pc EXCEPT ![r] = s]
Alive == worker \in {"loop", "get", "write"}

-----------------------------------------------------------------------------
(* log_event() and AuditWriter.enqueue(); it ends in "logged" or "raised" *)

LogEvent(r) ==
    /\ At(r, "log")
    /\ \/ required /\ Goto(r, "sync")
       \/ ~required /\ closed /\ Goto(r, "logged")       \* dropped without a trace
       \/ ~required /\ ~closed /\ Goto(r, "alive")
    /\ UNCHANGED <<audit, main>>

\* persist_sync(): the insert, its statistics, and the exception for the caller.
AfterFailure_Swallowed == "logged"
AfterFailure == "raised"

PersistSync(r) ==
    /\ At(r, "sync")
    /\ \/ /\ table' = table \cup {r} /\ persisted' = persisted + 1
          /\ Goto(r, "logged") /\ UNCHANGED failed
       \/ /\ table' \in {table, table \cup {r}} /\ failed' = failed + 1
          /\ Goto(r, AfterFailure) /\ UNCHANGED persisted
    /\ UNCHANGED <<required, queue, writer, flushed, main>>

\* if not self._thread.is_alive(): ...
CheckAlive(r) ==
    /\ At(r, "alive")
    /\ Goto(r, IF Alive THEN "put" ELSE "start")
    /\ UNCHANGED <<audit, main>>

\* self._thread.start(): a thread can be started once, and lifespan() did that before any
\* request, so that this is a RuntimeError.
StartThread(r) ==
    /\ At(r, "start") /\ worker # "new"
    /\ Goto(r, "raised")
    /\ UNCHANGED <<audit, main>>

Room == Len(queue) < QueueSize

Timeout_Never == FALSE
Timeout == ~Room

\* _queue.put(timeout=1.0); a queue that stays full costs the event.
Put(r) ==
    /\ At(r, "put")
    /\ Goto(r, "logged")
    /\ \/ Room /\ queue' = Append(queue, r) /\ UNCHANGED failed
       \/ Timeout /\ failed' = failed + 1 /\ UNCHANGED queue
    /\ UNCHANGED <<required, writer, table, persisted, flushed, main>>

LogStep(r) ==
    LogEvent(r) \/ PersistSync(r) \/ CheckAlive(r) \/ StartThread(r) \/ Put(r)

-----------------------------------------------------------------------------
(* _run(): the audit-writer thread *)

WorkerLoop ==
    /\ worker = "loop"
    /\ worker' = IF stopping THEN "dead" ELSE "get"
    /\ UNCHANGED <<required, queue, stopping, closed, writing, table, counters, flushed, pc, main>>

AfterEmpty_Exits == "dead"
AfterEmpty == "loop"

\* _queue.get(timeout=1.0); what is still queued when _stop is seen stays there.
WorkerGet ==
    /\ worker = "get"
    /\ \/ /\ queue = <<>>
          /\ worker' = AfterEmpty
          /\ UNCHANGED <<queue, writing, flushed>>
       \/ /\ queue # <<>> /\ Head(queue) = Barrier
          /\ queue' = Tail(queue)
          /\ flushed' = TRUE
          /\ worker' = "loop"
          /\ UNCHANGED writing
       \/ /\ queue # <<>> /\ Head(queue) # Barrier
          /\ queue' = Tail(queue)
          /\ writing' = Head(queue)
          /\ worker' = "write"
          /\ UNCHANGED flushed
    /\ UNCHANGED <<required, stopping, closed, table, counters, pc, main>>

CountFailure_Silent == UNCHANGED failed
CountFailure == failed' = failed + 1

\* _write(): a failed insert is counted; the row may be there if only the answer is lost.
WorkerWrite ==
    /\ worker = "write"
    /\ \/ table' = table \cup {writing} /\ persisted' = persisted + 1 /\ UNCHANGED failed
       \/ table' \in {table, table \cup {writing}} /\ CountFailure /\ UNCHANGED persisted
    /\ writing' = Nothing
    /\ worker' = "loop"
    /\ UNCHANGED <<required, queue, stopping, closed, flushed, pc, main>>

WorkerStep == WorkerLoop \/ WorkerGet \/ WorkerWrite

-----------------------------------------------------------------------------
(* start(), flush() and stop(), called by lifespan() one after the other *)

Then(s) == main' = s

AuditStart ==
    /\ main = "starting"
    /\ worker' = "loop"
    /\ Then("ready")
    /\ UNCHANGED <<required, queue, stopping, closed, writing, table, counters, flushed, pc>>

\* _queue.put(barrier) blocks, without a timeout, while the queue is full.
FlushPut ==
    /\ main = "flush"
    /\ Len(queue) < QueueSize
    /\ queue' = Append(queue, Barrier)
    /\ Then("flushing")
    /\ UNCHANGED <<required, writer, table, counters, flushed, pc>>

\* barrier.wait(timeout): returns when it is set, or after 10 s.
FlushWait ==
    /\ main = "flushing"
    /\ Then("stop")
    /\ UNCHANGED <<audit, pc>>

StopSet ==
    /\ main = "stop"
    /\ stopping' = TRUE
    /\ Then("close")
    /\ UNCHANGED <<required, queue, closed, worker, writing, table, counters, flushed, pc>>

StopClose ==
    /\ main = "close"
    /\ closed' = TRUE
    /\ Then("join")
    /\ UNCHANGED <<required, queue, stopping, worker, writing, table, counters, flushed, pc>>

\* join(timeout=10), of a thread that is alive.
StopJoin ==
    /\ main = "join"
    /\ Then("pools")
    /\ UNCHANGED <<audit, pc>>

-----------------------------------------------------------------------------
Queued == {queue[i] : i \in DOMAIN queue} \ {Barrier}
InHand == {writing} \ {Nothing}
Logging == {r \in Requests : pc[r] \in InLog \cup {"log"}}

AuditTypeOK ==
    /\ queue \in Seq(Requests \cup {Barrier}) /\ Len(queue) <= QueueSize
    /\ required \in BOOLEAN /\ stopping \in BOOLEAN /\ closed \in BOOLEAN /\ flushed \in BOOLEAN
    /\ worker \in {"new", "loop", "get", "write", "dead"}
    /\ writing \in Requests \cup {Nothing}
    /\ table \subseteq Requests
    /\ persisted \in Nat /\ failed \in Nat

\* _persisted counts rows that are in the table, and the rows that are there without
\* having been counted were counted as failures.
CountersMatchTable ==
    /\ persisted <= Cardinality(table)
    /\ Cardinality(table) <= persisted + failed
=============================================================================
