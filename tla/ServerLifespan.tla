---------------------------- MODULE ServerLifespan ----------------------------
(***************************************************************************)
(* mcp_server/server.py lifespan() with observability/lifecycle.py and the *)
(* request middleware, over AuditWriter: requests that run in worker       *)
(* threads while the server drains, flushes the audit queue, stops the     *)
(* writer, closes the pools and stops.                                     *)
(***************************************************************************)
EXTENDS AuditWriter

VARIABLES state,      \* Lifecycle._state
          inflight,   \* Lifecycle._inflight
          poolsClosed,
          outcome,    \* what each request answers
          clean       \* none of the waits of wait_for_drain(), flush() and stop() timed out

lifecycle == <<state, inflight>>
vars == <<audit, pc, main, lifecycle, poolsClosed, outcome, clean>>

Init ==
    /\ AuditInit
    /\ pc = [r \in Requests |-> "new"]
    /\ main = "starting"
    /\ state = "ready"                 \* set_ready() is the first statement of lifespan()
    /\ inflight = 0
    /\ poolsClosed = FALSE
    /\ outcome = [r \in Requests |-> "none"]
    /\ clean = TRUE

-----------------------------------------------------------------------------
(* trace_middleware() around a tool call.  It is a coroutine of the event loop, and so is   *)
(* lifespan(), which blocks the loop from audit_flush() on.  The tool runs in a thread.     *)

LoopServes == main \in {"ready", "drain"}

\* begin_request(): nothing looks at the state, a draining server begins requests too.
BeginRequest(r) ==
    /\ LoopServes
    /\ pc[r] = "new"
    /\ inflight' = inflight + 1
    /\ Goto(r, "query")
    /\ UNCHANGED <<audit, main, state, poolsClosed, outcome, clean>>

\* The query runs on a pooled connection; a closed pool raises, which is an error answer
\* without an audit event.
Query(r) ==
    /\ pc[r] = "query"
    /\ IF poolsClosed
         THEN Goto(r, "end") /\ outcome' = [outcome EXCEPT ![r] = "error"]
         ELSE Goto(r, "log") /\ UNCHANGED outcome
    /\ UNCHANGED <<audit, main, lifecycle, poolsClosed, clean>>

\* log_event() returned, or raised through QueryService.run(); end_request() is in a finally.
Answer(r) ==
    /\ pc[r] \in {"logged", "raised"}
    /\ outcome' = [outcome EXCEPT ![r] = IF pc[r] = "logged" THEN "ok" ELSE "error"]
    /\ Goto(r, "end")
    /\ UNCHANGED <<audit, main, lifecycle, poolsClosed, clean>>

EndRequest(r) ==
    /\ LoopServes \/ main = "stopped"
    /\ pc[r] = "end"
    /\ inflight' = IF inflight = 0 THEN 0 ELSE inflight - 1
    /\ Goto(r, "done")
    /\ UNCHANGED <<audit, main, state, poolsClosed, outcome, clean>>

Quiet == UNCHANGED <<lifecycle, poolsClosed, outcome, clean>>

RequestStep(r) ==
    \/ Query(r) \/ Answer(r) \/ EndRequest(r)
    \/ LogStep(r) /\ Quiet

-----------------------------------------------------------------------------
(* lifespan() *)

SetDraining ==
    /\ main = "ready"
    /\ state' = "draining"
    /\ Then("drain")
    /\ UNCHANGED <<audit, pc, inflight, poolsClosed, outcome, clean>>

Drained_AtOnce == TRUE
Drained == inflight = 0

\* wait_for_drain(): in flight is 0, or SHUTDOWN_GRACE_SECONDS are over.
WaitForDrain ==
    /\ main = "drain"
    /\ \/ Drained /\ UNCHANGED clean
       \/ inflight # 0 /\ clean' = FALSE
    /\ Then("flush")
    /\ UNCHANGED <<audit, pc, lifecycle, poolsClosed, outcome>>

\* The waits of flush() and stop(): done, or timed out.
WaitStep(step, done) ==
    /\ step
    /\ clean' = (clean /\ done)
    /\ UNCHANGED <<lifecycle, poolsClosed, outcome>>

\* close_pools() and set_stopped(); the span exporter before it has its own module.
ClosePools ==
    /\ main = "pools"
    /\ poolsClosed' = TRUE
    /\ state' = "stopped"
    /\ Then("stopped")
    /\ UNCHANGED <<audit, pc, inflight, outcome, clean>>

MainStep ==
    \/ SetDraining \/ WaitForDrain \/ ClosePools
    \/ (AuditStart \/ FlushPut \/ StopSet \/ StopClose) /\ Quiet
    \/ WaitStep(FlushWait, flushed)
    \/ WaitStep(StopJoin, ~Alive)

-----------------------------------------------------------------------------
Next ==
    \/ \E r \in Requests : BeginRequest(r) \/ RequestStep(r)
    \/ WorkerStep /\ Quiet
    \/ MainStep

Spec == Init /\ [][Next]_vars

\* Threads are scheduled and database calls return; every wait of lifespan() but the put
\* of the barrier has a timeout.
Fairness ==
    /\ \A r \in Requests : WF_vars(RequestStep(r))
    /\ WF_vars(WorkerStep /\ Quiet)
    /\ WF_vars(MainStep)

FairSpec == Spec /\ Fairness

-----------------------------------------------------------------------------
\* Every variable has its type.
TypeOK ==
    /\ AuditTypeOK
    /\ pc \in [Requests -> InLog \cup {"new", "query", "log", "logged", "raised", "end",
                                       "done"}]
    /\ main \in {"starting", "ready", "drain", "flush", "flushing", "stop", "close", "join",
                 "pools", "stopped"}
    /\ state \in {"ready", "draining", "stopped"}
    /\ inflight \in Nat
    /\ poolsClosed \in BOOLEAN
    /\ outcome \in [Requests -> {"none", "ok", "error"}]
    /\ clean \in BOOLEAN

\* Events a request handed over and that are neither stored nor counted, queued or in hand.
Lost == {r \in Requests : outcome[r] = "ok"} \ (table \cup Queued \cup InHand)

\* Until stop() closes the writer an event of an answered request is in the table, queued,
\* in the writer's hand or counted as a failure.
NoSilentLoss == ~closed => Cardinality(Lost) <= failed

\* A shutdown none of whose waits gave up leaves no event in the queue, although requests
\* may begin while it drains: what was answered is stored or counted.
CleanShutdown ==
    main = "stopped" /\ clean =>
        /\ Queued \cup InHand = {}
        /\ Cardinality({r \in Requests : outcome[r] = "ok"} \ table) <= failed

\* AUDIT_REQUIRED: a request is answered with success only if its event is in the table.
RequiredIsStored == required => \A r \in Requests : outcome[r] = "ok" => r \in table

\* What has become of the event of each request.
Pending == (Queued \cup InHand) \ table
Settled == table \cup Pending
HandedOver(r) == pc[r] = "logged" \/ outcome[r] = "ok"
Told(r) == pc[r] = "raised" \/ outcome[r] = "error"

FateOf(r) ==
    CASE r \in table                                        -> "stored"
      [] r \in Pending                                      -> "pending"
      [] r \notin Settled /\ HandedOver(r)                  -> "gone"
      [] r \notin Settled /\ ~HandedOver(r) /\ Told(r)      -> "refused"
      [] r \notin Settled /\ ~HandedOver(r) /\ ~Told(r)     -> "open"

Fates == [r \in Requests |-> FateOf(r)]

Trail == INSTANCE AuditTrail WITH Events <- Requests, fate <- Fates

\* The writer, its queue and the shutdown implement AuditTrail: an event is settled once, one
\* that disappears is counted in that step as long as the writer is open, and with
\* AUDIT_REQUIRED none disappears behind its caller.
TrailSpec == Trail!Spec

\* Once draining the server stops, and every request that began ends.
ShutdownEnds == state = "draining" ~> state = "stopped"
RequestsEnd == \A r \in Requests : pc[r] = "query" ~> pc[r] = "done"

\* "On a graceful exit flush() drains the queue, so that no event of the tail is lost":
\* when the server has stopped no event is left in the queue.
TailIsStored == main = "stopped" => Queued = {}
=============================================================================
