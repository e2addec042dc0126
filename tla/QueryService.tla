----------------------------- MODULE QueryService -----------------------------
(***************************************************************************)
(* mcp_server/services/query_service.py: QueryService.run() in the threads *)
(* of the requests.  run_query and the domain tools have a service, and    *)
(* with it a semaphore, of their own; the metrics are those of the process.*)
(* What is checked and authorized is left to other modules: here a query   *)
(* passes, is refused with an error answer, or raises.                     *)
(***************************************************************************)
EXTENDS Naturals, FiniteSets

CONSTANTS Threads,
          Services,       \* QueryService instances
          NoService,
          MaxConcurrent,  \* limits.max_concurrent_queries
          MaxCalls        \* bound: calls of run()

ASSUME QueryAssumption ==
    /\ IsFiniteSet(Threads) /\ NoService \notin Services
    /\ MaxConcurrent \in Nat \ {0}
    /\ MaxCalls \in Nat

VARIABLES pc,
          service,     \* the service each thread is in
          permits,     \* value of each service's BoundedSemaphore
          requests,    \* query_requests_total
          errors,      \* query_errors_total
          executions,  \* query_executions_total
          answered,    \* history: answers without an error
          raised       \* history: calls that ended with an exception

counters == <<requests, errors, executions>>
queries == <<pc, service, permits, counters, answered, raised>>

Steps == {"idle", "begin", "context", "check", "acquire", "execute", "release",
          "releasefailed", "failed", "audit", "executed", "ok", "error"}

QueryInit ==
    /\ pc = [t \in Threads |-> "idle"]
    /\ service = [t \in Threads |-> NoService]
    /\ permits = [s \in Services |-> MaxConcurrent]
    /\ requests = 0 /\ errors = 0 /\ executions = 0
    /\ answered = 0 /\ raised = 0

Goto(t, s) == pc' = [pc EXCEPT ![t] = s]
Leave(t) == Goto(t, "idle") /\ service' = [service EXCEPT ![t] = NoService]

\* From one step to the next.
Step(t, from, to) ==
    /\ pc[t] = from
    /\ Goto(t, to)
    /\ UNCHANGED <<service, permits, counters, answered, raised>>

\* run() counts the request before it does anything that can fail.
Begin(t, s) ==
    /\ pc[t] = "idle"
    /\ requests < MaxCalls
    /\ requests' = requests + 1
    /\ service' = [service EXCEPT ![t] = s]
    /\ Goto(t, "begin")
    /\ UNCHANGED <<permits, errors, executions, answered, raised>>

\* The context for the labels; an AuthenticationError is no matter here.
MetricContext(t) == Step(t, "begin", "context")

\* get_context() and current_request_context() of _run().
PolicyContext(t) == Step(t, "context", "check") \/ Step(t, "context", "error")

\* The validator, the authorization with its audit event, the second validation.
Check(t) == Step(t, "check", "acquire") \/ Step(t, "check", "error")

\* The policy store, the catalog or a mandatory audit write fails: nothing in run() or
\* _run() catches it.
Raise(t) ==
    /\ pc[t] \in {"begin", "context", "check", "audit"}
    /\ raised' = raised + 1
    /\ Leave(t)
    /\ UNCHANGED <<permits, counters, answered>>

-----------------------------------------------------------------------------
(* _semaphore.acquire(blocking=False), the execution and its finally *)

Refused_InsideTry == "releasefailed"
Refused == "failed"

Acquire(t) ==
    /\ pc[t] = "acquire"
    /\ LET s == service[t] IN
         \/ /\ permits[s] > 0
            /\ permits' = [permits EXCEPT ![s] = @ - 1]
            /\ Goto(t, "execute")
         \/ /\ permits[s] = 0
            /\ Goto(t, Refused)
            /\ UNCHANGED permits
    /\ UNCHANGED <<service, counters, answered, raised>>

Execute(t) == Step(t, "execute", "release") \/ Step(t, "execute", "releasefailed")

Releasing_NotOnFailure == {"release"}
Releasing == {"release", "releasefailed"}

Release(t) ==
    /\ pc[t] \in {"release", "releasefailed"}
    /\ permits' = [permits EXCEPT ![service[t]] = IF pc[t] \in Releasing THEN @ + 1 ELSE @]
    /\ Goto(t, IF pc[t] = "release" THEN "audit" ELSE "failed")
    /\ UNCHANGED <<service, counters, answered, raised>>

\* query_executions_total{status}; a refused acquire counts as a failed execution.
CountExecution(t) ==
    /\ \/ pc[t] = "failed" /\ Goto(t, "error")
       \/ pc[t] = "executed" /\ Goto(t, "ok")
    /\ executions' = executions + 1
    /\ UNCHANGED <<service, permits, requests, errors, answered, raised>>

\* The guard on the result columns, and the audit event of either outcome.
Audit(t) == Step(t, "audit", "executed") \/ Step(t, "audit", "error")

-----------------------------------------------------------------------------
(* The end of run() *)

AnswerOk(t) ==
    /\ pc[t] = "ok"
    /\ answered' = answered + 1
    /\ Leave(t)
    /\ UNCHANGED <<permits, counters, raised>>

CountError_Twice == errors' = errors + 2
CountError == errors' = errors + 1

AnswerError(t) ==
    /\ pc[t] = "error"
    /\ CountError
    /\ Leave(t)
    /\ UNCHANGED <<permits, requests, executions, answered, raised>>

-----------------------------------------------------------------------------
CallStep(t) ==
    \/ MetricContext(t) \/ PolicyContext(t) \/ Check(t) \/ Acquire(t) \/ Execute(t)
    \/ Release(t) \/ CountExecution(t) \/ Audit(t) \/ AnswerOk(t) \/ AnswerError(t)

QueryNext ==
    \E t \in Threads : CallStep(t) \/ Raise(t) \/ \E s \in Services : Begin(t, s)

-----------------------------------------------------------------------------
Running == {t \in Threads : pc[t] # "idle"}
Holders(s) ==
    {t \in Threads : service[t] = s /\ pc[t] \in {"execute", "release", "releasefailed"}}

QueryTypeOK ==
    /\ pc \in [Threads -> Steps]
    /\ service \in [Threads -> Services \cup {NoService}]
    /\ permits \in [Services -> 0..MaxConcurrent]
    /\ requests \in 0..MaxCalls
    /\ errors \in Nat /\ executions \in Nat /\ answered \in Nat /\ raised \in Nat

\* Every permit of a service is free or held by a query that is executing: none is lost
\* or given back twice, whether the query succeeds, fails or is refused, so a refusal
\* means that MaxConcurrent queries of the service are executing.
PermitsExact == \A s \in Services : permits[s] + Cardinality(Holders(s)) = MaxConcurrent

\* Every request that was counted ends as exactly one answer, one counted error or one
\* exception, whatever way it takes through run().
RequestsAccounted == requests = answered + errors + raised + Cardinality(Running)
=============================================================================
