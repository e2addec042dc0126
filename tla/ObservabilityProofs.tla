------------------------- MODULE ObservabilityProofs -------------------------
(***************************************************************************)
(* The counters and permits of QueryService and the rule of AlertEngine,   *)
(* for any threads, services, limits, windows and thresholds; and that the *)
(* exporter of Telemetry implements SpanDelivery, for any requests, spans, *)
(* sampling and sizes of the buffer and the queue.                         *)
(***************************************************************************)
EXTENDS AlertEngine, Telemetry, FiniteSetTheorems, TLAPS

Holding == {"execute", "release", "releasefailed"}

\* A thread that runs a query is in one of the services.
InService == \A t \in Threads : pc[t] # "idle" => service[t] \in Services

QueryInv == QueryTypeOK /\ InService /\ PermitsExact /\ RequestsAccounted

\* The clock of rule r at time n, evaluated last at e, calm last at c and seen breached
\* first at b: a window that is open began no earlier than the last healthy sample, and
\* while the breach lasts no later than it was first seen, and it is not over yet.
Window(r, n, e, c, b, breach) ==
    /\ r \in [status : {"none", "pending", "firing", "resolved"}, since : Nat]
    /\ n \in Nat /\ e \in Nat /\ c \in Nat /\ b \in Nat
    /\ e <= n /\ c <= n
    /\ r.status \in {"none", "resolved"} => ~breach
    /\ r.status = "pending" => c <= r.since /\ r.since <= n
    /\ r.status = "pending" /\ breach => r.since <= b /\ e < r.since + For
    /\ r.status = "firing" => breach /\ c + For <= e

WindowInv == Window(rule, now, evaluated, calm, breached, Breach(errorRate))

AlertInv == QueryInv /\ WindowInv

-----------------------------------------------------------------------------
(* The queries *)

LEMMA ThreadSets ==
    /\ IsFiniteSet(Running) /\ Cardinality(Running) \in Nat
    /\ \A s : IsFiniteSet(Holders(s)) /\ Cardinality(Holders(s)) \in Nat
<1>1. IsFiniteSet(Threads)
  BY QueryAssumption
<1>2. IsFiniteSet(Running)
  BY <1>1, FS_Subset DEF Running
<1>3. \A s : IsFiniteSet(Holders(s))
  BY <1>1, FS_Subset DEF Holders
<1> QED BY <1>2, <1>3, FS_CardinalityType

\* A step of one thread adds it to a set of threads, removes it, or does neither.
LEMMA OneMore ==
    ASSUME NEW S, NEW T, NEW t, IsFiniteSet(S), t \notin S, T = S \cup {t}
    PROVE  Cardinality(T) = Cardinality(S) + 1
BY FS_AddElement

LEMMA OneLess ==
    ASSUME NEW S, NEW T, NEW t, IsFiniteSet(S), t \in S, T = S \ {t}
    PROVE  Cardinality(S) \in Nat \ {0} /\ Cardinality(T) = Cardinality(S) - 1
<1>1. S # {}
  OBVIOUS
<1> QED BY <1>1, FS_RemoveElement, FS_EmptySet, FS_CardinalityType

\* What a thread does between two steps of its query changes no set of holders, and it
\* goes on running.
LEMMA KeepsSets ==
    ASSUME QueryTypeOK, NEW t \in Threads, NEW to \in Steps,
           pc' = [pc EXCEPT ![t] = to], pc[t] # "idle", to # "idle", UNCHANGED service,
           pc[t] \in Holding <=> to \in Holding
    PROVE  Running' = Running /\ \A s \in Services : Holders(s)' = Holders(s)
<1>1. \A u \in Threads : pc'[u] = IF u = t THEN to ELSE pc[u]
  BY DEF QueryTypeOK
<1>2. Running' = Running
  BY <1>1 DEF Running
<1>3. ASSUME NEW s \in Services PROVE Holders(s)' = Holders(s)
  <2>1. \A u \in Threads : pc'[u] \in Holding <=> pc[u] \in Holding
    BY <1>1
  <2>2. Holders(s)' = {u \in Threads : service'[u] = s /\ pc'[u] \in Holding}
    BY DEF Holders, Holding
  <2>3. Holders(s) = {u \in Threads : service[u] = s /\ pc[u] \in Holding}
    BY DEF Holders, Holding
  <2> QED BY <2>1, <2>2, <2>3
<1> QED BY <1>2, <1>3

\* A query leaves a service without holding a permit of it.
LEMMA LeavesSets ==
    ASSUME QueryTypeOK, NEW t \in Threads, Leave(t), pc[t] # "idle", pc[t] \notin Holding
    PROVE  /\ Running' = Running \ {t} /\ t \in Running
           /\ \A s \in Services : Holders(s)' = Holders(s)
<1>1. /\ \A u \in Threads : pc'[u] = IF u = t THEN "idle" ELSE pc[u]
      /\ \A u \in Threads : service'[u] = IF u = t THEN NoService ELSE service[u]
  BY DEF Leave, Goto, QueryTypeOK
<1>2. Running' = Running \ {t} /\ t \in Running
  BY <1>1 DEF Running
<1>3. ASSUME NEW s \in Services PROVE Holders(s)' = Holders(s)
  BY <1>1 DEF Holders, Holding
<1> QED BY <1>2, <1>3

LEMMA LeaveTypes ==
    ASSUME QueryTypeOK, InService, NEW t \in Threads, Leave(t)
    PROVE  /\ pc' \in [Threads -> Steps] /\ service' \in [Threads -> Services \cup {NoService}]
           /\ InService'
BY DEF QueryTypeOK, InService, Leave, Goto, Steps

-----------------------------------------------------------------------------
\* A step that changes neither permits nor counters.
LEMMA PlainStep ==
    ASSUME QueryInv, NEW t \in Threads, NEW from \in Steps, NEW to \in Steps, Step(t, from, to),
           from # "idle", to # "idle", from \in Holding <=> to \in Holding
    PROVE  QueryInv'
<1>1. /\ pc[t] = from /\ pc' = [pc EXCEPT ![t] = to]
      /\ UNCHANGED <<service, permits, requests, errors, executions, answered, raised>>
  BY DEF Step, Goto, counters
<1>2. Running' = Running /\ \A s \in Services : Holders(s)' = Holders(s)
  BY <1>1, KeepsSets DEF QueryInv
<1>3. QueryTypeOK' /\ InService'
  BY <1>1 DEF QueryInv, QueryTypeOK, InService
<1>4. PermitsExact' /\ RequestsAccounted'
  BY <1>1, <1>2 DEF QueryInv, PermitsExact, RequestsAccounted
<1> QED BY <1>3, <1>4 DEF QueryInv

LEMMA BeginStep ==
    ASSUME QueryInv, NEW t \in Threads, NEW s \in Services, Begin(t, s)
    PROVE  QueryInv'
<1>1. /\ pc[t] = "idle" /\ pc' = [pc EXCEPT ![t] = "begin"] /\ service' = [service EXCEPT ![t] = s]
      /\ requests < MaxCalls /\ requests' = requests + 1
      /\ UNCHANGED <<permits, errors, executions, answered, raised>>
  BY DEF Begin, Goto
<1>2. QueryTypeOK' /\ InService'
  BY <1>1, QueryAssumption DEF QueryInv, QueryTypeOK, InService, Steps
<1>3. \A u \in Threads : /\ pc'[u] = IF u = t THEN "begin" ELSE pc[u]
                         /\ service'[u] = IF u = t THEN s ELSE service[u]
  BY <1>1 DEF QueryInv, QueryTypeOK
<1>4. Running' = Running \cup {t} /\ t \notin Running
  BY <1>1, <1>3 DEF Running
<1>5. \A x \in Services : Holders(x)' = Holders(x)
  BY <1>1, <1>3 DEF Holders
<1>6. Cardinality(Running') = Cardinality(Running) + 1
  BY <1>4, ThreadSets, OneMore
<1>7. PermitsExact'
  BY <1>1, <1>5 DEF QueryInv, PermitsExact
<1>8. RequestsAccounted'
  BY <1>1, <1>6, ThreadSets DEF QueryInv, QueryTypeOK, RequestsAccounted
<1> QED BY <1>2, <1>7, <1>8 DEF QueryInv

\* The permit that is taken belongs to the thread's service.
LEMMA AcquireStep ==
    ASSUME QueryInv, NEW t \in Threads, Acquire(t)
    PROVE  QueryInv'
<1> DEFINE s == service[t]
<1>1. /\ pc[t] = "acquire" /\ s \in Services /\ permits[s] \in Nat /\ permits[s] <= MaxConcurrent
      /\ UNCHANGED <<service, requests, errors, executions, answered, raised>>
  BY QueryAssumption DEF Acquire, counters, QueryInv, QueryTypeOK, InService
<1>2. CASE permits[s] = 0 /\ Goto(t, "failed") /\ UNCHANGED permits
  BY <1>1, <1>2, PlainStep DEF Step, Goto, counters, Steps, Holding
<1>3. CASE /\ permits[s] > 0 /\ permits' = [permits EXCEPT ![s] = @ - 1]
           /\ pc' = [pc EXCEPT ![t] = "execute"]
  <2>1. \A u \in Threads : pc'[u] = IF u = t THEN "execute" ELSE pc[u]
    BY <1>3 DEF QueryInv, QueryTypeOK
  <2>2. Running' = Running
    BY <1>1, <2>1 DEF Running
  <2>3. Holders(s)' = Holders(s) \cup {t} /\ t \notin Holders(s)
    BY <1>1, <2>1 DEF Holders
  <2>4. \A x \in Services : x # s => Holders(x)' = Holders(x)
    BY <1>1, <2>1 DEF Holders
  <2>5. Cardinality(Holders(s)') = Cardinality(Holders(s)) + 1
    BY <2>3, ThreadSets, OneMore
  <2>6. /\ permits' \in [Services -> 0..MaxConcurrent] /\ permits'[s] = permits[s] - 1
        /\ \A x \in Services : x # s => permits'[x] = permits[x]
    BY <1>1, <1>3, QueryAssumption DEF QueryInv, QueryTypeOK
  <2>7. QueryTypeOK' /\ InService'
    BY <1>1, <1>3, <2>6 DEF QueryInv, QueryTypeOK, InService, Steps
  <2>8. PermitsExact'
    BY <1>1, <2>4, <2>5, <2>6, ThreadSets, QueryAssumption DEF QueryInv, PermitsExact
  <2>9. RequestsAccounted'
    BY <1>1, <2>2 DEF QueryInv, RequestsAccounted
  <2> QED BY <2>7, <2>8, <2>9 DEF QueryInv
<1> QED BY <1>2, <1>3 DEF Acquire, Goto, Refused

\* The permit that is given back was held.
LEMMA ReleaseStep ==
    ASSUME QueryInv, NEW t \in Threads, Release(t)
    PROVE  QueryInv'
<1> DEFINE s == service[t]
<1>1. /\ pc[t] \in {"release", "releasefailed"} /\ s \in Services
      /\ UNCHANGED <<service, requests, errors, executions, answered, raised>>
      /\ permits' = [permits EXCEPT ![s] = @ + 1]
  BY DEF Release, Releasing, counters, QueryInv, QueryTypeOK, InService
<1>2. PICK to \in {"audit", "failed"} : pc' = [pc EXCEPT ![t] = to]
  BY DEF Release, Goto
<1>3. \A u \in Threads : pc'[u] = IF u = t THEN to ELSE pc[u]
  BY <1>2 DEF QueryInv, QueryTypeOK
<1>4. Running' = Running
  BY <1>1, <1>2, <1>3 DEF Running
<1>5. Holders(s)' = Holders(s) \ {t} /\ t \in Holders(s)
  BY <1>1, <1>2, <1>3 DEF Holders
<1>6. \A x \in Services : x # s => Holders(x)' = Holders(x)
  BY <1>1, <1>3 DEF Holders
<1>7. Cardinality(Holders(s)) \in Nat \ {0} /\ Cardinality(Holders(s)') = Cardinality(Holders(s)) - 1
  BY <1>5, ThreadSets, OneLess
<1>8. permits[s] \in Nat /\ permits[s] + Cardinality(Holders(s)) = MaxConcurrent
  BY <1>1, QueryAssumption DEF QueryInv, QueryTypeOK, PermitsExact
<1>9. /\ permits' \in [Services -> 0..MaxConcurrent] /\ permits'[s] = permits[s] + 1
      /\ \A x \in Services : x # s => permits'[x] = permits[x]
  BY <1>1, <1>7, <1>8, QueryAssumption DEF QueryInv, QueryTypeOK
<1>10. QueryTypeOK' /\ InService'
  BY <1>1, <1>2, <1>9 DEF QueryInv, QueryTypeOK, InService, Steps
<1>11. PermitsExact'
  BY <1>1, <1>6, <1>7, <1>8, <1>9 DEF QueryInv, PermitsExact
<1>12. RequestsAccounted'
  BY <1>1, <1>4 DEF QueryInv, RequestsAccounted
<1> QED BY <1>10, <1>11, <1>12 DEF QueryInv

LEMMA CountStep ==
    ASSUME QueryInv, NEW t \in Threads, CountExecution(t)
    PROVE  QueryInv'
<1>1. PICK to \in {"error", "ok"} : pc' = [pc EXCEPT ![t] = to]
  BY DEF CountExecution, Goto
<1>2. /\ pc[t] \in {"failed", "executed"} /\ executions' = executions + 1
      /\ UNCHANGED <<service, permits, requests, errors, answered, raised>>
  BY DEF CountExecution
<1>3. Running' = Running /\ \A s \in Services : Holders(s)' = Holders(s)
  BY <1>1, <1>2, KeepsSets DEF QueryInv, Steps, Holding
<1>4. QueryTypeOK' /\ InService'
  BY <1>1, <1>2 DEF QueryInv, QueryTypeOK, InService, Steps
<1>5. PermitsExact' /\ RequestsAccounted'
  BY <1>2, <1>3 DEF QueryInv, PermitsExact, RequestsAccounted
<1> QED BY <1>4, <1>5 DEF QueryInv

\* An answer, a counted error or an exception ends one request.
LEMMA EndCallStep ==
    ASSUME QueryInv, NEW t \in Threads, AnswerOk(t) \/ AnswerError(t) \/ Raise(t)
    PROVE  QueryInv'
<1>1. /\ Leave(t) /\ pc[t] \in {"ok", "error", "begin", "context", "check", "audit"}
      /\ UNCHANGED <<permits, requests, executions>>
  BY DEF AnswerOk, AnswerError, Raise, counters
<1>2. /\ answered' \in Nat /\ errors' \in Nat /\ raised' \in Nat
      /\ answered' + errors' + raised' = answered + errors + raised + 1
  BY DEF AnswerOk, AnswerError, Raise, CountError, counters, QueryInv, QueryTypeOK
<1>3. /\ Running' = Running \ {t} /\ t \in Running
      /\ \A s \in Services : Holders(s)' = Holders(s)
  BY <1>1, LeavesSets DEF QueryInv, Holding
<1>4. Cardinality(Running) \in Nat \ {0} /\ Cardinality(Running') = Cardinality(Running) - 1
  BY <1>3, ThreadSets, OneLess
<1>5. QueryTypeOK' /\ InService'
  BY <1>1, <1>2, LeaveTypes DEF QueryInv, QueryTypeOK
<1>6. PermitsExact'
  BY <1>1, <1>3 DEF QueryInv, PermitsExact
<1>7. /\ answered \in Nat /\ errors \in Nat /\ raised \in Nat
      /\ requests \in Nat /\ requests' = requests
  BY <1>1, QueryAssumption DEF QueryInv, QueryTypeOK
<1>8. requests' = answered' + errors' + raised' + Cardinality(Running')
  <2> DEFINE c == Cardinality(Running)
             d == Cardinality(Running')
             x == answered + errors + raised
             y == answered' + errors' + raised'
  <2>2. c \in Nat /\ d = c - 1 /\ requests = x + c
    BY <1>4 DEF QueryInv, RequestsAccounted
  <2>3. x \in Nat
    BY <1>7
  <2>4. y = x + 1
    BY <1>2
  <2> HIDE DEF c, d, x, y
  <2>5. requests = y + d
    BY ONLY <1>7, <2>2, <2>3, <2>4
  <2> QED BY <1>7, <2>5 DEF d, y
<1>9. RequestsAccounted'
  BY <1>8 DEF RequestsAccounted
<1> QED BY <1>5, <1>6, <1>9 DEF QueryInv

LEMMA QueryStep ==
    ASSUME QueryInv, QueryNext
    PROVE  QueryInv'
<1>1. PICK t \in Threads : CallStep(t) \/ Raise(t) \/ \E s \in Services : Begin(t, s)
  BY DEF QueryNext
<1>2. CASE MetricContext(t) \/ PolicyContext(t) \/ Check(t) \/ Execute(t) \/ Audit(t)
  BY <1>2, PlainStep DEF MetricContext, PolicyContext, Check, Execute, Audit, Steps, Holding
<1> QED BY <1>1, <1>2, AcquireStep, ReleaseStep, CountStep, EndCallStep, BeginStep DEF CallStep

-----------------------------------------------------------------------------
(* The rule *)

\* A rule that is not breached calms down: an open window starts anew.
LEMMA HealthyStep ==
    ASSUME WindowInv
    PROVE  Window(Calmed(Reopened(FALSE)), now, now, now, breached, FALSE)
<1>1. /\ rule \in [status : {"none", "pending", "firing", "resolved"}, since : Nat]
      /\ now \in Nat /\ breached \in Nat /\ For \in Nat
  BY AlertAssumption DEF WindowInv, Window
<1>2. CASE rule.status = "none"
  BY <1>1, <1>2 DEF Window, Reopened, Calmed
<1>3. CASE rule.status = "firing"
  BY <1>1, <1>3 DEF Window, Reopened, Calmed
<1>4. CASE rule.status = "pending"
  BY <1>1, <1>4 DEF Window, Reopened, Calmed
<1>5. CASE rule.status = "resolved"
  BY <1>1, <1>5 DEF Window, Reopened, Calmed
<1> QED BY <1>1, <1>2, <1>3, <1>4, <1>5

\* A rule that is breached opens a window, keeps it open, or fires at its end.
LEMMA BreachStep ==
    ASSUME WindowInv, NEW r, r = Reopened(TRUE), NEW c, NEW b,
           c = IF rule.status = "none" THEN now ELSE calm,
           b = IF ~Breach(errorRate) THEN now ELSE breached
    PROVE  /\ r.status = "pending" /\ now - r.since >= For =>
                Window([r EXCEPT !.status = "firing"], now, now, c, b, TRUE)
           /\ ~(r.status = "pending" /\ now - r.since >= For) =>
                Window(r, now, now, c, b, TRUE)
<1>1. /\ rule \in [status : {"none", "pending", "firing", "resolved"}, since : Nat]
      /\ now \in Nat /\ calm \in Nat /\ breached \in Nat /\ For \in Nat /\ calm <= now
  BY AlertAssumption DEF WindowInv, Window
<1>2. c \in Nat /\ c <= now /\ b \in Nat
  BY <1>1
<1>3. CASE rule.status \in {"none", "resolved"}
  <2>1. r = [status |-> "pending", since |-> now]
    BY <1>3 DEF Reopened
  <2>2. b = now
    BY <1>3 DEF WindowInv, Window
  <2>3. Window([status |-> "firing", since |-> now], now, now, c, b, TRUE) \/ For # 0
    BY <1>1, <1>2, <2>2 DEF Window
  <2>4. Window([status |-> "pending", since |-> now], now, now, c, b, TRUE) \/ For = 0
    BY <1>1, <1>2, <2>2 DEF Window
  <2>5. [r EXCEPT !.status = "firing"] = [status |-> "firing", since |-> now]
    BY ONLY <2>1
  <2>6. r.status = "pending" /\ r.since = now
    BY ONLY <2>1
  <2>7. now - now >= For <=> For = 0
    BY ONLY <1>1
  <2> QED BY <2>1, <2>3, <2>4, <2>5, <2>6, <2>7
<1>4. CASE rule.status = "pending"
  <2>1. r = rule /\ c = calm
    BY <1>4 DEF Reopened
  <2>2. calm <= rule.since /\ rule.since <= now /\ (Breach(errorRate) => rule.since <= breached)
    BY <1>4 DEF WindowInv, Window
  <2>3. rule.since <= b
    BY <1>1, <2>2
  <2>4. CASE now - rule.since >= For
    <3>1. Window([rule EXCEPT !.status = "firing"], now, now, c, b, TRUE)
      BY <1>1, <1>2, <2>1, <2>2, <2>4 DEF Window
    <3> QED BY <1>4, <2>1, <2>4, <3>1
  <2>5. CASE ~(now - rule.since >= For)
    <3>1. Window(rule, now, now, c, b, TRUE)
      BY <1>1, <1>2, <1>4, <2>1, <2>2, <2>3, <2>5 DEF Window
    <3> QED BY <2>1, <2>5, <3>1
  <2> QED BY <2>4, <2>5
<1>5. CASE rule.status = "firing"
  <2>1. r = rule /\ c = calm
    BY <1>5 DEF Reopened
  <2>2. calm + For <= now
    BY <1>1, <1>5 DEF WindowInv, Window
  <2>3. Window(rule, now, now, c, b, TRUE)
    BY <1>1, <1>2, <1>5, <2>1, <2>2 DEF Window
  <2> QED BY <1>5, <2>1, <2>3
<1> QED BY <1>1, <1>3, <1>4, <1>5

LEMMA AlertInit == Init => AlertInv
<1> SUFFICES ASSUME Init PROVE AlertInv
  OBVIOUS
<1>1. /\ pc = [t \in Threads |-> "idle"] /\ service = [t \in Threads |-> NoService]
      /\ permits = [s \in Services |-> MaxConcurrent]
      /\ requests = 0 /\ errors = 0 /\ executions = 0 /\ answered = 0 /\ raised = 0
  BY DEF Init, QueryInit
<1>2. Running = {} /\ \A s \in Services : Holders(s) = {}
  BY <1>1 DEF Running, Holders
<1>3. QueryTypeOK /\ InService
  BY <1>1, QueryAssumption DEF QueryTypeOK, InService, Steps
<1>4. PermitsExact /\ RequestsAccounted
  BY <1>1, <1>2, FS_EmptySet, QueryAssumption DEF PermitsExact, RequestsAccounted
<1>5. ~Breach(errorRate)
  BY AlertAssumption DEF Init, Breach
<1>6. WindowInv
  BY <1>5, AlertAssumption DEF Init, WindowInv, Window
<1> QED BY <1>3, <1>4, <1>6 DEF AlertInv, QueryInv

LEMMA AlertStep == AlertInv /\ [Next]_vars => AlertInv'
<1> SUFFICES ASSUME AlertInv, [Next]_vars PROVE AlertInv'
  OBVIOUS
<1>1. CASE Evaluate
  <2>1. QueryInv'
    BY <1>1 DEF AlertInv, Evaluate, queries, counters, QueryInv, QueryTypeOK, InService,
                PermitsExact, Holders, RequestsAccounted, Running
  <2>2. Breach(errorRate)' = Breach(ErrorRate) /\ now' = now
    BY <1>1 DEF Evaluate, Breach
  <2>3. EvalRule(Breach(ErrorRate))
    BY <1>1 DEF Evaluate
  <2>4. CASE Breach(ErrorRate)
    <3>1. /\ rule' = (IF Reopened(TRUE).status = "pending" /\ now - Reopened(TRUE).since >= For
                         THEN [Reopened(TRUE) EXCEPT !.status = "firing"] ELSE Reopened(TRUE))
          /\ evaluated' = now /\ calm' = (IF rule.status = "none" THEN now ELSE calm)
          /\ breached' = (IF ~Breach(errorRate) THEN now ELSE breached)
      BY <2>3, <2>4 DEF EvalRule, Reopened, WindowOver
    <3>2. Breach(errorRate)' = TRUE
      BY <2>2, <2>4 DEF Breach
    <3>3. WindowInv'
      BY <2>2, <3>1, <3>2, BreachStep DEF AlertInv, WindowInv
    <3> QED BY <2>1, <3>3 DEF AlertInv
  <2>5. CASE ~Breach(ErrorRate)
    <3>1. /\ rule' = Calmed(Reopened(FALSE))
          /\ evaluated' = now /\ calm' = now /\ breached' = breached
      BY <2>3, <2>5 DEF EvalRule, Reopened
    <3>2. Breach(errorRate)' = FALSE
      BY <2>2, <2>5 DEF Breach
    <3>3. WindowInv'
      BY <2>2, <3>1, <3>2, HealthyStep DEF AlertInv, WindowInv
    <3> QED BY <2>1, <3>3 DEF AlertInv
  <2> QED BY <2>4, <2>5
<1>2. UNCHANGED queries /\ QueryInv => QueryInv'
  BY DEF queries, counters, QueryInv, QueryTypeOK, InService, PermitsExact, Holders,
         RequestsAccounted, Running
<1>3. UNCHANGED <<rule, errorRate, history>> /\ now' \in Nat /\ now' >= now /\ WindowInv => WindowInv'
  <2> SUFFICES ASSUME UNCHANGED <<rule, errorRate, history>>, now' \in Nat, now' >= now, WindowInv
               PROVE  WindowInv'
    OBVIOUS
  <2>1. Breach(errorRate)' = Breach(errorRate)
    BY DEF Breach
  <2>2. /\ rule' = rule /\ evaluated' = evaluated /\ calm' = calm /\ breached' = breached
    BY DEF history
  <2>3. Window(rule, now', evaluated, calm, breached, Breach(errorRate))
    BY AlertAssumption DEF WindowInv, Window
  <2> QED BY <2>1, <2>2, <2>3 DEF WindowInv
<1>4. now \in Nat
  BY DEF AlertInv, WindowInv, Window
<1>5. CASE Tick
  BY <1>2, <1>3, <1>4, <1>5 DEF Tick, AlertInv
<1>6. CASE QueryNext /\ UNCHANGED alerts
  BY <1>3, <1>4, <1>6, QueryStep DEF alerts, AlertInv
<1>7. CASE UNCHANGED vars
  BY <1>2, <1>3, <1>4, <1>7 DEF vars, alerts, AlertInv
<1> QED BY <1>1, <1>5, <1>6, <1>7 DEF Next

-----------------------------------------------------------------------------
\* The permits, the counters and the window of the rule always agree with what the
\* threads and the samples did: _semaphore, query_requests_total, _states[name].
THEOREM AlertInvariant == Spec => []AlertInv
<1> QED BY AlertInit, AlertStep, PTL DEF Spec

\* The counters only grow, so a window between two samples counts nothing negative.
Sampled ==
    /\ prev \in [requests : Nat, errors : Nat, executions : Nat]
    /\ prev.requests <= requests /\ prev.errors <= errors /\ prev.executions <= executions
    /\ errorRate \in [num : Nat, den : Nat]
    /\ now \in 0..MaxNow

LEMMA CountersGrow ==
    ASSUME AlertInv, QueryNext
    PROVE  requests' >= requests /\ errors' >= errors /\ executions' >= executions
<1>1. requests \in Nat /\ errors \in Nat /\ executions \in Nat
  BY QueryAssumption DEF AlertInv, QueryInv, QueryTypeOK
<1>2. ASSUME NEW t \in Threads, NEW s \in Services, Begin(t, s)
      PROVE  requests' >= requests /\ UNCHANGED <<errors, executions>>
  BY <1>1, <1>2 DEF Begin
<1>3. ASSUME NEW t \in Threads, CountExecution(t)
      PROVE  executions' = executions + 1 /\ UNCHANGED <<requests, errors>>
  BY <1>3 DEF CountExecution
<1>4. ASSUME NEW t \in Threads, AnswerError(t)
      PROVE  errors' = errors + 1 /\ UNCHANGED <<requests, executions>>
  BY <1>4 DEF AnswerError, CountError
<1>5. ASSUME NEW t \in Threads, CallStep(t) \/ Raise(t), ~CountExecution(t), ~AnswerError(t)
      PROVE  UNCHANGED <<requests, errors, executions>>
  BY <1>5 DEF CallStep, MetricContext, PolicyContext, Check, Acquire, Execute, Release, Audit,
              AnswerOk, Raise, Step, counters
<1> QED BY <1>1, <1>2, <1>3, <1>4, <1>5 DEF QueryNext

LEMMA SampledStep == AlertInv /\ Sampled /\ [Next]_vars => Sampled'
<1> SUFFICES ASSUME AlertInv, Sampled, [Next]_vars PROVE Sampled'
  OBVIOUS
<1>1. requests \in Nat /\ errors \in Nat /\ executions \in Nat /\ MaxNow \in Nat
  BY QueryAssumption, AlertAssumption DEF AlertInv, QueryInv, QueryTypeOK
<1>2. CASE Evaluate
  <2>1. /\ prev' = Snapshot /\ errorRate' = ErrorRate
        /\ UNCHANGED <<requests, errors, executions, now>>
    BY <1>2 DEF Evaluate, queries, counters
  <2>2. /\ Delta("requests") = requests - prev.requests
        /\ Delta("errors") = errors - prev.errors
        /\ Delta("executions") = executions - prev.executions
    BY DEF Delta, Snapshot
  <2>3. Delta("requests") \in Nat /\ Delta("errors") \in Nat /\ Delta("executions") \in Nat
    BY <1>1, <2>2 DEF Sampled
  <2>4. ErrorRate \in [num : Nat, den : Nat]
    BY <2>3 DEF ErrorRate
  <2>5. /\ Snapshot \in [requests : Nat, errors : Nat, executions : Nat]
        /\ Snapshot.requests = requests /\ Snapshot.errors = errors
        /\ Snapshot.executions = executions
    BY <1>1 DEF Snapshot
  <2> QED BY <1>1, <2>1, <2>4, <2>5 DEF Sampled
<1>3. CASE Tick
  BY <1>1, <1>3 DEF Tick, Sampled, queries, counters
<1>4. CASE QueryNext /\ UNCHANGED alerts
  <2>1. UNCHANGED <<prev, errorRate, now>>
    BY <1>4 DEF alerts
  <2>2. requests' >= requests /\ errors' >= errors /\ executions' >= executions
    BY <1>4, CountersGrow
  <2>3. requests' \in Nat /\ errors' \in Nat /\ executions' \in Nat
    BY <1>4, QueryStep, QueryAssumption DEF AlertInv, QueryInv, QueryTypeOK
  <2> QED BY <1>1, <2>1, <2>2, <2>3 DEF Sampled
<1>5. CASE UNCHANGED vars
  BY <1>5 DEF vars, queries, counters, alerts, Sampled
<1> QED BY <1>2, <1>3, <1>4, <1>5 DEF Next

\* The queries and the alert thread are well typed: a free permit never exceeds the limit,
\* and neither part of an error rate is negative.
THEOREM AlertTypesOK == Spec => []AlertTypeOK
<1>1. Init => Sampled
  BY AlertAssumption DEF Init, QueryInit, Sampled
<1>2. AlertInv /\ Sampled => AlertTypeOK
  BY DEF AlertInv, QueryInv, WindowInv, Window, Sampled, AlertTypeOK
<1>3. Spec => []Sampled
  BY <1>1, SampledStep, AlertInvariant, PTL DEF Spec
<1> QED BY <1>2, <1>3, AlertInvariant, PTL

\* Of the errors since the last sample, those of queries that began before it are of threads
\* that have ended them since.
Overshoot ==
    (errors - prev.errors) + Cardinality(Running)
        <= (requests - prev.requests) + Cardinality(Threads)

Counted ==
    /\ requests \in Nat /\ errors \in Nat /\ answered \in Nat /\ raised \in Nat
    /\ Cardinality(Running) \in Nat /\ Cardinality(Threads) \in Nat
    /\ Cardinality(Running) <= Cardinality(Threads)
    /\ requests = answered + errors + raised + Cardinality(Running)

LEMMA AlertCounted == AlertInv => Counted
<1>1. IsFiniteSet(Threads) /\ Running \in SUBSET Threads
  BY QueryAssumption DEF Running
<1>2. Cardinality(Running) <= Cardinality(Threads)
  BY <1>1, FS_Subset
<1> QED BY <1>1, <1>2, ThreadSets, FS_CardinalityType, QueryAssumption
        DEF AlertInv, QueryInv, QueryTypeOK, RequestsAccounted, Counted

\* A query that ends is answered, raises or is a counted error.
LEMMA EndsGrow ==
    ASSUME AlertInv, QueryNext
    PROVE  answered' >= answered /\ raised' >= raised
<1>1. answered \in Nat /\ raised \in Nat
  BY AlertCounted DEF Counted
<1>2. ASSUME NEW t \in Threads, NEW s \in Services, Begin(t, s) PROVE UNCHANGED <<answered, raised>>
  BY <1>2 DEF Begin
<1>3. ASSUME NEW t \in Threads, AnswerOk(t) PROVE answered' = answered + 1 /\ raised' = raised
  BY <1>3 DEF AnswerOk
<1>4. ASSUME NEW t \in Threads, Raise(t) PROVE raised' = raised + 1 /\ answered' = answered
  BY <1>4 DEF Raise
<1>5. ASSUME NEW t \in Threads, CallStep(t), ~AnswerOk(t) PROVE UNCHANGED <<answered, raised>>
  BY <1>5 DEF CallStep, MetricContext, PolicyContext, Check, Acquire, Execute, Release,
              CountExecution, Audit, AnswerError, Step
<1> QED BY <1>1, <1>2, <1>3, <1>4, <1>5 DEF QueryNext

LEMMA OvershootStep == AlertInv /\ AlertInv' /\ Sampled /\ Overshoot /\ [Next]_vars => Overshoot'
<1> SUFFICES ASSUME AlertInv, AlertInv', Sampled, Overshoot, [Next]_vars PROVE Overshoot'
  OBVIOUS
<1> DEFINE N == Cardinality(Running)  M == Cardinality(Threads)
<1>1. /\ requests \in Nat /\ errors \in Nat /\ answered \in Nat /\ raised \in Nat
      /\ N \in Nat /\ M \in Nat /\ N <= M /\ requests = answered + errors + raised + N
  BY AlertCounted DEF Counted
<1>2. /\ requests' \in Nat /\ errors' \in Nat /\ answered' \in Nat /\ raised' \in Nat
      /\ N' \in Nat /\ N' <= M
      /\ requests' = answered' + errors' + raised' + N'
  <2>1. Counted'
    BY AlertCounted, PTL
  <2> QED BY <2>1 DEF Counted
<1>3. prev.requests \in Nat /\ prev.errors \in Nat
  BY DEF Sampled
<1> HIDE DEF N, M
<1>4. Overshoot <=> (errors - prev.errors) + N <= (requests - prev.requests) + M
  BY DEF Overshoot, N, M
<1>5. Overshoot' <=> (errors' - prev'.errors) + N' <= (requests' - prev'.requests) + M
  BY DEF Overshoot, N, M
<1>6. CASE Evaluate
  <2>1. prev'.requests = requests /\ prev'.errors = errors /\ requests' = requests /\ errors' = errors
    BY <1>6 DEF Evaluate, Snapshot, queries, counters
  <2>2. errors' - prev'.errors = 0 /\ requests' - prev'.requests = 0
    BY <2>1, <1>1
  <2>3. N' \in Nat /\ M \in Nat /\ N' <= M
    BY <1>1, <1>2
  <2>4. ASSUME NEW n \in Nat, NEW m \in Nat, n <= m PROVE 0 + n <= 0 + m
    BY ONLY n \in Nat, m \in Nat, n <= m
  <2> QED BY <2>2, <2>3, <2>4, <1>5
<1>7. CASE QueryNext /\ UNCHANGED alerts
  <2>1. prev' = prev
    BY <1>7 DEF alerts
  <2>2. answered' >= answered /\ raised' >= raised
    BY <1>7, EndsGrow
  <2> QED BY ONLY <2>1, <2>2, <1>1, <1>2, <1>3, <1>4, <1>5, Overshoot
<1>8. CASE Tick \/ UNCHANGED vars
  <2>1. UNCHANGED <<prev, requests, errors, pc>>
    BY <1>8 DEF Tick, vars, queries, counters, alerts
  <2> QED BY <2>1 DEF Overshoot, Running
<1> QED BY <1>6, <1>7, <1>8 DEF Next

\* For any number of threads the error rate of a window exceeds 1 only by what queries that
\* were running at its beginning may add: the correct remainder of the comment in run().
THEOREM AlertOvershootBounded == Spec => []OvershootBounded
<1>1. Init => Sampled
  BY AlertAssumption DEF Init, QueryInit, Sampled
<1>2. Init => Overshoot /\ OvershootBounded
  <2> SUFFICES ASSUME Init PROVE Overshoot /\ OvershootBounded
    OBVIOUS
  <2>1. AlertInv
    BY AlertInit
  <2>2. /\ requests = 0 /\ errors = 0 /\ prev.requests = 0 /\ prev.errors = 0
        /\ errorRate.num = 0 /\ errorRate.den = 0
    BY DEF Init, QueryInit
  <2> QED BY <2>1, <2>2, AlertCounted DEF Counted, Overshoot, OvershootBounded
<1>3. AlertInv /\ Sampled /\ Overshoot /\ OvershootBounded /\ [Next]_vars => OvershootBounded'
  <2> SUFFICES ASSUME AlertInv, Sampled, Overshoot, OvershootBounded, [Next]_vars
               PROVE  OvershootBounded'
    OBVIOUS
  <2>1. CASE Evaluate
    <3>1. errorRate' = ErrorRate
      BY <2>1 DEF Evaluate
    <3>2. /\ Delta("requests") = requests - prev.requests
          /\ Delta("errors") = errors - prev.errors
          /\ Delta("executions") = executions - prev.executions
      BY DEF Delta, Snapshot
    <3>3. /\ Cardinality(Threads) \in Nat /\ Cardinality(Running) \in Nat
          /\ errors - prev.errors \in Nat /\ requests - prev.requests \in Nat
          /\ executions - prev.executions \in Nat
      BY AlertCounted, QueryAssumption DEF Counted, AlertInv, QueryInv, QueryTypeOK, Sampled
    <3>4. errors - prev.errors <= (requests - prev.requests) + Cardinality(Threads)
      BY <3>3 DEF Overshoot
    <3>5. ErrorRate.num <= ErrorRate.den + Cardinality(Threads)
      BY <3>2, <3>3, <3>4 DEF ErrorRate
    <3> QED BY <3>1, <3>5 DEF OvershootBounded
  <2>2. CASE Tick \/ (QueryNext /\ UNCHANGED alerts) \/ UNCHANGED vars
    BY <2>2 DEF Tick, vars, alerts, OvershootBounded
  <2> QED BY <2>1, <2>2 DEF Next
<1> QED BY <1>1, <1>2, <1>3, SampledStep, OvershootStep, AlertInvariant, PTL DEF Spec

\* No permit of a service is lost or given back twice, whatever way the queries take
\* through the acquire, the execution and its finally.
THEOREM QueryPermitsExact == Spec => []PermitsExact
<1>1. AlertInv => PermitsExact
  BY DEF AlertInv, QueryInv
<1> QED BY <1>1, AlertInvariant, PTL

\* Every request counted at the beginning of run() ends as one answer, one counted error
\* or one exception.
THEOREM QueryRequestsAccounted == Spec => []RequestsAccounted
<1>1. AlertInv => RequestsAccounted
  BY DEF AlertInv, QueryInv
<1> QED BY <1>1, AlertInvariant, PTL

\* A rule fires only when every sample of its window was a breach, and it does fire at
\* the first sample at which the breach was seen for that long.
THEOREM AlertFiresAfterWindow == Spec => []FiresAfterWindow
<1>1. AlertInv => FiresAfterWindow
  <2> SUFFICES ASSUME AlertInv PROVE FiresAfterWindow
    OBVIOUS
  <2>1. rule.status \in {"none", "pending", "firing", "resolved"} /\ rule.since \in Nat
        /\ breached \in Nat /\ evaluated \in Nat /\ For \in Nat
    BY AlertAssumption DEF AlertInv, WindowInv, Window
  <2>2. rule.status = "firing" => Breach(errorRate) /\ calm + For <= evaluated
    BY DEF AlertInv, WindowInv, Window
  <2>3. ASSUME Breach(errorRate), breached + For <= evaluated PROVE rule.status = "firing"
    <3>1. rule.status \notin {"none", "resolved"}
      BY <2>3 DEF AlertInv, WindowInv, Window
    <3>2. rule.status = "pending" => rule.since <= breached /\ evaluated < rule.since + For
      BY <2>3 DEF AlertInv, WindowInv, Window
    <3>3. rule.status # "pending"
      BY <2>1, <2>3, <3>2
    <3> QED BY <2>1, <3>1, <3>3
  <2> QED BY <2>2, <2>3 DEF FiresAfterWindow
<1> QED BY <1>1, AlertInvariant, PTL

-----------------------------------------------------------------------------
(* The exporter of Telemetry *)

Injective(q) == \A i, j \in DOMAIN q : i # j => q[i] # q[j]
Putting == {putting[r] : r \in Requests} \ {NoSpan}

\* The types, and that a request opens and puts spans of its own.
Typed ==
    /\ TelemetryTypeOK
    /\ \A r \in Requests :
          /\ putting[r] # NoSpan => putting[r][1] = r
          /\ \A i \in DOMAIN opened[r] : opened[r][i][1] = r

\* A span on its way is in one place only.
OnePlace ==
    /\ Injective(queue)
    /\ hand["worker"] \cap hand["flush"] = {}
    /\ \A d \in Drainers : (Elements(queue) \cup Putting) \cap hand[d] = {}
    /\ Elements(queue) \cap Putting = {}

\* It has not arrived and is not lost; what has arrived is not lost, and arrived once.
OneFate ==
    \A s \in Spans :
       /\ s \in InFlight \cup lost => arrived[s] = 0
       /\ s \in InFlight => s \notin lost
       /\ arrived[s] \in {0, 1}

Local(s) == s \notin InFlight /\ s \notin lost /\ arrived[s] = 0

\* A span is recorded when it is ended, and a request has it open once.
OpenIsLocal ==
    /\ \A s \in Spans : flag[s] = "" => Local(s)
    /\ \A r \in Requests :
          /\ Injective(opened[r])
          /\ \A i \in DOMAIN opened[r] : flag[opened[r][i]] # "" /\ Local(opened[r][i])

ExporterInv == Typed /\ OnePlace /\ OneFate /\ OpenIsLocal

-----------------------------------------------------------------------------
(* Sequences *)

\* Appending to a sequence adds an element, and keeps it injective if that is new.
LEMMA AppendElement ==
    ASSUME NEW S, NEW q \in Seq(S), NEW s \in S
    PROVE  /\ Append(q, s) \in Seq(S) /\ Len(Append(q, s)) = Len(q) + 1
           /\ Elements(Append(q, s)) = Elements(q) \cup {s}
           /\ Injective(q) /\ s \notin Elements(q) => Injective(Append(q, s))
<1>1. Append(q, s) \in Seq(S) /\ Len(Append(q, s)) = Len(q) + 1
      /\ DOMAIN Append(q, s) = 1..Len(q) + 1 /\ DOMAIN q = 1..Len(q) /\ Len(q) \in Nat
  OBVIOUS
<1>2. \A i \in 1..Len(q) : Append(q, s)[i] = q[i]
  OBVIOUS
<1>3. Append(q, s)[Len(q) + 1] = s
  OBVIOUS
<1>4. Elements(Append(q, s)) \subseteq Elements(q) \cup {s}
  BY <1>1, <1>2, <1>3 DEF Elements
<1>5. Elements(q) \cup {s} \subseteq Elements(Append(q, s))
  BY <1>1, <1>2, <1>3 DEF Elements
<1>6. Injective(q) /\ s \notin Elements(q) => Injective(Append(q, s))
  BY <1>1, <1>2, <1>3 DEF Elements, Injective
<1> QED BY <1>1, <1>4, <1>5, <1>6

\* The head of an injective sequence is not in its tail.
LEMMA HeadAndTail ==
    ASSUME NEW S, NEW q \in Seq(S), q # <<>>
    PROVE  /\ Head(q) \in S /\ Tail(q) \in Seq(S) /\ Len(Tail(q)) = Len(q) - 1
           /\ Elements(q) = Elements(Tail(q)) \cup {Head(q)}
           /\ Injective(q) => Injective(Tail(q)) /\ Head(q) \notin Elements(Tail(q))
<1>1. /\ Head(q) = q[1] /\ Tail(q) \in Seq(S) /\ Len(q) \in Nat \ {0} /\ Len(Tail(q)) = Len(q) - 1
      /\ DOMAIN q = 1..Len(q) /\ DOMAIN Tail(q) = 1..Len(q) - 1 /\ q[1] \in S
  OBVIOUS
<1>2. \A i \in 1..Len(q) - 1 : Tail(q)[i] = q[i + 1]
  OBVIOUS
<1>3. \A i \in 2..Len(q) : i - 1 \in 1..Len(q) - 1 /\ q[i] = Tail(q)[i - 1]
  BY <1>1, <1>2
<1>4. Elements(q) \subseteq Elements(Tail(q)) \cup {Head(q)}
  <2> SUFFICES ASSUME NEW i \in 1..Len(q), q[i] # q[1]
               PROVE  q[i] \in Elements(Tail(q))
    BY <1>1 DEF Elements
  <2>1. i \in 2..Len(q)
    BY <1>1
  <2> QED BY <1>1, <1>3, <2>1 DEF Elements
<1>5. Elements(Tail(q)) \cup {Head(q)} \subseteq Elements(q)
  BY <1>1, <1>2 DEF Elements
<1>6. Injective(q) => Injective(Tail(q)) /\ Head(q) \notin Elements(Tail(q))
  BY <1>1, <1>2 DEF Elements, Injective
<1> QED BY <1>1, <1>4, <1>5, <1>6

\* What closing the innermost span leaves open.
LEMMA FrontOfOpened ==
    ASSUME NEW S, NEW q \in Seq(S), q # <<>>
    PROVE  /\ Front(q) \in Seq(S) /\ q[Len(q)] \in S
           /\ \A i \in DOMAIN Front(q) : i \in DOMAIN q /\ Front(q)[i] = q[i]
           /\ Injective(q) => /\ Injective(Front(q))
                              /\ \A i \in DOMAIN Front(q) : Front(q)[i] # q[Len(q)]
<1>1. Len(q) \in Nat \ {0} /\ DOMAIN q = 1..Len(q)
  OBVIOUS
<1>2. Front(q) \in Seq(S) /\ Len(Front(q)) = Len(q) - 1
  BY <1>1 DEF Front
<1>3. DOMAIN Front(q) = 1..Len(q) - 1 /\ \A i \in 1..Len(q) - 1 : Front(q)[i] = q[i]
  BY <1>1, <1>2 DEF Front
<1> QED BY <1>1, <1>2, <1>3 DEF Injective

LEMMA EmptySequence ==
    ASSUME NEW S
    PROVE  <<>> \in Seq(S) /\ Len(<<>>) = 0 /\ DOMAIN <<>> = {} /\ Elements(<<>>) = {} /\ Injective(<<>>)
<1>1. <<>> \in Seq(S) /\ Len(<<>>) = 0 /\ DOMAIN <<>> = {}
  OBVIOUS
<1> QED BY <1>1 DEF Elements, Injective

-----------------------------------------------------------------------------
(* The steps *)

LEMMA OpenedSpans ==
    ASSUME ExporterInv, NEW r \in Requests, NEW i \in DOMAIN opened[r]
    PROVE  opened[r][i] \in Spans
<1>1. opened[r] \in Seq(Spans)
  BY DEF ExporterInv, Typed, TelemetryTypeOK
<1> QED BY <1>1

\* What a step may do to a span.
Same(s) ==
    /\ s \in InFlight' <=> s \in InFlight
    /\ s \in lost' <=> s \in lost
    /\ arrived'[s] = arrived[s]
Recorded(s) == Local(s) /\ s \in InFlight' /\ s \notin lost' /\ arrived'[s] = 0
Finished(s) ==
    /\ s \in InFlight
    /\ \/ s \notin lost' /\ arrived'[s] = 1
       \/ s \in lost' /\ arrived'[s] = 0
Progress == \A s \in Spans : Same(s) \/ Recorded(s) \/ Finished(s)

\* Where a span on its way may be.
LEMMA InFlightIs ==
    /\ InFlight = Elements(queue) \cup hand["worker"] \cup hand["flush"] \cup Putting
    /\ InFlight' = Elements(queue') \cup hand'["worker"] \cup hand'["flush"] \cup Putting'
BY DEF InFlight, Putting

\* Nothing that concerns the way of a span changes.
Still == UNCHANGED <<putting, queue, hand, lost, arrived>>

LEMMA StillProgress ==
    ASSUME OnePlace, OneFate, Still
    PROVE  /\ OnePlace' /\ OneFate' /\ Progress
           /\ \A s : Local(s)' <=> Local(s)
<1>1. InFlight' = InFlight
  BY DEF InFlight, Still
<1>2. OnePlace' = OnePlace
  BY DEF Still, OnePlace, Putting, Injective
<1>3. OneFate'
  BY <1>1 DEF Still, OneFate
<1>4. Progress
  BY <1>1 DEF Still, Progress, Same
<1> QED BY <1>1, <1>2, <1>3, <1>4 DEF Still, Local

\* A span begins.
LEMMA StartStep ==
    ASSUME ExporterInv, NEW r \in Requests, NEW kind \in Kinds, NEW parent,
           Start(SpanOf(r, kind), parent)
    PROVE  ExporterInv' /\ Progress
<1> DEFINE s == <<r, kind>>
<1>1. s \in Spans /\ s[1] = r /\ SpanOf(r, kind) = s
  BY DEF Spans, SpanOf
<1> HIDE DEF s
<1>2. PICK f \in {"00", "01"} : flag' = [flag EXCEPT ![s] = f]
  BY <1>1 DEF Start, SampleFlag
<1>3. /\ flag[s] = "" /\ opened' = [opened EXCEPT ![r] = Append(@, s)]
      /\ UNCHANGED <<exporting, putting, buffer, queue, drainer, hand, arrived, lost, down>>
  BY <1>1 DEF Start, exporter
<1>4. OnePlace' /\ OneFate' /\ Progress /\ \A x : Local(x)' <=> Local(x)
  BY <1>3, StillProgress DEF ExporterInv, Still
<1>5. /\ opened \in [Requests -> Seq(Spans)] /\ flag \in [Spans -> {"", "00", "01"}]
      /\ opened[r] \in Seq(Spans)
  BY DEF ExporterInv, Typed, TelemetryTypeOK
<1>6. s \notin Elements(opened[r])
  BY <1>3 DEF Elements, ExporterInv, OpenIsLocal
<1>7. /\ opened'[r] \in Seq(Spans) /\ Elements(opened'[r]) = Elements(opened[r]) \cup {s}
      /\ Injective(opened'[r])
  <2>1. Injective(opened[r])
    BY DEF ExporterInv, OpenIsLocal
  <2>2. opened'[r] = Append(opened[r], s)
    BY <1>3, <1>5
  <2>3. /\ Append(opened[r], s) \in Seq(Spans)
        /\ Elements(Append(opened[r], s)) = Elements(opened[r]) \cup {s}
        /\ Injective(Append(opened[r], s))
    <3> DEFINE q == opened[r]
    <3>1. q \in Seq(Spans) /\ s \notin Elements(q) /\ Injective(q) /\ s \in Spans
      BY <1>1, <1>5, <1>6, <2>1
    <3> HIDE DEF q
    <3>2. /\ Append(q, s) \in Seq(Spans)
          /\ Elements(Append(q, s)) = Elements(q) \cup {s}
          /\ Injective(Append(q, s))
      BY ONLY <3>1, AppendElement
    <3> QED BY <3>2 DEF q
  <2> QED BY <2>2, <2>3
<1>8. \A q \in Requests : q # r => opened'[q] = opened[q]
  BY <1>3, <1>5
<1>9. Typed'
  <2>1. TelemetryTypeOK'
    BY <1>2, <1>3, <1>5, <1>7, <1>8 DEF ExporterInv, Typed, TelemetryTypeOK
  <2>2. \A q \in Requests : \A i \in DOMAIN opened'[q] : opened'[q][i][1] = q
    <3> SUFFICES ASSUME NEW q \in Requests, NEW i \in DOMAIN opened'[q]
                 PROVE  opened'[q][i][1] = q
      OBVIOUS
    <3>1. CASE q # r
      BY <3>1, <1>8 DEF ExporterInv, Typed
    <3>2. CASE q = r
      <4>1. opened'[r][i] \in Elements(opened[r]) \cup {s}
        BY <3>2, <1>7 DEF Elements
      <4> QED BY <4>1, <3>2, <1>1 DEF Elements, ExporterInv, Typed
    <3> QED BY <3>1, <3>2
  <2> QED BY <2>1, <2>2, <1>3 DEF ExporterInv, Typed
<1>10. OpenIsLocal'
  <2>1. \A x \in Spans : flag'[x] = "" => Local(x)'
    BY <1>2, <1>4, <1>5 DEF ExporterInv, OpenIsLocal
  <2>2. Local(s) /\ flag'[s] # ""
    BY <1>1, <1>2, <1>3, <1>5 DEF ExporterInv, OpenIsLocal
  <2>3. \A q \in Requests : \A i \in DOMAIN opened[q] :
           opened[q][i] \in Spans /\ flag'[opened[q][i]] # "" /\ Local(opened[q][i])
    <3> SUFFICES ASSUME NEW q \in Requests, NEW i \in DOMAIN opened[q]
                 PROVE  opened[q][i] \in Spans /\ flag'[opened[q][i]] # "" /\ Local(opened[q][i])
      OBVIOUS
    <3>1. opened[q] \in Seq(Spans)
      BY <1>5
    <3>2. opened[q][i] \in Spans
      BY <3>1
    <3> QED BY <3>2, <1>1, <1>2, <1>5 DEF ExporterInv, OpenIsLocal
  <2>4. \A q \in Requests : Injective(opened'[q])
    BY <1>7, <1>8 DEF ExporterInv, OpenIsLocal
  <2>5. \A q \in Requests : \A i \in DOMAIN opened'[q] :
           flag'[opened'[q][i]] # "" /\ Local(opened'[q][i])
    <3> SUFFICES ASSUME NEW q \in Requests, NEW i \in DOMAIN opened'[q]
                 PROVE  flag'[opened'[q][i]] # "" /\ Local(opened'[q][i])
      OBVIOUS
    <3>1. CASE q # r
      BY <3>1, <1>8, <2>3
    <3>2. CASE q = r
      <4>1. opened'[r][i] \in Elements(opened[r]) \cup {s}
        BY <3>2, <1>7 DEF Elements
      <4> QED BY <4>1, <3>2, <2>2, <2>3 DEF Elements
    <3> QED BY <3>1, <3>2
  <2> QED BY <2>1, <2>4, <2>5, <1>4 DEF OpenIsLocal, Injective
<1> QED BY <1>4, <1>9, <1>10 DEF ExporterInv

\* The innermost open span of a request, and what stays open when it is closed.
LEMMA Closing ==
    ASSUME ExporterInv, NEW r \in Requests, opened[r] # <<>>,
           opened' = [opened EXCEPT ![r] = Front(@)]
    PROVE  /\ Innermost(r) \in Spans /\ Innermost(r)[1] = r /\ Local(Innermost(r))
           /\ flag[Innermost(r)] # ""
           /\ opened' \in [Requests -> Seq(Spans)]
           /\ \A q \in Requests :
                 /\ Injective(opened'[q])
                 /\ \A i \in DOMAIN opened'[q] :
                       /\ opened'[q][i] \in Spans /\ opened'[q][i][1] = q
                       /\ opened'[q][i] # Innermost(r)
                       /\ flag[opened'[q][i]] # "" /\ Local(opened'[q][i])
<1> DEFINE o == opened[r]
<1>1. opened \in [Requests -> Seq(Spans)] /\ o \in Seq(Spans) /\ o # <<>> /\ Injective(o)
  BY DEF ExporterInv, Typed, TelemetryTypeOK, OpenIsLocal
<1>2. \A q \in Requests : q # r => opened'[q] = opened[q]
  BY <1>1
<1>3. opened'[r] = Front(o)
  BY <1>1
<1>4. \A q \in Requests : \A i \in DOMAIN opened[q] :
         /\ opened[q][i] \in Spans /\ opened[q][i][1] = q
         /\ flag[opened[q][i]] # "" /\ Local(opened[q][i])
  <2> SUFFICES ASSUME NEW q \in Requests, NEW i \in DOMAIN opened[q]
               PROVE  /\ opened[q][i] \in Spans /\ opened[q][i][1] = q
                      /\ flag[opened[q][i]] # "" /\ Local(opened[q][i])
    OBVIOUS
  <2>1. opened[q] \in Seq(Spans)
    BY <1>1
  <2>2. opened[q][i] \in Spans
    BY <2>1
  <2> QED BY <2>2 DEF ExporterInv, Typed, OpenIsLocal
<1>5. Innermost(r) = o[Len(o)] /\ Len(o) \in DOMAIN opened[r]
  BY <1>1 DEF Innermost
<1>6. \A i \in DOMAIN o : opened[r][i] = o[i]
  OBVIOUS
<1>7. Innermost(r) \in Spans /\ Innermost(r)[1] = r /\ Local(Innermost(r)) /\ flag[Innermost(r)] # ""
  <2>1. Innermost(r) = opened[r][Len(o)]
    BY <1>5
  <2> QED BY <2>1, <1>4, <1>5
<1> HIDE DEF o
<1>8. /\ Front(o) \in Seq(Spans) /\ Injective(Front(o))
      /\ \A i \in DOMAIN Front(o) : i \in DOMAIN o /\ Front(o)[i] = o[i] /\ Front(o)[i] # o[Len(o)]
  BY ONLY <1>1, FrontOfOpened
<1>9. opened' \in [Requests -> Seq(Spans)]
  BY <1>1, <1>3, <1>8
<1>10. ASSUME NEW q \in Requests
       PROVE  /\ Injective(opened'[q])
              /\ \A i \in DOMAIN opened'[q] :
                    /\ opened'[q][i] \in Spans /\ opened'[q][i][1] = q
                    /\ opened'[q][i] # Innermost(r)
                    /\ flag[opened'[q][i]] # "" /\ Local(opened'[q][i])
  <2>1. CASE q # r
    <3>1. opened'[q] = opened[q] /\ Injective(opened[q])
      BY <2>1, <1>2 DEF ExporterInv, OpenIsLocal
    <3>2. ASSUME NEW i \in DOMAIN opened'[q]
          PROVE  /\ opened'[q][i] \in Spans /\ opened'[q][i][1] = q
                 /\ opened'[q][i] # Innermost(r)
                 /\ flag[opened'[q][i]] # "" /\ Local(opened'[q][i])
      <4>1. i \in DOMAIN opened[q] /\ opened'[q][i] = opened[q][i]
        BY <3>1
      <4>2. opened[q][i][1] = q
        BY <4>1, <1>4
      <4>3. opened[q][i] # Innermost(r)
        BY <4>2, <2>1, <1>7
      <4> QED BY <4>1, <4>3, <1>4
    <3> QED BY <3>1, <3>2
  <2>2. CASE q = r
    <3>1. Injective(opened'[q])
      BY <2>2, <1>3, <1>8
    <3>2. ASSUME NEW i \in DOMAIN opened'[q]
          PROVE  i \in DOMAIN opened[r] /\ opened'[q][i] = opened[r][i] /\ opened'[q][i] # Innermost(r)
      BY <2>2, <1>3, <1>5, <1>8 DEF o
    <3>3. ASSUME NEW i \in DOMAIN opened'[q]
          PROVE  /\ opened'[q][i] \in Spans /\ opened'[q][i][1] = q
                 /\ flag[opened'[q][i]] # "" /\ Local(opened'[q][i])
      <4>1. i \in DOMAIN opened[r] /\ opened'[q][i] = opened[r][i]
        BY <3>2
      <4>2. /\ opened[r][i] \in Spans /\ opened[r][i][1] = r
            /\ flag[opened[r][i]] # "" /\ Local(opened[r][i])
        BY <4>1, <1>4
      <4> QED BY <2>2, <4>1, <4>2
    <3> QED BY <3>1, <3>2, <3>3
  <2> QED BY <2>1, <2>2
<1> QED BY <1>7, <1>9, <1>10

\* run() leaves without ending its span.
LEMMA AbandonStep ==
    ASSUME ExporterInv, NEW r \in Requests, Abandon(r)
    PROVE  ExporterInv' /\ Progress
<1>1. /\ opened[r] # <<>> /\ opened' = [opened EXCEPT ![r] = Front(@)]
      /\ UNCHANGED <<exporting, flag, putting, buffer, queue, drainer, hand, arrived, lost, down>>
  BY DEF Abandon, Inside, exporter
<1>2. OnePlace' /\ OneFate' /\ Progress /\ \A x : Local(x)' <=> Local(x)
  BY <1>1, StillProgress DEF ExporterInv, Still
<1>3. /\ opened' \in [Requests -> Seq(Spans)]
      /\ \A q \in Requests :
            /\ Injective(opened'[q])
            /\ \A i \in DOMAIN opened'[q] :
                  opened'[q][i][1] = q /\ flag[opened'[q][i]] # "" /\ Local(opened'[q][i])
  BY <1>1, Closing
<1>4. Typed'
  BY <1>1, <1>3 DEF ExporterInv, Typed, TelemetryTypeOK
<1>5. OpenIsLocal'
  BY <1>1, <1>2, <1>3 DEF ExporterInv, OpenIsLocal, Injective
<1> QED BY <1>2, <1>4, <1>5 DEF ExporterInv

\* A span ends: it is on its way to the queue when it is sampled and there is an exporter.
LEMMA EndStep ==
    ASSUME ExporterInv, NEW r \in Requests, End(r)
    PROVE  ExporterInv' /\ Progress
<1> DEFINE s == Innermost(r)
<1>1. /\ opened[r] # <<>> /\ opened' = [opened EXCEPT ![r] = Front(@)] /\ putting[r] = NoSpan
      /\ UNCHANGED <<exporting, flag, queue, drainer, hand, arrived, lost, down>>
      /\ \/ buffer' = Latest(Append(buffer, s)) /\ putting' = [putting EXCEPT ![r] = s]
         \/ buffer' = Latest(Append(buffer, s)) /\ UNCHANGED putting
         \/ UNCHANGED <<buffer, putting>>
  BY DEF End, exporter, ExporterInv, Typed, TelemetryTypeOK
<1>2. s \in Spans /\ s[1] = r /\ Local(s) /\ flag[s] # ""
  BY <1>1, Closing
<1>3. /\ opened' \in [Requests -> Seq(Spans)]
      /\ \A q \in Requests :
            /\ Injective(opened'[q])
            /\ \A i \in DOMAIN opened'[q] :
                  /\ opened'[q][i] \in Spans /\ opened'[q][i][1] = q /\ opened'[q][i] # s
                  /\ flag[opened'[q][i]] # "" /\ Local(opened'[q][i])
  BY <1>1, Closing
<1> HIDE DEF s
<1>4. buffer' \in Seq(Spans) /\ Len(buffer') <= BufferSize
  <2> DEFINE b == Append(buffer, s)
  <2>1. buffer \in Seq(Spans) /\ Len(buffer) <= BufferSize /\ BufferSize \in Nat \ {0}
    BY TelemetryAssumption DEF ExporterInv, Typed, TelemetryTypeOK
  <2>2. b \in Seq(Spans) /\ Len(b) = Len(buffer) + 1 /\ b # <<>>
    <3>1. b \in Seq(Spans) /\ Len(b) = Len(buffer) + 1
      BY ONLY <2>1, <1>2, AppendElement
    <3>2. Len(buffer) \in Nat
      BY <2>1
    <3> HIDE DEF b
    <3>3. b # <<>>
      BY <3>1, <3>2
    <3> QED BY <3>1, <3>3
  <2> HIDE DEF b
  <2>3. Tail(b) \in Seq(Spans) /\ Len(Tail(b)) = Len(buffer)
    BY <2>1, <2>2
  <2>4. Latest(b) \in Seq(Spans) /\ Len(Latest(b)) <= BufferSize
    BY <2>1, <2>2, <2>3 DEF Latest
  <2> QED BY <1>1, <2>1, <2>4 DEF b
<1>5. CASE UNCHANGED putting
  <2>1. OnePlace' /\ OneFate' /\ Progress /\ \A x : Local(x)' <=> Local(x)
    BY <1>1, <1>5, StillProgress DEF ExporterInv, Still
  <2>2. Typed'
    BY <1>1, <1>3, <1>4, <1>5 DEF ExporterInv, Typed, TelemetryTypeOK
  <2>3. OpenIsLocal'
    BY <1>1, <2>1, <1>3 DEF ExporterInv, OpenIsLocal, Injective
  <2> QED BY <2>1, <2>2, <2>3 DEF ExporterInv
<1>6. CASE putting' = [putting EXCEPT ![r] = s]
  <2>1. putting \in [Requests -> Spans \cup {NoSpan}] /\ s # NoSpan
    BY <1>2, TelemetryAssumption DEF ExporterInv, Typed, TelemetryTypeOK
  <2>2. Putting' = Putting \cup {s}
    BY <1>1, <1>6, <2>1 DEF Putting
  <2>3. InFlight' = InFlight \cup {s}
    BY <1>1, <2>2, InFlightIs
  <2>4. \A x \in Spans : x # s => (Local(x)' <=> Local(x))
    BY <1>1, <2>3 DEF Local
  <2>5. Typed'
    BY <1>1, <1>2, <1>3, <1>4, <1>6, <2>1 DEF ExporterInv, Typed, TelemetryTypeOK
  <2>6. s \notin Elements(queue) /\ \A d \in Drainers : s \notin hand[d]
    BY <1>2, InFlightIs DEF Local, Drainers
  <2>7. OnePlace'
    BY <1>1, <2>2, <2>6 DEF ExporterInv, OnePlace, Injective, Elements
  <2>8. OneFate'
    BY <1>1, <1>2, <2>3 DEF ExporterInv, OneFate, Local
  <2>9. OpenIsLocal'
    BY <1>1, <1>2, <1>3, <2>4 DEF ExporterInv, OpenIsLocal, Injective
  <2>10. Progress
    BY <1>1, <1>2, <2>3 DEF Progress, Same, Recorded, Local
  <2> QED BY <2>5, <2>7, <2>8, <2>9, <2>10 DEF ExporterInv
<1> QED BY <1>1, <1>5, <1>6

\* put_nowait(): the span moves on or is lost.
LEMMA PutStep ==
    ASSUME ExporterInv, NEW r \in Requests, Put(r)
    PROVE  ExporterInv' /\ Progress
<1> DEFINE s == putting[r]
<1>1. /\ s \in Spans /\ s # NoSpan /\ s[1] = r /\ s \in Putting
      /\ putting \in [Requests -> Spans \cup {NoSpan}] /\ queue \in Seq(Spans)
  BY DEF Put, Putting, ExporterInv, Typed, TelemetryTypeOK
<1>2. /\ putting' = [putting EXCEPT ![r] = NoSpan]
      /\ UNCHANGED <<exporting, flag, opened, buffer, drainer, hand, arrived, down>>
      /\ \/ Len(queue) < QueueSize /\ queue' = Append(queue, s) /\ UNCHANGED lost
         \/ lost' = lost \cup {s} /\ UNCHANGED queue
  BY DEF Put, exporter
<1>3. Putting' = Putting \ {s}
  <2>1. \A q \in Requests : q # r /\ putting[q] # NoSpan => putting[q] # s
    BY <1>1 DEF ExporterInv, Typed
  <2> QED BY <1>1, <1>2, <2>1 DEF Putting
<1>4. s \in InFlight /\ s \notin Elements(queue) /\ \A d \in Drainers : s \notin hand[d]
  BY <1>1, InFlightIs DEF ExporterInv, OnePlace
<1> HIDE DEF s
<1>5. s \notin lost /\ arrived[s] = 0 /\ ~Local(s)
  BY <1>1, <1>4 DEF ExporterInv, OneFate, Local
<1>6. CASE Len(queue) < QueueSize /\ queue' = Append(queue, s) /\ UNCHANGED lost
  <2>1. /\ queue' \in Seq(Spans) /\ Len(queue') = Len(queue) + 1 /\ Injective(queue')
        /\ Elements(queue') = Elements(queue) \cup {s}
    <3>1. Injective(queue)
      BY DEF ExporterInv, OnePlace
    <3>2. /\ Append(queue, s) \in Seq(Spans) /\ Len(Append(queue, s)) = Len(queue) + 1
          /\ Injective(Append(queue, s)) /\ Elements(Append(queue, s)) = Elements(queue) \cup {s}
      BY ONLY <3>1, <1>1, <1>4, AppendElement
    <3> QED BY <3>2, <1>6
  <2>2. InFlight' = InFlight
    BY <1>1, <1>2, <1>3, <2>1, InFlightIs
  <2>3. Typed'
    <3>1. Len(queue') <= QueueSize
      BY <1>1, <1>6, <2>1, TelemetryAssumption
    <3> QED BY <1>1, <1>2, <2>1, <3>1, <1>6 DEF ExporterInv, Typed, TelemetryTypeOK
  <2>4. OnePlace'
    BY <1>2, <1>3, <1>4, <2>1 DEF ExporterInv, OnePlace
  <2>5. OneFate' /\ Progress /\ \A x : Local(x)' <=> Local(x)
    BY <1>2, <1>6, <2>2 DEF ExporterInv, OneFate, Progress, Same, Local
  <2>6. OpenIsLocal'
    BY <1>2, <2>5 DEF ExporterInv, OpenIsLocal, Injective
  <2> QED BY <2>3, <2>4, <2>5, <2>6 DEF ExporterInv
<1>7. CASE lost' = lost \cup {s} /\ UNCHANGED queue
  <2>1. InFlight' = InFlight \ {s}
    BY <1>2, <1>3, <1>4, <1>7, InFlightIs DEF Drainers
  <2>2. Typed'
    BY <1>1, <1>2, <1>7 DEF ExporterInv, Typed, TelemetryTypeOK
  <2>3. OnePlace'
    BY <1>2, <1>3, <1>7 DEF ExporterInv, OnePlace, Injective, Elements
  <2>4. OneFate'
    BY <1>2, <1>5, <1>7, <2>1 DEF ExporterInv, OneFate
  <2>5. Progress
    BY <1>2, <1>4, <1>5, <1>7, <2>1 DEF Progress, Same, Finished
  <2>6. \A x : Local(x) => Local(x)'
    BY <1>2, <1>5, <1>7, <2>1 DEF Local
  <2>7. OpenIsLocal'
    <3>1. \A x \in Spans : flag'[x] = "" => Local(x)'
      BY <1>2, <2>6 DEF ExporterInv, OpenIsLocal
    <3>2. \A q \in Requests :
             /\ Injective(opened'[q])
             /\ \A i \in DOMAIN opened'[q] : flag'[opened'[q][i]] # "" /\ Local(opened'[q][i])
      BY <1>2 DEF ExporterInv, OpenIsLocal
    <3> QED BY <2>6, <3>1, <3>2 DEF OpenIsLocal, Injective
  <2> QED BY <2>2, <2>3, <2>4, <2>5, <2>7 DEF ExporterInv
<1> QED BY <1>2, <1>6, <1>7

\* A drainer takes the head of the queue, or finds it empty.
LEMMA DrainStep ==
    ASSUME ExporterInv, NEW d \in Drainers, Drain(d)
    PROVE  ExporterInv' /\ Progress
<1>1. /\ UNCHANGED <<exporting, flag, opened, putting, buffer, arrived, lost, down>>
      /\ drainer' \in [Drainers -> {"idle", "sleep", "drain", "post", "flushed"}]
  BY DEF Drain, tracing, Go, Done, ExporterInv, Typed, TelemetryTypeOK
<1>2. CASE UNCHANGED <<queue, hand>>
  <2>1. OnePlace' /\ OneFate' /\ Progress /\ \A x : Local(x)' <=> Local(x)
    BY <1>1, <1>2, StillProgress DEF ExporterInv, Still
  <2>2. Typed'
    BY <1>1, <1>2 DEF ExporterInv, Typed, TelemetryTypeOK
  <2>3. OpenIsLocal'
    BY <1>1, <2>1 DEF ExporterInv, OpenIsLocal, Injective
  <2> QED BY <2>1, <2>2, <2>3 DEF ExporterInv
<1>3. CASE /\ queue # <<>>
           /\ hand' = [hand EXCEPT ![d] = @ \cup {Head(queue)}]
           /\ queue' = Tail(queue)
  <2> DEFINE s == Head(queue)
  <2>1. queue \in Seq(Spans) /\ hand \in [Drainers -> SUBSET Spans] /\ Injective(queue)
    BY DEF ExporterInv, Typed, TelemetryTypeOK, OnePlace
  <2>2. /\ s \in Spans /\ queue' \in Seq(Spans) /\ Len(queue') = Len(queue) - 1
        /\ Elements(queue) = Elements(queue') \cup {s}
        /\ Injective(queue') /\ s \notin Elements(queue')
    <3>1. queue # <<>>
      BY <1>3
    <3>2. /\ Head(queue) \in Spans /\ Tail(queue) \in Seq(Spans) /\ Len(Tail(queue)) = Len(queue) - 1
          /\ Elements(queue) = Elements(Tail(queue)) \cup {Head(queue)}
          /\ Injective(Tail(queue)) /\ Head(queue) \notin Elements(Tail(queue))
      BY ONLY <3>1, <2>1, HeadAndTail
    <3> QED BY <3>2, <1>3
  <2>3. /\ hand' \in [Drainers -> SUBSET Spans] /\ hand'[d] = hand[d] \cup {s}
        /\ \A e \in Drainers : e # d => hand'[e] = hand[e]
    BY <1>3, <2>1, <2>2
  <2> HIDE DEF s
  <2>4. InFlight' = InFlight
    <3>1. Putting' = Putting
      BY <1>1 DEF Putting
    <3> QED BY <2>2, <2>3, <3>1, InFlightIs DEF Drainers
  <2>5. Typed'
    <3>1. Len(queue') <= QueueSize
      <4>1. Len(queue) <= QueueSize
        BY DEF ExporterInv, Typed, TelemetryTypeOK
      <4>2. Len(queue) \in Nat
        BY <2>1
      <4> QED BY ONLY <2>2, <4>1, <4>2, TelemetryAssumption
    <3> QED BY <1>1, <2>2, <2>3, <3>1 DEF ExporterInv, Typed, TelemetryTypeOK
  <2>6. OnePlace'
    <3>1. Putting' = Putting
      BY <1>1 DEF Putting
    <3>2. /\ hand["worker"] \cap hand["flush"] = {} /\ Elements(queue) \cap Putting = {}
          /\ \A e \in Drainers : (Elements(queue) \cup Putting) \cap hand[e] = {}
      BY DEF ExporterInv, OnePlace
    <3>3. hand'["worker"] \cap hand'["flush"] = {}
      BY <2>2, <2>3, <3>2 DEF Drainers
    <3>4. \A e \in Drainers : (Elements(queue') \cup Putting) \cap hand'[e] = {}
      BY <2>2, <2>3, <3>2
    <3> QED BY <2>2, <3>1, <3>2, <3>3, <3>4 DEF OnePlace
  <2>7. OneFate' /\ Progress /\ \A x : Local(x)' <=> Local(x)
    BY <1>1, <2>4 DEF ExporterInv, OneFate, Progress, Same, Local
  <2>8. OpenIsLocal'
    BY <1>1, <2>7 DEF ExporterInv, OpenIsLocal, Injective
  <2> QED BY <2>5, <2>6, <2>7, <2>8 DEF ExporterInv
<1> QED BY <1>2, <1>3 DEF Drain

\* A trace of the batch is posted, and arrives or not.
LEMMA PostStep ==
    ASSUME ExporterInv, NEW d \in Drainers, Post(d)
    PROVE  ExporterInv' /\ Progress
<1>1. PICK r \in Requests :
         /\ \/ /\ arrived' = [s \in Spans |->
                                IF s \in Group(d, r) THEN arrived[s] + 1 ELSE arrived[s]]
               /\ UNCHANGED lost
            \/ lost' = lost \cup Group(d, r) /\ UNCHANGED arrived
         /\ hand' = [hand EXCEPT ![d] = Rest(d, r)]
         /\ Go(d, Done(d)) \/ UNCHANGED drainer
  BY DEF Post
<1>2. UNCHANGED <<exporting, flag, opened, putting, buffer, queue, down>>
  BY DEF Post, tracing
<1>3. /\ hand \in [Drainers -> SUBSET Spans] /\ arrived \in [Spans -> Nat]
      /\ lost \subseteq Spans /\ drainer \in [Drainers -> {"idle", "sleep", "drain", "post", "flushed"}]
  BY DEF ExporterInv, Typed, TelemetryTypeOK
<1> DEFINE G == Group(d, r)
<1>4. G \subseteq hand[d] /\ G \subseteq Spans /\ Rest(d, r) = hand[d] \ G
  BY <1>3 DEF Group, Rest
<1>5. /\ hand' \in [Drainers -> SUBSET Spans] /\ hand'[d] = hand[d] \ G
      /\ \A e \in Drainers : e # d => hand'[e] = hand[e]
  BY <1>1, <1>3, <1>4
<1>6. /\ hand["worker"] \cap hand["flush"] = {} /\ Elements(queue) \cap Putting = {}
      /\ \A e \in Drainers : (Elements(queue) \cup Putting) \cap hand[e] = {}
      /\ Injective(queue)
  BY DEF ExporterInv, OnePlace
<1>7. \/ /\ arrived' = [s \in Spans |-> IF s \in G THEN arrived[s] + 1 ELSE arrived[s]]
         /\ UNCHANGED lost
      \/ lost' = lost \cup G /\ UNCHANGED arrived
  BY <1>1
<1> HIDE DEF G
<1>8. Putting' = Putting
  BY <1>2 DEF Putting
<1>9. InFlight' = InFlight \ G /\ G \subseteq InFlight
  BY <1>2, <1>4, <1>5, <1>6, <1>8, InFlightIs DEF Drainers
<1>10. \A s \in G : s \notin lost /\ arrived[s] = 0
  BY <1>4, <1>9 DEF ExporterInv, OneFate
<1>11. Typed'
  <2>1. arrived' \in [Spans -> Nat] /\ lost' \subseteq Spans
    BY <1>3, <1>4, <1>7
  <2>2. drainer' \in [Drainers -> {"idle", "sleep", "drain", "post", "flushed"}]
    BY <1>1, <1>3 DEF Go, Done
  <2> QED BY <1>2, <1>5, <2>1, <2>2 DEF ExporterInv, Typed, TelemetryTypeOK
<1>12. OnePlace'
  <2>1. hand'["worker"] \cap hand'["flush"] = {}
    BY <1>5, <1>6 DEF Drainers
  <2>2. \A e \in Drainers : (Elements(queue) \cup Putting) \cap hand'[e] = {}
    BY <1>5, <1>6
  <2> QED BY <1>2, <1>6, <1>8, <2>1, <2>2 DEF OnePlace
<1>13. \A s \in Spans \ G : arrived'[s] = arrived[s] /\ (s \in lost' <=> s \in lost)
  BY <1>3, <1>7
<1>14. \A s \in G : \/ s \notin lost' /\ arrived'[s] = 1
                    \/ s \in lost' /\ arrived'[s] = 0
  BY <1>3, <1>4, <1>7, <1>10
<1>15. OneFate'
  <2> SUFFICES ASSUME NEW s \in Spans
               PROVE  /\ s \in InFlight' \cup lost' => arrived'[s] = 0
                      /\ s \in InFlight' => s \notin lost'
                      /\ arrived'[s] \in {0, 1}
    BY DEF OneFate
  <2>1. CASE s \in G
    <3>1. s \notin InFlight' /\ ((s \notin lost' /\ arrived'[s] = 1) \/ (s \in lost' /\ arrived'[s] = 0))
      BY <2>1, <1>9, <1>14
    <3> QED BY <3>1
  <2>2. CASE s \notin G
    <3>1. arrived'[s] = arrived[s] /\ (s \in lost' <=> s \in lost) /\ (s \in InFlight' <=> s \in InFlight)
      BY <2>2, <1>9, <1>13
    <3>2. /\ s \in InFlight \cup lost => arrived[s] = 0
          /\ s \in InFlight => s \notin lost
          /\ arrived[s] \in {0, 1}
      BY DEF ExporterInv, OneFate
    <3> QED BY <3>1, <3>2
  <2> QED BY <2>1, <2>2
<1>16. Progress
  <2>1. \A s \in Spans \ G : Same(s)
    BY <1>9, <1>13 DEF Same
  <2>2. \A s \in G : Finished(s)
    BY <1>9, <1>14 DEF Finished
  <2> QED BY <2>1, <2>2 DEF Progress
<1>17. OpenIsLocal'
  <2>1. \A s \in Spans : Local(s) => Local(s)'
    BY <1>9, <1>13 DEF Local
  <2>2. \A s \in Spans : flag'[s] = "" => Local(s)'
    BY <1>2, <2>1 DEF ExporterInv, OpenIsLocal
  <2>3. \A q \in Requests :
           /\ Injective(opened'[q])
           /\ \A i \in DOMAIN opened'[q] :
                 opened'[q][i] \in Spans /\ flag'[opened'[q][i]] # "" /\ Local(opened'[q][i])
    BY <1>2, OpenedSpans DEF ExporterInv, OpenIsLocal
  <2> QED BY <2>1, <2>2, <2>3 DEF OpenIsLocal, Injective
<1> QED BY <1>11, <1>12, <1>15, <1>16, <1>17 DEF ExporterInv

\* The process ends: what was on its way is lost.
LEMMA ExitStep ==
    ASSUME ExporterInv, Exit
    PROVE  ExporterInv' /\ Progress
<1>1. /\ UNCHANGED <<exporting, flag, opened, drainer, arrived>> /\ down' = TRUE
      /\ buffer' = <<>> /\ queue' = <<>> /\ hand' = [d \in Drainers |-> {}]
      /\ putting' = [r \in Requests |-> NoSpan] /\ lost' = lost \cup InFlight
  BY DEF Exit
<1>2. Putting' = {} /\ Elements(queue') = {} /\ \A d \in Drainers : hand'[d] = {}
  BY <1>1 DEF Putting, Elements
<1>3. InFlight' = {}
  BY <1>2, InFlightIs DEF Drainers
<1>4. InFlight \subseteq Spans
  <2>1. queue \in Seq(Spans) /\ hand \in [Drainers -> SUBSET Spans]
        /\ putting \in [Requests -> Spans \cup {NoSpan}]
    BY DEF ExporterInv, Typed, TelemetryTypeOK
  <2>2. Elements(queue) \subseteq Spans
    <3>1. \A i \in DOMAIN queue : queue[i] \in Spans
      BY <2>1
    <3> QED BY <3>1 DEF Elements
  <2>3. Putting \subseteq Spans
    BY <2>1 DEF Putting
  <2> QED BY <2>1, <2>2, <2>3, InFlightIs DEF Drainers
<1>5. Typed'
  <2>1. /\ buffer' \in Seq(Spans) /\ queue' \in Seq(Spans)
        /\ Len(buffer') <= BufferSize /\ Len(queue') <= QueueSize
    BY <1>1, TelemetryAssumption, EmptySequence
  <2>2. putting' \in [Requests -> Spans \cup {NoSpan}] /\ hand' \in [Drainers -> SUBSET Spans]
        /\ down' \in BOOLEAN /\ \A r \in Requests : putting'[r] = NoSpan
    BY <1>1
  <2>3. lost' \subseteq Spans
    BY <1>1, <1>4 DEF ExporterInv, Typed, TelemetryTypeOK
  <2> QED BY <1>1, <2>1, <2>2, <2>3 DEF ExporterInv, Typed, TelemetryTypeOK
<1>6. OnePlace'
  BY <1>1, <1>2 DEF OnePlace, Drainers, Injective
<1>7. OneFate'
  BY <1>1, <1>3 DEF ExporterInv, OneFate
<1>8. Progress
  BY <1>1, <1>3 DEF ExporterInv, OneFate, Progress, Same, Finished
<1>9. \A s : Local(s) => Local(s)'
  BY <1>1, <1>3 DEF Local
<1>10. OpenIsLocal'
  <2>1. \A q \in Requests :
           /\ Injective(opened'[q])
           /\ \A i \in DOMAIN opened'[q] : flag'[opened'[q][i]] # "" /\ Local(opened'[q][i])
    BY <1>1 DEF ExporterInv, OpenIsLocal
  <2>2. \A s \in Spans : flag'[s] = "" => Local(s)'
    BY <1>1, <1>9 DEF ExporterInv, OpenIsLocal
  <2> QED BY <1>9, <2>1, <2>2 DEF OpenIsLocal, Injective
<1> QED BY <1>5, <1>6, <1>7, <1>8, <1>10 DEF ExporterInv

\* The exporter wakes, a flush begins.
LEMMA DrainerStep ==
    ASSUME ExporterInv, Wake \/ BeginFlush
    PROVE  ExporterInv' /\ Progress
<1>1. /\ UNCHANGED <<exporting, flag, opened, putting, buffer, queue, hand, arrived, lost, down>>
      /\ drainer' \in [Drainers -> {"idle", "sleep", "drain", "post", "flushed"}]
  BY DEF Wake, BeginFlush, tracing, Go, ExporterInv, Typed, TelemetryTypeOK
<1>2. OnePlace' /\ OneFate' /\ Progress /\ \A x : Local(x)' <=> Local(x)
  BY <1>1, StillProgress DEF ExporterInv, Still
<1>3. Typed'
  BY <1>1 DEF ExporterInv, Typed, TelemetryTypeOK
<1>4. OpenIsLocal'
  BY <1>1, <1>2 DEF ExporterInv, OpenIsLocal, Injective
<1> QED BY <1>2, <1>3, <1>4 DEF ExporterInv

-----------------------------------------------------------------------------
(* The theorems *)

LEMMA ExporterInit == TelemetryInit => ExporterInv /\ Delivery!Init
<1> SUFFICES ASSUME TelemetryInit PROVE ExporterInv /\ Delivery!Init
  OBVIOUS
<1>1. /\ \A s \in Spans : flag[s] = "" /\ arrived[s] = 0
      /\ \A r \in Requests : opened[r] = <<>> /\ putting[r] = NoSpan
      /\ queue = <<>> /\ buffer = <<>> /\ lost = {}
      /\ hand["worker"] = {} /\ hand["flush"] = {} /\ \A d \in Drainers : hand[d] = {}
  BY DEF TelemetryInit, Drainers
<1>2. Putting = {} /\ Elements(queue) = {} /\ Injective(queue)
  BY <1>1, EmptySequence DEF Putting
<1>3. InFlight = {}
  BY <1>1, <1>2, InFlightIs
<1>4. Typed
  <2>1. /\ buffer \in Seq(Spans) /\ queue \in Seq(Spans)
        /\ Len(buffer) <= BufferSize /\ Len(queue) <= QueueSize
    <3>1. <<>> \in Seq(Spans) /\ Len(<<>>) = 0
      BY EmptySequence
    <3>2. 0 <= BufferSize /\ 0 <= QueueSize
      BY TelemetryAssumption
    <3>3. Len(buffer) = 0 /\ Len(queue) = 0
      BY <1>1, <3>1
    <3> QED BY <1>1, <3>1, <3>2, <3>3
  <2>2. opened \in [Requests -> Seq(Spans)]
    BY EmptySequence DEF TelemetryInit
  <2>3. /\ putting \in [Requests -> Spans \cup {NoSpan}] /\ hand \in [Drainers -> SUBSET Spans]
        /\ arrived \in [Spans -> Nat] /\ flag \in [Spans -> {"", "00", "01"}]
        /\ lost \subseteq Spans /\ exporting \in BOOLEAN /\ down \in BOOLEAN
    BY DEF TelemetryInit
  <2>4. drainer \in [Drainers -> {"idle", "sleep", "drain", "post", "flushed"}]
    BY DEF TelemetryInit
  <2>5. TelemetryTypeOK
    BY <2>1, <2>2, <2>3, <2>4 DEF TelemetryTypeOK
  <2>6. \A r \in Requests : DOMAIN opened[r] = {}
    BY <1>1, EmptySequence
  <2> QED BY <1>1, <2>5, <2>6 DEF Typed
<1>5. OnePlace /\ OneFate
  BY <1>1, <1>2, <1>3 DEF OnePlace, OneFate
<1>6. OpenIsLocal
  <2>1. \A s \in Spans : Local(s)
    BY <1>1, <1>3 DEF Local
  <2>2. \A r \in Requests : DOMAIN opened[r] = {} /\ Injective(opened[r])
    BY <1>1, EmptySequence
  <2> QED BY <2>1, <2>2 DEF OpenIsLocal
<1>7. \A s \in Spans : FateOf(s) = "local"
  <2> SUFFICES ASSUME NEW s \in Spans PROVE FateOf(s) = "local"
    OBVIOUS
  <2>1. arrived[s] = 0 /\ s \notin lost /\ s \notin InFlight
    BY <1>1, <1>3
  <2> QED BY <2>1 DEF FateOf
<1> QED BY <1>4, <1>5, <1>6, <1>7 DEF ExporterInv, Delivery!Init, Fates

LEMMA ExporterStep ==
    ASSUME ExporterInv, [TelemetryNext]_telemetry
    PROVE  ExporterInv' /\ Progress
<1>1. CASE UNCHANGED telemetry
  <2>1. /\ UNCHANGED <<exporting, flag, opened, putting, buffer, queue, hand, arrived, lost, down>>
        /\ UNCHANGED drainer
    BY <1>1 DEF telemetry, tracing, exporter
  <2>2. OnePlace' /\ OneFate' /\ Progress /\ \A x : Local(x)' <=> Local(x)
    BY <2>1, StillProgress DEF ExporterInv, Still
  <2>3. Typed'
    BY <2>1 DEF ExporterInv, Typed, TelemetryTypeOK
  <2>4. OpenIsLocal'
    BY <2>1, <2>2 DEF ExporterInv, OpenIsLocal, Injective
  <2> QED BY <2>2, <2>3, <2>4 DEF ExporterInv
<1>2. ASSUME NEW r \in Requests, StartRoot(r) PROVE ExporterInv' /\ Progress
  <2>1. PICK remote \in RemoteFlags : Start(SpanOf(r, "root"), remote)
    BY <1>2 DEF StartRoot
  <2> QED BY <2>1, StartStep DEF Kinds
<1>3. ASSUME NEW r \in Requests, StartQuery(r) PROVE ExporterInv' /\ Progress
  BY <1>3, StartStep DEF StartQuery, Kinds
<1>4. ASSUME NEW r \in Requests, NEW kind \in Inner, StartInner(r, kind)
      PROVE  ExporterInv' /\ Progress
  BY <1>4, StartStep DEF StartInner, Kinds
<1> QED BY <1>1, <1>2, <1>3, <1>4, EndStep, PutStep, AbandonStep, DrainerStep, ExitStep, DrainStep,
           PostStep DEF TelemetryNext

\* The state of the exporter is well typed, and every span on its way is in one place.
THEOREM ExporterInvariant == TelemetrySpec => []ExporterInv
<1>1. TelemetryInit => ExporterInv
  BY ExporterInit
<1>2. ExporterInv /\ [TelemetryNext]_telemetry => ExporterInv'
  BY ExporterStep
<1> QED BY <1>1, <1>2, PTL DEF TelemetrySpec

\* The exporter is well typed, and neither the buffer nor the queue outgrows its bound.
THEOREM ExporterTypeOK == TelemetrySpec => []TelemetryTypeOK
<1>1. ExporterInv => TelemetryTypeOK
  BY DEF ExporterInv, Typed
<1> QED BY <1>1, ExporterInvariant, PTL

\* A span's place decides its fate.
LEMMA FateByPlace ==
    ASSUME ExporterInv, NEW s \in Spans
    PROVE  /\ FateOf(s) = "delivered" <=> arrived[s] = 1
           /\ FateOf(s) = "lost" <=> arrived[s] = 0 /\ s \in lost
           /\ FateOf(s) = "pending" <=> arrived[s] = 0 /\ s \notin lost /\ s \in InFlight
           /\ FateOf(s) = "local" <=> Local(s)
           /\ FateOf(s) \in {"delivered", "lost", "pending", "local"}
<1>1. arrived[s] \in {0, 1}
  BY DEF ExporterInv, OneFate
<1> QED BY <1>1 DEF FateOf, Local

\* The exporter implements SpanDelivery: no span reaches the collector twice or after it
\* was given up, and none disappears uncounted.
THEOREM ExporterDelivers == TelemetrySpec => DeliverySpec
<1>1. TelemetryInit => Delivery!Init
  BY ExporterInit
<1>2. ASSUME ExporterInv, ExporterInv', Progress, NEW s \in Spans
      PROVE  FateOf(s)' = FateOf(s) \/ <<FateOf(s), FateOf(s)'>> \in Delivery!Moves
  <2>1. /\ FateOf(s)' = "delivered" <=> arrived'[s] = 1
        /\ FateOf(s)' = "lost" <=> arrived'[s] = 0 /\ s \in lost'
        /\ FateOf(s)' = "pending" <=> arrived'[s] = 0 /\ s \notin lost' /\ s \in InFlight'
        /\ FateOf(s)' = "local" <=> Local(s)'
        /\ FateOf(s)' \in {"delivered", "lost", "pending", "local"}
    <3>1. arrived'[s] \in {0, 1}
      BY <1>2 DEF ExporterInv, OneFate
    <3> QED BY <3>1 DEF FateOf, Local
  <2>2. CASE Same(s)
    <3>1. FateOf(s)' = FateOf(s)
      BY <2>2 DEF Same, FateOf
    <3> QED BY <3>1
  <2>3. CASE Recorded(s)
    <3>1. FateOf(s) = "local"
      BY <1>2, <2>3, FateByPlace DEF Recorded
    <3>2. FateOf(s)' = "pending"
      BY <2>1, <2>3 DEF Recorded
    <3> QED BY <3>1, <3>2 DEF Delivery!Moves
  <2>4. CASE Finished(s)
    <3>1. FateOf(s) = "pending"
      BY <1>2, <2>4, FateByPlace DEF Finished, ExporterInv, OneFate
    <3>2. FateOf(s)' \in {"delivered", "lost"}
      BY <2>1, <2>4 DEF Finished
    <3> QED BY <3>1, <3>2 DEF Delivery!Moves
  <2> QED BY <1>2, <2>2, <2>3, <2>4 DEF Progress
<1>3. ExporterInv /\ ExporterInv' /\ [TelemetryNext]_telemetry => [Delivery!Next]_Fates
  <2> SUFFICES ASSUME ExporterInv, ExporterInv', [TelemetryNext]_telemetry
               PROVE  Delivery!Next
    OBVIOUS
  <2>1. \A s \in Spans : FateOf(s)' = FateOf(s) \/ <<FateOf(s), FateOf(s)'>> \in Delivery!Moves
    BY <1>2, ExporterStep
  <2> QED BY <2>1 DEF Delivery!Next, Fates
<1> QED BY <1>1, <1>3, ExporterInvariant, PTL DEF TelemetrySpec, DeliverySpec, Delivery!Spec
=============================================================================
