----------------------------- MODULE AlertEngine -----------------------------
(***************************************************************************)
(* mcp_server/observability/alerts.py: the alert thread samples the query  *)
(* counters while queries run, computes the error rate of the window since *)
(* its last sample and moves a rule on that rate between pending, firing   *)
(* and resolved.  A sample is one snapshot under the lock of the metrics;  *)
(* the rules do not depend on each other.  The latencies, the pool and the *)
(* other rates are left out.                                               *)
(***************************************************************************)
EXTENDS QueryService

CONSTANTS For,        \* "for" of the rule, in ticks
          Threshold,  \* of the rule, in percent
          MaxNow      \* bound: ticks of the clock

ASSUME AlertAssumption == For \in Nat /\ Threshold \in Nat /\ MaxNow \in Nat

VARIABLES prev,       \* _prev: the last snapshot
          errorRate,  \* the last error_rate, as numerator and denominator
          now,        \* _clock()
          rule,       \* _states[name]: status, "none" before the first sample, and pending_since
          evaluated,  \* history: when the rule was evaluated last,
          calm,       \* the last time it was not breached, or its first evaluation,
          breached    \* and when the breach after that was seen first

history == <<evaluated, calm, breached>>
alerts == <<prev, errorRate, now, rule, history>>
vars == <<queries, alerts>>

Snapshot == [requests |-> requests, errors |-> errors, executions |-> executions]

Init ==
    /\ QueryInit
    /\ prev = [requests |-> 0, errors |-> 0, executions |-> 0]
    /\ errorRate = [num |-> 0, den |-> 0]
    /\ now = 0
    /\ rule = [status |-> "none", since |-> 0]
    /\ evaluated = 0 /\ calm = 0 /\ breached = 0

Delta(name) == Snapshot[name] - prev[name]

\* _compute_signals(): requests are the denominator, executions stand in when there was
\* none; with neither the rate is 0.
ErrorRate ==
    LET den == IF Delta("requests") > 0 THEN Delta("requests") ELSE Delta("executions") IN
    [num |-> IF den > 0 THEN Delta("errors") ELSE 0, den |-> den]

Breach(rate) == 100 * rate.num > Threshold * rate.den

\* The state a rule is evaluated in: the first sample starts the window, and so does a
\* breach after the alert was resolved.
Reopened(breach) ==
    IF rule.status = "none" \/ (breach /\ rule.status = "resolved")
      THEN [status |-> "pending", since |-> now] ELSE rule

WindowOver(r) == now - r.since >= For

Calmed_KeepsWindow(r) == [r EXCEPT !.status = IF @ = "firing" THEN "resolved" ELSE @]
Calmed(r) ==
    IF r.status = "firing"  THEN [r EXCEPT !.status = "resolved"]
    ELSE IF r.status = "pending" THEN [r EXCEPT !.since = now]
    ELSE r

\* _eval_rule()
EvalRule(breach) ==
    LET r == Reopened(breach) IN
    /\ rule' = IF ~breach THEN Calmed(r)
               ELSE IF r.status = "pending" /\ WindowOver(r) THEN [r EXCEPT !.status = "firing"]
               ELSE r
    /\ evaluated' = now
    /\ calm' = IF ~breach \/ rule.status = "none" THEN now ELSE calm
    /\ breached' = IF breach /\ ~Breach(errorRate) THEN now ELSE breached

\* evaluate()
Evaluate ==
    /\ errorRate' = ErrorRate
    /\ prev' = Snapshot
    /\ EvalRule(Breach(ErrorRate))
    /\ UNCHANGED <<queries, now>>

Tick == now < MaxNow /\ now' = now + 1 /\ UNCHANGED <<queries, prev, errorRate, rule, history>>

Next == Evaluate \/ Tick \/ (QueryNext /\ UNCHANGED alerts)

Spec == Init /\ [][Next]_vars

-----------------------------------------------------------------------------
\* Every variable has its type.
AlertTypeOK ==
    /\ QueryTypeOK
    /\ prev \in [requests : Nat, errors : Nat, executions : Nat]
    /\ errorRate \in [num : Nat, den : Nat]
    /\ now \in 0..MaxNow
    /\ rule \in [status : {"none", "pending", "firing", "resolved"}, since : Nat]
    /\ evaluated \in Nat /\ calm \in Nat /\ breached \in Nat

\* "Becomes firing after the window": while an alert fires, every sample of the "for"
\* window before the last one, and the last one, were breaches; and a breach that was seen
\* at every sample for that long does fire.
FiresAfterWindow ==
    /\ rule.status = "firing" => Breach(errorRate) /\ calm + For <= evaluated
    /\ Breach(errorRate) /\ breached + For <= evaluated => rule.status = "firing"

\* What does hold of the rate: a window has more errors than requests only by queries that
\* were running when it began, at most one of each thread.
OvershootBounded == errorRate.num <= errorRate.den + Cardinality(Threads)

\* "The common denominator is made of successes and failures, which keeps error_rate in
\* [0, 1]".
ErrorRateIsAFraction == errorRate.num <= errorRate.den
=============================================================================
