------------------------- MODULE ServerLifespanProofs -------------------------
(***************************************************************************)
(* Where the audit event of a request is at any time, and what a shutdown  *)
(* leaves behind, for any number of requests and any size of the queue.    *)
(***************************************************************************)
EXTENDS ServerLifespan, SequenceTheorems, FiniteSetTheorems, TLAPS

\* Where a request is before its event is handed over.
Before == InLog \cup {"new", "query", "log"}

\* The events in a queue, and that none is in it twice.
Entries(q) == {q[i] : i \in DOMAIN q} \ {Barrier}
Once(q) == \A i, j \in 1..Len(q) : q[i] = q[j] /\ q[i] # Barrier => i = j
NoBarrier(q) == \A i \in 1..Len(q) : q[i] # Barrier
BarrierLast(q) == Len(q) > 0 /\ q[Len(q)] = Barrier /\ \A i \in 1..Len(q) - 1 : q[i] # Barrier

\* An event is in one place: still with its request, queued, in the writer's hand or stored.
Events ==
    /\ Once(queue)
    /\ \A r \in Requests : pc[r] \in Before => r \notin table /\ r \notin Queued /\ r # writing
    /\ writing \notin table /\ writing \notin Queued /\ Queued \cap table = {}
    /\ worker = "write" <=> writing # Nothing

\* A required event takes no queue: it is stored before its request is answered.
Synchronous ==
    required =>
        /\ Queued = {} /\ writing = Nothing
        /\ \A r \in Requests : /\ pc[r] \notin {"alive", "start", "put"}
                               /\ pc[r] = "logged" \/ outcome[r] = "ok" => r \in table

OkIsOver == \A r \in Requests : outcome[r] = "ok" => pc[r] \in {"end", "done"}

\* Events that were handed over and are nowhere any more.
Placed == {r \in Requests : pc[r] = "logged" \/ outcome[r] = "ok"}
Gone == Placed \ (table \cup Queued \cup {writing})
GoneCounted == ~closed \/ clean => Cardinality(Gone) <= failed

Active == {r \in Requests : pc[r] \notin {"new", "done"}}
InflightExact == inflight = Cardinality(Active)

Serving == {"starting", "ready", "drain"}
Closing == {"stop", "close", "join", "pools", "stopped"}

\* What a shutdown that did not give up has reached at each step.
Phases ==
    /\ main = "starting" => worker = "new"
    /\ closed => main \in {"join", "pools", "stopped"}
    /\ main \in Serving \cup {"flush"} => ~flushed /\ NoBarrier(queue)
    /\ clean /\ main \notin Serving => Active = {}
    /\ clean /\ main = "flushing" =>
          IF flushed THEN queue = <<>> /\ writing = Nothing ELSE BarrierLast(queue)
    /\ clean /\ main \in Closing => queue = <<>> /\ writing = Nothing

LifespanInv ==
    /\ TypeOK
    /\ Events
    /\ Synchronous
    /\ OkIsOver
    /\ CountersMatchTable
    /\ GoneCounted
    /\ InflightExact
    /\ Phases

-----------------------------------------------------------------------------
(* Queues *)

\* An event that is put into a queue is one more entry, and not there twice.
LEMMA AppendEntries ==
    ASSUME NEW q \in Seq(Requests \cup {Barrier}), NEW x \in Requests \cup {Barrier}
    PROVE  /\ Append(q, x) \in Seq(Requests \cup {Barrier}) /\ Len(Append(q, x)) = Len(q) + 1
           /\ Entries(Append(q, x)) = Entries(q) \cup ({x} \ {Barrier})
           /\ Once(q) /\ x \notin Entries(q) => Once(Append(q, x))
           /\ NoBarrier(q) /\ x # Barrier => NoBarrier(Append(q, x))
           /\ NoBarrier(q) /\ x = Barrier => BarrierLast(Append(q, x))
<1> DEFINE p == Append(q, x)
<1>1. /\ p \in Seq(Requests \cup {Barrier}) /\ Len(p) = Len(q) + 1 /\ Len(q) \in Nat
      /\ p[Len(q) + 1] = x /\ \A i \in 1..Len(q) : p[i] = q[i]
  OBVIOUS
<1>2. DOMAIN p = 1..(Len(q) + 1) /\ DOMAIN q = 1..Len(q)
  BY <1>1
<1> HIDE DEF p
<1>3. Entries(p) = Entries(q) \cup ({x} \ {Barrier})
  BY <1>1, <1>2 DEF Entries
<1>4. ASSUME Once(q), x \notin Entries(q) PROVE Once(p)
  <2>1. \A i \in 1..Len(q) : q[i] = x => x = Barrier
    BY <1>2, <1>4 DEF Entries
  <2> QED BY <1>1, <1>4, <2>1 DEF Once
<1>5. ASSUME NoBarrier(q), x # Barrier PROVE NoBarrier(p)
  BY <1>1, <1>5 DEF NoBarrier
<1>6. ASSUME NoBarrier(q), x = Barrier PROVE BarrierLast(p)
  BY <1>1, <1>6 DEF NoBarrier, BarrierLast
<1> QED BY <1>1, <1>3, <1>4, <1>5, <1>6 DEF p

\* An event that is taken from a queue is not in it any more.
LEMMA TailEntries ==
    ASSUME NEW q \in Seq(Requests \cup {Barrier}), q # <<>>, Once(q)
    PROVE  /\ Tail(q) \in Seq(Requests \cup {Barrier}) /\ Len(Tail(q)) = Len(q) - 1
           /\ Head(q) \in Requests \cup {Barrier}
           /\ Entries(q) = Entries(Tail(q)) \cup ({Head(q)} \ {Barrier})
           /\ Head(q) \notin Entries(Tail(q))
           /\ Once(Tail(q))
           /\ NoBarrier(q) => NoBarrier(Tail(q)) /\ Head(q) # Barrier
           /\ BarrierLast(q) /\ Head(q) = Barrier => Tail(q) = <<>>
           /\ BarrierLast(q) /\ Head(q) # Barrier => BarrierLast(Tail(q))
<1> DEFINE p == Tail(q)
<1>1. /\ p \in Seq(Requests \cup {Barrier}) /\ Len(p) = Len(q) - 1 /\ Len(q) \in Nat \ {0}
      /\ Head(q) = q[1] /\ \A i \in 1..Len(p) : p[i] = q[i + 1]
  OBVIOUS
<1>2. DOMAIN p = 1..Len(p) /\ DOMAIN q = 1..Len(q)
  BY <1>1
<1>3. Head(q) \in Requests \cup {Barrier}
  OBVIOUS
<1> HIDE DEF p
<1>4. \A i \in 1..Len(q) : i = 1 \/ (i - 1 \in 1..Len(p) /\ p[i - 1] = q[i])
  BY <1>1
<1>5. Entries(q) = Entries(p) \cup ({Head(q)} \ {Barrier})
  <2>1. \A x : x \in Entries(q) => x = Head(q) \/ x \in Entries(p)
    BY <1>1, <1>2, <1>4 DEF Entries
  <2>2. \A x : x \in Entries(p) => x \in Entries(q)
    BY <1>1, <1>2 DEF Entries
  <2>3. Head(q) # Barrier => Head(q) \in Entries(q)
    BY <1>1, <1>2 DEF Entries
  <2>4. Barrier \notin Entries(q)
    BY DEF Entries
  <2> QED BY <2>1, <2>2, <2>3, <2>4
<1>6. Head(q) \notin Entries(p)
  BY <1>1, <1>2 DEF Entries, Once
<1>7. Once(p)
  BY <1>1 DEF Once
<1>8. NoBarrier(q) => NoBarrier(p) /\ Head(q) # Barrier
  BY <1>1 DEF NoBarrier
<1>9. ASSUME BarrierLast(q), Head(q) = Barrier PROVE p = <<>>
  <2>1. Len(q) = 1
    BY <1>1, <1>9 DEF BarrierLast
  <2> QED BY <1>1, <2>1
<1>10. ASSUME BarrierLast(q), Head(q) # Barrier PROVE BarrierLast(p)
  <2>1. Len(q) # 1
    BY <1>1, <1>10 DEF BarrierLast
  <2> QED BY <1>1, <1>10, <2>1 DEF BarrierLast
<1> QED BY <1>1, <1>3, <1>5, <1>6, <1>7, <1>8, <1>9, <1>10 DEF p

-----------------------------------------------------------------------------
(* Counting *)

LEMMA FiniteSubsets ==
    /\ \A S : S \subseteq Requests => IsFiniteSet(S) /\ Cardinality(S) \in Nat
    /\ Gone \subseteq Requests /\ Active \subseteq Requests
    /\ Gone' \subseteq Requests /\ Active' \subseteq Requests
<1>1. \A S : S \subseteq Requests => IsFiniteSet(S)
  BY AuditAssumption, FS_Subset
<1>2. Gone \subseteq Requests /\ Active \subseteq Requests
  BY DEF Gone, Placed, Active
<1>3. Gone' \subseteq Requests /\ Active' \subseteq Requests
  BY DEF Gone, Placed, Active
<1> QED BY <1>1, <1>2, <1>3, FS_CardinalityType

LEMMA Bounded ==
    ASSUME NEW S, NEW T, S \subseteq Requests, T \subseteq S
    PROVE  Cardinality(T) <= Cardinality(S)
BY FiniteSubsets, FS_Subset

LEMMA OneMore ==
    ASSUME NEW S, NEW T, NEW x, S \subseteq Requests, x \notin S, T = S \cup {x}
    PROVE  Cardinality(T) = Cardinality(S) + 1
BY FiniteSubsets, FS_AddElement

LEMMA AtMostOneMore ==
    ASSUME NEW S, NEW T, NEW x \in Requests, S \subseteq Requests, T \subseteq S \cup {x}
    PROVE  Cardinality(T) <= Cardinality(S) + 1
<1>1. Cardinality(S \cup {x}) \in {Cardinality(S), Cardinality(S) + 1} /\ Cardinality(S) \in Nat
  BY FiniteSubsets, FS_AddElement
<1>2. Cardinality(T) <= Cardinality(S \cup {x})
  BY Bounded
<1>3. Cardinality(T) \in Nat
  BY FiniteSubsets
<1> QED BY <1>1, <1>2, <1>3

LEMMA OneLess ==
    ASSUME NEW S, NEW T, NEW x, S \subseteq Requests, x \in S, T = S \ {x}
    PROVE  Cardinality(S) \in Nat \ {0} /\ Cardinality(T) = Cardinality(S) - 1
<1>1. S # {}
  OBVIOUS
<1> QED BY <1>1, FiniteSubsets, FS_RemoveElement, FS_EmptySet

\* The entries of the queue as they are needed in a step.
LEMMA QueuedIs ==
    /\ Queued = Entries(queue) /\ Queued' = Entries(queue')
    /\ queue' = queue => Queued' = Queued
BY DEF Queued, Entries

-----------------------------------------------------------------------------
(* The requests *)

\* A request goes on and its event stays where it is: nowhere yet.
LEMMA MoveStep ==
    ASSUME LifespanInv, NEW r \in Requests, NEW b, Goto(r, b),
           pc[r] \in {"query", "log", "alive", "start"},
           b \in {"log", "alive", "put", "start", "sync", "raised"},
           required => b \notin {"alive", "put", "start"},
           UNCHANGED <<audit, main, lifecycle, poolsClosed, outcome, clean>>
    PROVE  LifespanInv'
<1>1. /\ UNCHANGED <<required, queue, stopping, closed, worker, writing, table, persisted, failed,
                     flushed, main, state, inflight, poolsClosed, outcome, clean>>
      /\ pc' = [pc EXCEPT ![r] = b]
  BY DEF audit, writer, counters, lifecycle, Goto
<1>2. /\ pc' \in [Requests -> InLog \cup {"new", "query", "log", "logged", "raised", "end", "done"}]
      /\ \A u \in Requests : pc'[u] = IF u = r THEN b ELSE pc[u]
  BY <1>1 DEF LifespanInv, TypeOK, InLog
<1>3. outcome[r] # "ok" /\ Queued' = Queued
  BY <1>1, QueuedIs DEF LifespanInv, OkIsOver
<1>4. Placed' = Placed /\ Active' = Active
  BY <1>1, <1>2, <1>3 DEF Placed, Active
<1>5. Gone' = Gone
  BY <1>1, <1>3, <1>4 DEF Gone
<1>6. TypeOK'
  BY <1>1, <1>2 DEF LifespanInv, TypeOK, AuditTypeOK
<1>7. Events'
  BY <1>1, <1>2, <1>3 DEF LifespanInv, Events, Before, InLog
<1>8. Synchronous' /\ OkIsOver'
  BY <1>1, <1>2, <1>3 DEF LifespanInv, Synchronous, OkIsOver
<1>9. CountersMatchTable' /\ GoneCounted' /\ InflightExact'
  BY <1>1, <1>4, <1>5 DEF LifespanInv, CountersMatchTable, GoneCounted, InflightExact
<1>10. Phases'
  BY <1>1, <1>4 DEF LifespanInv, Phases
<1> QED BY <1>6, <1>7, <1>8, <1>9, <1>10 DEF LifespanInv

\* While a shutdown has not given up, no request is active once the writer is closed.
LEMMA ActiveMeansOpen ==
    ASSUME LifespanInv, NEW r \in Requests, pc[r] \notin {"new", "done"}
    PROVE  /\ clean => main \in Serving
           /\ clean => ~closed
<1>1. r \in Active
  BY DEF Active
<1>2. clean => main \in Serving
  BY <1>1 DEF LifespanInv, Phases
<1>3. closed => main \notin Serving
  BY DEF LifespanInv, Phases, Serving
<1> QED BY <1>2, <1>3

\* A request gets its answer: with success only if its event was handed over.
LEMMA AnswerStep ==
    ASSUME LifespanInv, NEW r \in Requests, NEW o \in {"ok", "error"},
           pc[r] \in {"query", "logged", "raised"}, o = "ok" <=> pc[r] = "logged",
           Goto(r, "end"), outcome' = [outcome EXCEPT ![r] = o],
           UNCHANGED <<audit, main, lifecycle, poolsClosed, clean>>
    PROVE  LifespanInv'
<1>1. /\ UNCHANGED <<required, queue, stopping, closed, worker, writing, table, persisted, failed,
                     flushed, main, state, inflight, poolsClosed, clean>>
      /\ pc' = [pc EXCEPT ![r] = "end"]
  BY DEF audit, writer, counters, lifecycle, Goto
<1>2. /\ pc' \in [Requests -> InLog \cup {"new", "query", "log", "logged", "raised", "end", "done"}]
      /\ outcome' \in [Requests -> {"none", "ok", "error"}]
      /\ \A u \in Requests : /\ pc'[u] = IF u = r THEN "end" ELSE pc[u]
                             /\ outcome'[u] = IF u = r THEN o ELSE outcome[u]
  BY <1>1 DEF LifespanInv, TypeOK
<1>3. outcome[r] # "ok" /\ Queued' = Queued
  BY <1>1, QueuedIs DEF LifespanInv, OkIsOver
<1>4. Placed' = Placed /\ Active' = Active
  BY <1>2, <1>3 DEF Placed, Active
<1>5. Gone' = Gone
  BY <1>1, <1>3, <1>4 DEF Gone
<1>6. TypeOK'
  BY <1>1, <1>2 DEF LifespanInv, TypeOK, AuditTypeOK
<1>7. Events'
  BY <1>1, <1>2, <1>3 DEF LifespanInv, Events, Before, InLog
<1>8. Synchronous' /\ OkIsOver'
  BY <1>1, <1>2, <1>3 DEF LifespanInv, Synchronous, OkIsOver
<1>9. CountersMatchTable' /\ GoneCounted' /\ InflightExact'
  BY <1>1, <1>4, <1>5 DEF LifespanInv, CountersMatchTable, GoneCounted, InflightExact
<1>10. Phases'
  BY <1>1, <1>4 DEF LifespanInv, Phases
<1> QED BY <1>6, <1>7, <1>8, <1>9, <1>10 DEF LifespanInv

\* An event that is dropped because the writer is closed is not counted; the shutdown has
\* given up by then, or there would be no request.
LEMMA DropStep ==
    ASSUME LifespanInv, NEW r \in Requests, pc[r] = "log", ~required, closed,
           Goto(r, "logged"), UNCHANGED <<audit, main, lifecycle, poolsClosed, outcome, clean>>
    PROVE  LifespanInv'
<1>1. /\ UNCHANGED <<required, queue, stopping, closed, worker, writing, table, persisted, failed,
                     flushed, main, state, inflight, poolsClosed, outcome, clean>>
      /\ pc' = [pc EXCEPT ![r] = "logged"]
  BY DEF audit, writer, counters, lifecycle, Goto
<1>2. /\ pc' \in [Requests -> InLog \cup {"new", "query", "log", "logged", "raised", "end", "done"}]
      /\ \A u \in Requests : pc'[u] = IF u = r THEN "logged" ELSE pc[u]
  BY <1>1 DEF LifespanInv, TypeOK
<1>3. ~clean /\ Queued' = Queued
  BY <1>1, QueuedIs, ActiveMeansOpen
<1>4. Active' = Active
  BY <1>2 DEF Active
<1>5. TypeOK'
  BY <1>1, <1>2 DEF LifespanInv, TypeOK, AuditTypeOK
<1>6. Events'
  BY <1>1, <1>2, <1>3 DEF LifespanInv, Events, Before, InLog
<1>7. Synchronous' /\ OkIsOver'
  BY <1>1, <1>2, <1>3 DEF LifespanInv, Synchronous, OkIsOver
<1>8. CountersMatchTable' /\ GoneCounted' /\ InflightExact'
  BY <1>1, <1>3, <1>4 DEF LifespanInv, CountersMatchTable, GoneCounted, InflightExact
<1>9. Phases'
  BY <1>1, <1>4 DEF LifespanInv, Phases
<1> QED BY <1>5, <1>6, <1>7, <1>8, <1>9 DEF LifespanInv

\* The row is stored and counted, or the caller gets the failure of the insert.
LEMMA PersistStep ==
    ASSUME LifespanInv, NEW r \in Requests, PersistSync(r), Quiet
    PROVE  LifespanInv'
<1>1. /\ UNCHANGED <<required, queue, stopping, closed, worker, writing,
                     flushed, main, state, inflight, poolsClosed, outcome, clean>>
      /\ pc[r] = "sync" /\ table' \in {table, table \cup {r}}
  BY DEF PersistSync, Quiet, At, writer, lifecycle
<1>2. PICK b \in {"logged", "raised"} :
        /\ pc' = [pc EXCEPT ![r] = b] /\ (b = "logged" => r \in table')
        /\ \/ table' = table \cup {r} /\ persisted' = persisted + 1 /\ failed' = failed
           \/ persisted' = persisted /\ failed' = failed + 1
  BY <1>1 DEF PersistSync, Goto, AfterFailure
<1>3. /\ pc' \in [Requests -> InLog \cup {"new", "query", "log", "logged", "raised", "end", "done"}]
      /\ \A u \in Requests : pc'[u] = IF u = r THEN b ELSE pc[u]
  BY <1>2 DEF LifespanInv, TypeOK
<1>4. /\ r \notin table /\ r \notin Queued /\ r # writing /\ outcome[r] # "ok" /\ Queued' = Queued
      /\ table \subseteq Requests /\ table' \subseteq Requests
      /\ persisted \in Nat /\ failed \in Nat
  BY <1>1, QueuedIs DEF LifespanInv, Events, Before, InLog, OkIsOver, TypeOK, AuditTypeOK
<1>5. Active' = Active
  BY <1>1, <1>2, <1>3 DEF Active
<1>6. Gone' \subseteq Gone
  <2>1. \A u \in Requests : u # r /\ u \in Placed' => u \in Placed
    BY <1>1, <1>3 DEF Placed
  <2>2. r \in Placed' => r \in table'
    BY <1>1, <1>2, <1>3, <1>4 DEF Placed
  <2> QED BY <1>1, <1>4, <2>1, <2>2, FiniteSubsets DEF Gone
<1>7. Cardinality(Gone') <= Cardinality(Gone)
  BY <1>6, FiniteSubsets, Bounded
<1>8. Cardinality(table \cup {r}) = Cardinality(table) + 1
  BY <1>4, OneMore
<1>9. TypeOK'
  BY <1>1, <1>2, <1>3, <1>4 DEF LifespanInv, TypeOK, AuditTypeOK
<1>10. Events'
  BY <1>1, <1>2, <1>3, <1>4 DEF LifespanInv, Events, Before, InLog
<1>11. Synchronous' /\ OkIsOver'
  BY <1>1, <1>2, <1>3, <1>4 DEF LifespanInv, Synchronous, OkIsOver
<1>12. CountersMatchTable'
  <2>1. Cardinality(table) \in Nat /\ persisted <= Cardinality(table)
        /\ Cardinality(table) <= persisted + failed
    BY <1>4, FiniteSubsets DEF LifespanInv, CountersMatchTable
  <2>2. CASE table' = table \cup {r} /\ persisted' = persisted + 1 /\ failed' = failed
    <3>1. Cardinality(table') = Cardinality(table) + 1
      BY <1>8, <2>2
    <3> QED BY <1>4, <2>1, <2>2, <3>1 DEF CountersMatchTable
  <2>3. CASE persisted' = persisted /\ failed' = failed + 1
    <3>1. Cardinality(table') \in {Cardinality(table), Cardinality(table) + 1}
      BY <1>1, <1>8
    <3> QED BY <1>4, <2>1, <2>3, <3>1 DEF CountersMatchTable
  <2> QED BY <1>2, <2>2, <2>3
<1>13. GoneCounted'
  BY <1>1, <1>2, <1>4, <1>7, FiniteSubsets DEF LifespanInv, GoneCounted
<1>14. InflightExact' /\ Phases'
  BY <1>1, <1>5 DEF LifespanInv, InflightExact, Phases
<1> QED BY <1>9, <1>10, <1>11, <1>12, <1>13, <1>14 DEF LifespanInv

\* The event is queued behind the others, or costs one counted failure.
LEMMA PutStep ==
    ASSUME LifespanInv, NEW r \in Requests, Put(r), Quiet
    PROVE  LifespanInv'
<1>1. /\ UNCHANGED <<required, stopping, closed, worker, writing, table, persisted,
                     flushed, main, state, inflight, poolsClosed, outcome, clean>>
      /\ pc[r] = "put" /\ pc' = [pc EXCEPT ![r] = "logged"]
      /\ \/ Len(queue) < QueueSize /\ queue' = Append(queue, r) /\ failed' = failed
         \/ queue' = queue /\ failed' = failed + 1
  BY DEF Put, Goto, Quiet, At, writer, lifecycle, Room
<1>2. /\ pc' \in [Requests -> InLog \cup {"new", "query", "log", "logged", "raised", "end", "done"}]
      /\ \A u \in Requests : pc'[u] = IF u = r THEN "logged" ELSE pc[u]
  BY <1>1 DEF LifespanInv, TypeOK
<1>3. /\ r \notin table /\ r \notin Queued /\ r # writing /\ outcome[r] # "ok" /\ ~required
      /\ queue \in Seq(Requests \cup {Barrier}) /\ Len(queue) <= QueueSize
      /\ table \subseteq Requests /\ persisted \in Nat /\ failed \in Nat /\ r # Barrier
  BY <1>1, AuditAssumption DEF LifespanInv, Events, Before, InLog, OkIsOver, Synchronous, TypeOK,
                               AuditTypeOK
<1>4. /\ queue' \in Seq(Requests \cup {Barrier}) /\ Len(queue') <= QueueSize /\ Once(queue')
      /\ NoBarrier(queue) => NoBarrier(queue')
      /\ Queued' = Queued \/ Queued' = Queued \cup {r}
      /\ failed' = failed => Queued' = Queued \cup {r}
  <2>1. CASE queue' = queue /\ failed' = failed + 1
    BY <1>3, <2>1, QueuedIs DEF LifespanInv, Events
  <2>2. CASE Len(queue) < QueueSize /\ queue' = Append(queue, r)
    <3>1. /\ queue' \in Seq(Requests \cup {Barrier}) /\ Len(queue') = Len(queue) + 1
          /\ Entries(queue') = Entries(queue) \cup {r} /\ Once(queue')
          /\ NoBarrier(queue) => NoBarrier(queue')
      BY <1>3, <2>2, AppendEntries, QueuedIs DEF LifespanInv, Events
    <3> QED BY <1>3, <2>2, <3>1, QueuedIs, AuditAssumption
  <2> QED BY <1>1, <2>1, <2>2
<1>5. Active' = Active /\ (clean => main \in Serving)
  BY <1>1, <1>2, ActiveMeansOpen DEF Active
<1>6. Gone' \subseteq Gone \cup {r} /\ (failed' = failed => Gone' \subseteq Gone)
  <2>1. \A u \in Requests : u # r /\ u \in Placed' => u \in Placed
    BY <1>2, <1>1 DEF Placed
  <2>2. Gone' = Placed' \ (table' \cup Queued' \cup {writing'})
    BY DEF Gone
  <2> QED BY <1>1, <1>4, <2>1, <2>2, FiniteSubsets DEF Gone
<1>7. /\ Cardinality(Gone) \in Nat /\ Cardinality(Gone') \in Nat
      /\ Cardinality(Gone') <= Cardinality(Gone) + 1
      /\ failed' = failed => Cardinality(Gone') <= Cardinality(Gone)
  BY <1>6, FiniteSubsets, Bounded, AtMostOneMore
<1>8. TypeOK'
  BY <1>1, <1>2, <1>3, <1>4 DEF LifespanInv, TypeOK, AuditTypeOK
<1>9. Events'
  BY <1>1, <1>2, <1>3, <1>4 DEF LifespanInv, Events, Before, InLog
<1>10. Synchronous' /\ OkIsOver'
  BY <1>1, <1>2, <1>3 DEF LifespanInv, Synchronous, OkIsOver
<1>11. CountersMatchTable'
  <2>1. Cardinality(table) \in Nat
    BY <1>3, FiniteSubsets
  <2> QED BY <1>1, <1>3, <2>1 DEF LifespanInv, CountersMatchTable
<1>12. GoneCounted'
  BY <1>1, <1>3, <1>7 DEF LifespanInv, GoneCounted
<1>13. InflightExact'
  BY <1>1, <1>5 DEF LifespanInv, InflightExact
<1>14. Phases'
  BY <1>1, <1>4, <1>5 DEF LifespanInv, Phases, Serving, Closing
<1> QED BY <1>8, <1>9, <1>10, <1>11, <1>12, <1>13, <1>14 DEF LifespanInv

\* begin_request() and end_request(): one more, or one less, is in flight.
LEMMA FlightStep ==
    ASSUME LifespanInv, NEW r \in Requests, BeginRequest(r) \/ EndRequest(r)
    PROVE  LifespanInv'
<1>1. PICK b \in {"query", "done"} :
        /\ pc' = [pc EXCEPT ![r] = b]
        /\ b = "query" => pc[r] = "new" /\ inflight' = inflight + 1 /\ main \in Serving
        /\ b = "done" => pc[r] = "end" /\ inflight' = (IF inflight = 0 THEN 0 ELSE inflight - 1)
        /\ UNCHANGED <<required, queue, stopping, closed, worker, writing, table, persisted, failed,
                       flushed, main, state, poolsClosed, outcome, clean>>
  BY DEF BeginRequest, EndRequest, Goto, audit, writer, counters, LoopServes, Serving
<1>2. /\ pc' \in [Requests -> InLog \cup {"new", "query", "log", "logged", "raised", "end", "done"}]
      /\ \A u \in Requests : pc'[u] = IF u = r THEN b ELSE pc[u]
  BY <1>1 DEF LifespanInv, TypeOK
<1>3. Queued' = Queued /\ Placed' = Placed
  BY <1>1, <1>2, QueuedIs DEF Placed
<1>4. Gone' = Gone
  BY <1>1, <1>3 DEF Gone
<1>5. inflight' \in Nat /\ InflightExact'
  <2>1. inflight \in Nat /\ inflight = Cardinality(Active) /\ Active \subseteq Requests
    BY FiniteSubsets DEF LifespanInv, TypeOK, InflightExact
  <2>2. CASE b = "query"
    <3>1. Active' = Active \cup {r} /\ r \notin Active
      BY <1>1, <1>2, <2>2 DEF Active
    <3> QED BY <1>1, <2>1, <2>2, <3>1, OneMore DEF InflightExact
  <2>3. CASE b = "done"
    <3>1. Active' = Active \ {r} /\ r \in Active
      BY <1>1, <1>2, <2>3 DEF Active
    <3>2. Cardinality(Active) \in Nat \ {0} /\ Cardinality(Active') = Cardinality(Active) - 1
      BY <2>1, <3>1, OneLess
    <3> QED BY <1>1, <2>1, <2>3, <3>2 DEF InflightExact
  <2> QED BY <1>1, <2>2, <2>3
<1>6. TypeOK'
  BY <1>1, <1>2, <1>5 DEF LifespanInv, TypeOK, AuditTypeOK
<1>7. Events'
  BY <1>1, <1>2, <1>3 DEF LifespanInv, Events, Before, InLog
<1>8. Synchronous' /\ OkIsOver'
  BY <1>1, <1>2, <1>3 DEF LifespanInv, Synchronous, OkIsOver
<1>9. CountersMatchTable' /\ GoneCounted'
  BY <1>1, <1>4 DEF LifespanInv, CountersMatchTable, GoneCounted
<1>10. Phases'
  <2>1. Active' = {} \/ main \in Serving \/ Active # {}
    BY <1>1, <1>2 DEF Active
  <2> QED BY <1>1, <2>1 DEF LifespanInv, Phases
<1> QED BY <1>5, <1>6, <1>7, <1>8, <1>9, <1>10 DEF LifespanInv

\* What a request does to its event.
LEMMA RequestStepInv ==
    ASSUME LifespanInv, NEW r \in Requests, BeginRequest(r) \/ RequestStep(r)
    PROVE  LifespanInv'
<1>1. CASE Query(r)
  BY <1>1, MoveStep, AnswerStep DEF Query, audit, counters
<1>2. CASE Answer(r)
  BY <1>2, AnswerStep DEF Answer
<1>3. CASE LogEvent(r) /\ Quiet
  BY <1>3, MoveStep, DropStep DEF LogEvent, Quiet, At
<1>4. CASE CheckAlive(r) /\ Quiet
  BY <1>4, MoveStep DEF CheckAlive, Quiet, At, LifespanInv, Synchronous
<1>5. CASE StartThread(r) /\ Quiet
  BY <1>5, MoveStep DEF StartThread, Quiet, At
<1> QED BY <1>1, <1>2, <1>3, <1>4, <1>5, PersistStep, PutStep, FlightStep DEF RequestStep, LogStep

-----------------------------------------------------------------------------
(* The audit-writer thread *)

LEMMA LoopStep ==
    ASSUME LifespanInv, WorkerLoop \/ (WorkerGet /\ queue = <<>>), Quiet
    PROVE  LifespanInv'
<1>1. /\ UNCHANGED <<required, queue, stopping, closed, writing, table, persisted, failed, flushed,
                     pc, main, state, inflight, poolsClosed, outcome, clean>>
      /\ worker \in {"loop", "get"} /\ worker' \in {"loop", "get", "dead"}
  BY DEF WorkerLoop, WorkerGet, AfterEmpty, Quiet, counters, lifecycle
<1>2. Queued' = Queued /\ Placed' = Placed /\ Active' = Active
  BY <1>1, QueuedIs DEF Placed, Active
<1>3. Gone' = Gone
  BY <1>1, <1>2 DEF Gone
<1>4. TypeOK'
  BY <1>1 DEF LifespanInv, TypeOK, AuditTypeOK
<1>5. Events' /\ Synchronous' /\ OkIsOver'
  BY <1>1, <1>2 DEF LifespanInv, Events, Synchronous, OkIsOver
<1>6. CountersMatchTable' /\ GoneCounted' /\ InflightExact' /\ Phases'
  BY <1>1, <1>2, <1>3 DEF LifespanInv, CountersMatchTable, GoneCounted, InflightExact, Phases
<1> QED BY <1>4, <1>5, <1>6 DEF LifespanInv

\* The writer takes the first entry: an event goes from the queue to its hand, a barrier
\* is set.
LEMMA GetStep ==
    ASSUME LifespanInv, WorkerGet, queue # <<>>, Quiet
    PROVE  LifespanInv'
<1> DEFINE e == Head(queue)
<1>1. /\ UNCHANGED <<required, stopping, closed, table, persisted, failed,
                     pc, main, state, inflight, poolsClosed, outcome, clean>>
      /\ worker = "get" /\ queue' = Tail(queue)
      /\ \/ e = Barrier /\ flushed' = TRUE /\ worker' = "loop" /\ writing' = writing
         \/ e # Barrier /\ flushed' = flushed /\ worker' = "write" /\ writing' = e
  BY DEF WorkerGet, Quiet, counters, lifecycle
<1>2. /\ queue \in Seq(Requests \cup {Barrier}) /\ Once(queue) /\ Len(queue) <= QueueSize
      /\ writing = Nothing /\ Queued = Entries(queue) /\ Queued \cap table = {}
      /\ \A r \in Requests : pc[r] \in Before => r \notin table /\ r \notin Queued
  BY <1>1, QueuedIs DEF LifespanInv, TypeOK, AuditTypeOK, Events
<1>3. /\ queue' \in Seq(Requests \cup {Barrier}) /\ Len(queue') = Len(queue) - 1
      /\ e \in Requests \cup {Barrier} /\ Once(queue')
      /\ Queued = Queued' \cup ({e} \ {Barrier}) /\ e \notin Queued'
      /\ NoBarrier(queue) => NoBarrier(queue') /\ e # Barrier
      /\ BarrierLast(queue) /\ e = Barrier => queue' = <<>>
      /\ BarrierLast(queue) /\ e # Barrier => BarrierLast(queue')
  BY <1>1, <1>2, TailEntries, QueuedIs
<1>4. Len(queue') <= QueueSize
  BY <1>2, <1>3, AuditAssumption
<1>5. Nothing \notin Requests /\ Barrier \notin Requests /\ Nothing \notin Queued' /\ Nothing \notin table
      /\ Queued' \subseteq Requests
  <2>1. Entries(queue) \subseteq Requests
    BY <1>2 DEF Entries
  <2> QED BY <1>2, <1>3, <2>1, AuditAssumption DEF LifespanInv, Events
<1>6. Queued \cup {writing} = (Queued' \cup {writing'}) \cup {Nothing}
  BY <1>1, <1>2, <1>3
<1>7. Placed' = Placed /\ Active' = Active
  BY <1>1 DEF Placed, Active
<1>8. Gone' = Gone
  <2>1. \A r \in Requests : r \in Queued \cup {writing} <=> r \in Queued' \cup {writing'}
    BY <1>5, <1>6
  <2> QED BY <1>1, <1>7, <2>1 DEF Gone, Placed
<1>9. TypeOK'
  BY <1>1, <1>3, <1>4 DEF LifespanInv, TypeOK, AuditTypeOK
<1>10. Events'
  <2>1. \A r \in Requests : pc'[r] \in Before => r \notin table' /\ r \notin Queued' /\ r # writing'
    BY <1>1, <1>2, <1>3, <1>5
  <2>2. writing' \notin table' /\ writing' \notin Queued' /\ Queued' \cap table' = {}
    BY <1>1, <1>2, <1>3, <1>5
  <2>3. worker' = "write" <=> writing' # Nothing
    BY <1>1, <1>2, <1>3, <1>5
  <2> QED BY <1>3, <2>1, <2>2, <2>3 DEF Events
<1>11. Synchronous' /\ OkIsOver'
  BY <1>1, <1>2, <1>3 DEF LifespanInv, Synchronous, OkIsOver
<1>12. CountersMatchTable' /\ GoneCounted' /\ InflightExact'
  BY <1>1, <1>7, <1>8 DEF LifespanInv, CountersMatchTable, GoneCounted, InflightExact
<1>13. Phases'
  <2>1. CASE e = Barrier
    BY <1>1, <1>2, <1>3, <1>7, <2>1 DEF LifespanInv, Phases
  <2>2. CASE e # Barrier
    BY <1>1, <1>2, <1>3, <1>7, <2>2 DEF LifespanInv, Phases
  <2> QED BY <2>1, <2>2
<1> QED BY <1>9, <1>10, <1>11, <1>12, <1>13 DEF LifespanInv

\* The row in hand is stored and counted, or counted as a failure, stored or not.
LEMMA WriteStep ==
    ASSUME LifespanInv, WorkerWrite, Quiet
    PROVE  LifespanInv'
<1>1. /\ UNCHANGED <<required, queue, stopping, closed, flushed,
                     pc, main, state, inflight, poolsClosed, outcome, clean>>
      /\ worker = "write" /\ worker' = "loop" /\ writing' = Nothing
      /\ table' \in {table, table \cup {writing}}
      /\ \/ table' = table \cup {writing} /\ persisted' = persisted + 1 /\ failed' = failed
         \/ persisted' = persisted /\ failed' = failed + 1
  BY DEF WorkerWrite, CountFailure, Quiet, lifecycle
<1>2. /\ writing \in Requests /\ writing \notin table /\ writing \notin Queued /\ ~required
      /\ Queued \cap table = {} /\ table \subseteq Requests
      /\ persisted \in Nat /\ failed \in Nat /\ Queued' = Queued
  BY <1>1, QueuedIs DEF LifespanInv, TypeOK, AuditTypeOK, Events, Synchronous
<1>3. Nothing \notin Requests /\ Nothing \notin table' /\ Nothing \notin Queued'
  <2>1. Queued \subseteq Requests
    BY QueuedIs DEF Entries, LifespanInv, TypeOK, AuditTypeOK
  <2> QED BY <1>1, <1>2, <2>1, AuditAssumption
<1>4. Placed' = Placed /\ Active' = Active
  BY <1>1 DEF Placed, Active
<1>5. Gone' \subseteq Gone \cup {writing} /\ (failed' = failed => Gone' \subseteq Gone)
  BY <1>1, <1>2, <1>4 DEF Gone
<1>6. /\ Cardinality(Gone) \in Nat /\ Cardinality(Gone') \in Nat
      /\ Cardinality(Gone') <= Cardinality(Gone) + 1
      /\ failed' = failed => Cardinality(Gone') <= Cardinality(Gone)
  BY <1>2, <1>5, FiniteSubsets, Bounded, AtMostOneMore
<1>7. TypeOK'
  BY <1>1, <1>2 DEF LifespanInv, TypeOK, AuditTypeOK
<1>8. Events'
  BY <1>1, <1>2, <1>3 DEF LifespanInv, Events
<1>9. Synchronous' /\ OkIsOver'
  BY <1>1, <1>2 DEF LifespanInv, Synchronous, OkIsOver
<1>10. CountersMatchTable'
  <2>1. Cardinality(table) \in Nat /\ persisted <= Cardinality(table)
        /\ Cardinality(table) <= persisted + failed
    BY <1>2, FiniteSubsets DEF LifespanInv, CountersMatchTable
  <2>2. Cardinality(table \cup {writing}) = Cardinality(table) + 1
    BY <1>2, OneMore
  <2>3. CASE table' = table \cup {writing} /\ persisted' = persisted + 1 /\ failed' = failed
    <3>1. Cardinality(table') = Cardinality(table) + 1
      BY <2>2, <2>3
    <3> QED BY <1>2, <2>1, <2>3, <3>1 DEF CountersMatchTable
  <2>4. CASE persisted' = persisted /\ failed' = failed + 1
    <3>1. Cardinality(table') \in {Cardinality(table), Cardinality(table) + 1}
      BY <1>1, <2>2
    <3> QED BY <1>2, <2>1, <2>4, <3>1 DEF CountersMatchTable
  <2> QED BY <1>1, <2>3, <2>4
<1>11. GoneCounted'
  BY <1>1, <1>2, <1>6 DEF LifespanInv, GoneCounted
<1>12. InflightExact' /\ Phases'
  BY <1>1, <1>4 DEF LifespanInv, InflightExact, Phases
<1> QED BY <1>7, <1>8, <1>9, <1>10, <1>11, <1>12 DEF LifespanInv

-----------------------------------------------------------------------------
(* lifespan() *)

\* The main sequence touches no event and no request but for the barrier it puts.
LEMMA MainFrame ==
    ASSUME LifespanInv,
           UNCHANGED <<required, worker, writing, table, persisted, failed, pc, inflight, outcome>>,
           queue' \in Seq(Requests \cup {Barrier}), Len(queue') <= QueueSize, Once(queue'),
           Queued' = Queued, closed' => closed \/ main \notin Serving,
           clean' => clean, stopping' \in BOOLEAN, closed' \in BOOLEAN, flushed' \in BOOLEAN,
           main' \in {"ready", "drain", "flush", "flushing"} \cup Closing,
           state' \in {"ready", "draining", "stopped"}, poolsClosed' \in BOOLEAN,
           clean' \in BOOLEAN, closed => closed'
    PROVE  TypeOK' /\ Events' /\ Synchronous' /\ OkIsOver' /\ CountersMatchTable' /\ GoneCounted'
           /\ InflightExact' /\ Active' = Active
<1>1. Placed' = Placed /\ Active' = Active
  BY DEF Placed, Active
<1>2. Gone' = Gone
  BY <1>1 DEF Gone
<1>3. TypeOK'
  BY DEF LifespanInv, TypeOK, AuditTypeOK, Closing
<1>4. Events' /\ Synchronous' /\ OkIsOver'
  BY DEF LifespanInv, Events, Synchronous, OkIsOver
<1>5. CountersMatchTable' /\ GoneCounted' /\ InflightExact'
  BY <1>1, <1>2 DEF LifespanInv, CountersMatchTable, GoneCounted, InflightExact
<1> QED BY <1>1, <1>3, <1>4, <1>5

\* What the steps that leave the queue alone keep.
LEMMA QueueKept ==
    ASSUME LifespanInv, queue' = queue
    PROVE  /\ queue' \in Seq(Requests \cup {Barrier}) /\ Len(queue') <= QueueSize /\ Once(queue')
           /\ Queued' = Queued
BY QueuedIs DEF LifespanInv, TypeOK, AuditTypeOK, Events

LEMMA MainStepInv ==
    ASSUME LifespanInv, MainStep
    PROVE  LifespanInv'
<1>1. CASE SetDraining
  BY <1>1, MainFrame, QueueKept
     DEF SetDraining, Then, audit, writer, counters, LifespanInv, TypeOK, AuditTypeOK, Phases, Serving, Closing
<1>2. CASE WaitForDrain
  <2>1. clean' => Active = {}
    BY <1>2, FiniteSubsets, FS_EmptySet DEF WaitForDrain, Drained, LifespanInv, InflightExact
  <2>2. /\ UNCHANGED <<required, queue, stopping, closed, worker, writing, table, persisted, failed,
                       flushed, pc, state, inflight, poolsClosed, outcome>>
        /\ main = "drain" /\ main' = "flush"
    BY <1>2 DEF WaitForDrain, Then, audit, writer, counters, lifecycle
  <2>3. clean' \in BOOLEAN /\ (clean' => clean)
    <3>1. clean \in BOOLEAN
      BY DEF LifespanInv, TypeOK
    <3>2. CASE clean' = clean
      BY <3>1, <3>2
    <3>3. CASE clean' = FALSE
      BY <3>3
    <3> QED BY <1>2, <3>2, <3>3 DEF WaitForDrain
  <2>4. /\ TypeOK' /\ Events' /\ Synchronous' /\ OkIsOver' /\ CountersMatchTable' /\ GoneCounted'
        /\ InflightExact' /\ Active' = Active
    BY <2>2, <2>3, MainFrame, QueueKept DEF LifespanInv, TypeOK, AuditTypeOK
  <2>5. Phases'
    BY <2>1, <2>2, <2>4, <2>3 DEF LifespanInv, Phases, Serving, Closing
  <2> QED BY <2>4, <2>5 DEF LifespanInv
<1>3. CASE ClosePools
  BY <1>3, MainFrame, QueueKept
     DEF ClosePools, Then, audit, writer, counters, LifespanInv, TypeOK, AuditTypeOK, Phases, Serving, Closing
<1>4. CASE FlushPut /\ Quiet
  <2>1. Len(queue) < QueueSize /\ queue' = Append(queue, Barrier) /\ NoBarrier(queue) /\ ~flushed
    BY <1>4 DEF FlushPut, LifespanInv, Phases
  <2>2. /\ queue' \in Seq(Requests \cup {Barrier}) /\ Len(queue') = Len(queue) + 1
        /\ Entries(queue') = Entries(queue) /\ Once(queue') /\ BarrierLast(queue')
    <3>1. Barrier \notin Entries(queue)
      BY DEF Entries
    <3> QED BY <2>1, <3>1, AppendEntries DEF LifespanInv, TypeOK, AuditTypeOK, Events
  <2>3. Len(queue') <= QueueSize /\ Queued' = Queued
    BY <2>1, <2>2, QueuedIs, AuditAssumption
  <2> QED BY <1>4, <2>1, <2>2, <2>3, MainFrame
          DEF FlushPut, Quiet, Then, writer, counters, lifecycle, LifespanInv, TypeOK,
              AuditTypeOK, Phases, Serving, Closing
<1>5. CASE StopSet /\ Quiet
  BY <1>5, MainFrame, QueueKept
     DEF StopSet, Quiet, Then, counters, lifecycle, LifespanInv, TypeOK, AuditTypeOK, Phases,
         Serving, Closing
<1>6. CASE StopClose /\ Quiet
  BY <1>6, MainFrame, QueueKept
     DEF StopClose, Quiet, Then, counters, lifecycle, LifespanInv, TypeOK, AuditTypeOK, Phases,
         Serving, Closing
<1>7. CASE WaitStep(FlushWait, flushed)
  BY <1>7, MainFrame, QueueKept
     DEF WaitStep, FlushWait, Then, audit, writer, counters, lifecycle, LifespanInv, TypeOK,
         AuditTypeOK, Phases, Serving, Closing
<1>8. CASE WaitStep(StopJoin, ~Alive)
  BY <1>8, MainFrame, QueueKept
     DEF WaitStep, StopJoin, Then, audit, writer, counters, lifecycle, LifespanInv, TypeOK,
         AuditTypeOK, Phases, Serving, Closing
<1>9. CASE AuditStart /\ Quiet
  <2>1. /\ UNCHANGED <<required, queue, stopping, closed, writing, table, persisted, failed, flushed,
                       pc, state, inflight, poolsClosed, outcome, clean>>
        /\ worker = "new" /\ worker' = "loop" /\ main = "starting" /\ main' = "ready"
    BY <1>9 DEF AuditStart, Quiet, Then, counters, lifecycle, LifespanInv, Phases
  <2>2. Queued' = Queued /\ Placed' = Placed /\ Active' = Active
    BY <2>1, QueuedIs DEF Placed, Active
  <2>3. Gone' = Gone
    BY <2>1, <2>2 DEF Gone
  <2>4. TypeOK' /\ Events' /\ Synchronous' /\ OkIsOver'
    BY <2>1, <2>2 DEF LifespanInv, TypeOK, AuditTypeOK, Events, Synchronous, OkIsOver
  <2>5. CountersMatchTable' /\ GoneCounted' /\ InflightExact' /\ Phases'
    BY <2>1, <2>2, <2>3 DEF LifespanInv, CountersMatchTable, GoneCounted, InflightExact, Phases,
                            Serving, Closing
  <2> QED BY <2>4, <2>5 DEF LifespanInv
<1> QED BY <1>1, <1>2, <1>3, <1>4, <1>5, <1>6, <1>7, <1>8, <1>9 DEF MainStep

-----------------------------------------------------------------------------
LEMMA LifespanInit == Init => LifespanInv
<1> SUFFICES ASSUME Init PROVE LifespanInv
  OBVIOUS
<1>1. /\ queue = <<>> /\ writing = Nothing /\ table = {} /\ worker = "new" /\ ~closed /\ ~flushed
      /\ persisted = 0 /\ failed = 0 /\ inflight = 0 /\ main = "starting" /\ clean
      /\ \A r \in Requests : pc[r] = "new" /\ outcome[r] = "none"
  BY DEF Init, AuditInit
<1>2. Queued = {} /\ Placed = {} /\ Active = {}
  BY <1>1 DEF Queued, Placed, Active
<1>3. Gone = {}
  BY <1>2 DEF Gone
<1>4. TypeOK
  <2>1. queue \in Seq(Requests \cup {Barrier}) /\ Len(queue) <= QueueSize
    BY <1>1, AuditAssumption
  <2>2. AuditTypeOK
    BY <2>1 DEF Init, AuditInit, AuditTypeOK
  <2> QED BY <2>2 DEF Init, TypeOK
<1>5. Events /\ Synchronous /\ OkIsOver
  BY <1>1, <1>2, AuditAssumption DEF Events, Once, Synchronous, OkIsOver
<1>6. CountersMatchTable /\ GoneCounted /\ InflightExact
  BY <1>1, <1>2, <1>3, FS_EmptySet DEF CountersMatchTable, GoneCounted, InflightExact
<1>7. Phases
  BY <1>1, <1>2 DEF Phases, NoBarrier, Serving, Closing
<1> QED BY <1>4, <1>5, <1>6, <1>7 DEF LifespanInv

LEMMA LifespanStep == LifespanInv /\ [Next]_vars => LifespanInv'
<1>1. ASSUME LifespanInv, UNCHANGED vars PROVE LifespanInv'
  <2>1. /\ UNCHANGED <<required, queue, stopping, closed, worker, writing, table, persisted, failed,
                       flushed, pc, main, state, inflight, poolsClosed, outcome, clean>>
    BY <1>1 DEF vars, audit, writer, counters, lifecycle
  <2>2. Queued' = Queued /\ Placed' = Placed /\ Active' = Active
    BY <2>1, QueuedIs DEF Placed, Active
  <2>3. Gone' = Gone
    BY <2>1, <2>2 DEF Gone
  <2> QED BY <1>1, <2>1, <2>2, <2>3
          DEF LifespanInv, TypeOK, AuditTypeOK, Events, Synchronous, OkIsOver, CountersMatchTable,
              GoneCounted, InflightExact, Phases
<1>2. ASSUME LifespanInv, WorkerStep, Quiet PROVE LifespanInv'
  BY <1>2, LoopStep, GetStep, WriteStep DEF WorkerStep
<1> QED BY <1>1, <1>2, RequestStepInv, MainStepInv DEF Next

-----------------------------------------------------------------------------
\* At every moment each audit event is in one place, and a shutdown has reached what its
\* steps so far promise.
THEOREM LifespanInvariant == Spec => []LifespanInv
<1> QED BY LifespanInit, LifespanStep, PTL DEF Spec

\* _persisted counts rows that are in the table, and rows that are there uncounted were
\* counted as failures.
THEOREM LifespanCountersMatchTable == Spec => []CountersMatchTable
<1>1. LifespanInv => CountersMatchTable
  BY DEF LifespanInv
<1> QED BY <1>1, LifespanInvariant, PTL

\* Until the writer is closed no event of an answered request disappears without being
\* counted.
THEOREM LifespanNoSilentLoss == Spec => []NoSilentLoss
<1>1. LifespanInv => NoSilentLoss
  <2> SUFFICES ASSUME LifespanInv, ~closed PROVE Cardinality(Lost) <= failed
    BY DEF NoSilentLoss
  <2>1. Lost \subseteq Gone
    <3>1. \A r \in Lost : r \in Requests /\ r # Nothing
      BY AuditAssumption DEF Lost
    <3> QED BY <3>1 DEF Lost, Gone, Placed, InHand
  <2>2. Cardinality(Lost) <= Cardinality(Gone) /\ Lost \subseteq Requests
    BY <2>1, FiniteSubsets, Bounded
  <2> QED BY <2>2, FiniteSubsets DEF LifespanInv, GoneCounted, TypeOK, AuditTypeOK
<1> QED BY <1>1, LifespanInvariant, PTL

\* A shutdown none of whose waits gave up leaves no event behind that is neither stored
\* nor counted, although requests may begin while it drains.
THEOREM LifespanCleanShutdown == Spec => []CleanShutdown
<1>1. LifespanInv => CleanShutdown
  <2> SUFFICES ASSUME LifespanInv, main = "stopped", clean
               PROVE  /\ Queued \cup InHand = {}
                      /\ Cardinality({r \in Requests : outcome[r] = "ok"} \ table) <= failed
    BY DEF CleanShutdown
  <2> DEFINE left == {r \in Requests : outcome[r] = "ok"} \ table
  <2>1. queue = <<>> /\ writing = Nothing
    BY DEF LifespanInv, Phases, Closing
  <2>2. Queued = {} /\ InHand = {}
    BY <2>1 DEF Queued, InHand
  <2>3. left \subseteq Gone
    BY <2>1, <2>2, AuditAssumption DEF Gone, Placed
  <2>4. Cardinality(left) <= Cardinality(Gone) /\ left \subseteq Requests
    BY <2>3, FiniteSubsets, Bounded
  <2>5. Cardinality(left) <= failed
    BY <2>4, FiniteSubsets DEF LifespanInv, GoneCounted, TypeOK, AuditTypeOK
  <2> QED BY <2>2, <2>5
<1> QED BY <1>1, LifespanInvariant, PTL

\* With AUDIT_REQUIRED a request is answered with success only if its event is stored.
THEOREM LifespanRequiredIsStored == Spec => []RequiredIsStored
<1>1. LifespanInv => RequiredIsStored
  BY DEF LifespanInv, Synchronous, RequiredIsStored
<1> QED BY <1>1, LifespanInvariant, PTL
-----------------------------------------------------------------------------
(* The audit trail: ServerLifespan implements AuditTrail *)

\* An event in the queue or in the writer's hand was handed over, and a request has an
\* outcome only when it is over.
TrailInv ==
    /\ \A r \in Requests : r \in Queued \/ r = writing => HandedOver(r)
    /\ \A r \in Requests : outcome[r] # "none" => pc[r] \in {"end", "done"}

\* What the fate of an event is made of does not change.
Kept(r) ==
    /\ r \in table' <=> r \in table
    /\ r \in Queued' \/ r = writing' <=> r \in Queued \/ r = writing
    /\ HandedOver(r)' <=> HandedOver(r)
    /\ Told(r)' <=> Told(r)

OthersKept(e) == \A r \in Requests \ {e} : Kept(r)

LEMMA PendingIs ==
    ASSUME NEW r \in Requests
    PROVE  /\ r \in Pending <=> (r \in Queued \/ r = writing) /\ r \notin table
           /\ r \in Pending' <=> (r \in Queued' \/ r = writing') /\ r \notin table'
BY AuditAssumption DEF Pending, InHand

\* The fates, by where an event is.
LEMMA FateByWhere ==
    ASSUME NEW r \in Requests
    PROVE  /\ r \in table => FateOf(r) = "stored"
           /\ r \notin table /\ (r \in Queued \/ r = writing) => FateOf(r) = "pending"
           /\ r \notin table /\ r \notin Queued /\ r # writing =>
                 FateOf(r) = IF HandedOver(r) THEN "gone" ELSE IF Told(r) THEN "refused" ELSE "open"
<1>1. r \in Settled <=> r \in table \/ r \in Pending
  BY DEF Settled
<1> QED BY <1>1, PendingIs DEF FateOf, Pending

LEMMA FateByWhereNext ==
    ASSUME NEW r \in Requests
    PROVE  /\ r \in table' => FateOf(r)' = "stored"
           /\ r \notin table' /\ (r \in Queued' \/ r = writing') => FateOf(r)' = "pending"
           /\ r \notin table' /\ r \notin Queued' /\ r # writing' =>
                 FateOf(r)' = IF HandedOver(r)' THEN "gone" ELSE IF Told(r)' THEN "refused" ELSE "open"
<1>1. r \in Settled' <=> r \in table' \/ r \in Pending'
  BY DEF Settled
<1> QED BY <1>1, PendingIs DEF FateOf, Pending

LEMMA KeptFate ==
    ASSUME NEW r \in Requests, Kept(r)
    PROVE  FateOf(r)' = FateOf(r)
<1>1. CASE r \in table
  BY <1>1, FateByWhere, FateByWhereNext DEF Kept
<1>2. CASE r \notin table /\ (r \in Queued \/ r = writing)
  BY <1>2, FateByWhere, FateByWhereNext DEF Kept
<1>3. CASE r \notin table /\ r \notin Queued /\ r # writing
  <2>1. FateOf(r) = IF HandedOver(r) THEN "gone" ELSE IF Told(r) THEN "refused" ELSE "open"
    BY <1>3, FateByWhere
  <2>2. FateOf(r)' = IF HandedOver(r)' THEN "gone" ELSE IF Told(r)' THEN "refused" ELSE "open"
    BY <1>3, FateByWhereNext DEF Kept
  <2>3. (HandedOver(r)' <=> HandedOver(r)) /\ (Told(r)' <=> Told(r))
    BY DEF Kept
  <2> QED BY <2>1, <2>2, <2>3
<1> QED BY <1>1, <1>2, <1>3

\* Until it is handed over nothing has become of an event.
LEMMA OpenIs ==
    ASSUME LifespanInv, TrailInv, NEW r \in Requests, pc[r] \in Before
    PROVE  /\ FateOf(r) = "open" /\ outcome[r] = "none"
           /\ r \notin table /\ r \notin Queued /\ r # writing
<1>1. r \notin table /\ r \notin Queued /\ r # writing
  BY DEF LifespanInv, Events
<1>2. outcome[r] = "none" /\ pc[r] # "logged" /\ pc[r] # "raised"
  BY DEF TrailInv, Before, InLog
<1> QED BY <1>1, <1>2, FateByWhere DEF HandedOver, Told

\* A step that moves no event and counts none.
LEMMA AllKept ==
    ASSUME \A r \in Requests : Kept(r)
    PROVE  Fates' = Fates
BY KeptFate DEF Fates

\* A step that moves one event.
LEMMA OneMoved ==
    ASSUME NEW e \in Requests, OthersKept(e), NEW from, NEW to,
           FateOf(e) \in from, FateOf(e)' = to
    PROVE  Trail!Move(e, from, to)
<1>1. \A r \in Requests \ {e} : FateOf(r)' = FateOf(r)
  BY KeptFate DEF OthersKept
<1>2. Fates' = [Fates EXCEPT ![e] = to]
  BY <1>1 DEF Fates
<1> QED BY <1>2 DEF Fates, Trail!Move

LEMMA GotoIs ==
    ASSUME LifespanInv, NEW e \in Requests, NEW b, Goto(e, b)
    PROVE  pc'[e] = b /\ \A r \in Requests \ {e} : pc'[r] = pc[r]
BY DEF Goto, LifespanInv, TypeOK

-----------------------------------------------------------------------------
\* What a step has to show: the invariant again, and a step of the trail or a stutter.
TrailStep == TrailInv' /\ [Trail!Next]_(Trail!trail)

LEMMA StutterTrail ==
    ASSUME \A r \in Requests : Kept(r), UNCHANGED <<persisted, failed, closed, required>>
    PROVE  [Trail!Next]_(Trail!trail)
BY AllKept DEF Trail!trail

\* A request goes on and its event stays with it.
LEMMA PcTrail ==
    ASSUME LifespanInv, TrailInv, NEW e \in Requests, NEW b, Goto(e, b),
           pc[e] \notin {"logged", "raised"}, b \notin {"logged", "raised"},
           outcome[e] = "none" \/ b \in {"end", "done"},
           UNCHANGED <<audit, outcome>>
    PROVE  TrailStep
<1>1. UNCHANGED <<queue, table, writing, persisted, failed, closed, required, outcome>>
  BY DEF audit, writer, counters
<1>2. pc'[e] = b /\ \A r \in Requests \ {e} : pc'[r] = pc[r]
  BY GotoIs
<1>3. \A r \in Requests : Kept(r)
  BY <1>1, <1>2, QueuedIs DEF Kept, HandedOver, Told
<1>4. TrailInv'
  BY <1>1, <1>2, <1>3 DEF TrailInv, Kept
<1> QED BY <1>1, <1>3, <1>4, StutterTrail DEF TrailStep

\* An event leaves its request, by a step of the request.
LEMMA LeaveTrail ==
    ASSUME LifespanInv, TrailInv, NEW e \in Requests, pc[e] \in Before,
           pc'[e] \in {"logged", "raised"} \/ (pc'[e] = "end" /\ outcome'[e] = "error"),
           \A r \in Requests \ {e} : pc'[r] = pc[r] /\ outcome'[r] = outcome[r],
           outcome'[e] = "none" \/ pc'[e] = "end",
           \A r \in Requests \ {e} : r \in table' <=> r \in table,
           Queued' = Queued \/ (Queued' = Queued \cup {e} /\ pc'[e] = "logged"),
           writing' = writing
    PROVE  TrailInv' /\ OthersKept(e) /\ FateOf(e) = "open"
<1>1. \A r \in Requests \ {e} : Kept(r)
  BY DEF Kept, HandedOver, Told
<1>2. ASSUME NEW r \in Requests, r \in Queued' \/ r = writing' PROVE HandedOver(r)'
  <2>1. CASE r = e
    <3>1. r \notin Queued /\ r # writing
      BY <2>1, OpenIs
    <3> QED BY <2>1, <3>1, <1>2 DEF HandedOver
  <2>2. CASE r # e
    BY <1>1, <1>2, <2>2 DEF Kept, TrailInv
  <2> QED BY <2>1, <2>2
<1>3. ASSUME NEW r \in Requests, outcome'[r] # "none" PROVE pc'[r] \in {"end", "done"}
  BY <1>3 DEF TrailInv
<1> QED BY <1>1, <1>2, <1>3, OpenIs DEF TrailInv, OthersKept

LEMMA LogTrail ==
    ASSUME LifespanInv, TrailInv, NEW e \in Requests, LogStep(e), Quiet
    PROVE  TrailStep
<1>0. outcome' = outcome /\ (pc[e] \in Before => outcome[e] = "none")
  BY OpenIs DEF Quiet
<1>1. CASE CheckAlive(e)
  <2>1. pc[e] = "alive" /\ UNCHANGED <<audit, outcome>>
        /\ (Goto(e, "put") \/ Goto(e, "start"))
    BY <1>0, <1>1 DEF CheckAlive, At
  <2> QED BY <2>1, <1>0, PcTrail DEF Before, InLog
<1>2. CASE LogEvent(e) /\ (Goto(e, "sync") \/ Goto(e, "alive"))
  <2>1. pc[e] = "log" /\ UNCHANGED <<audit, outcome>>
    BY <1>0, <1>2 DEF LogEvent, At
  <2> QED BY <2>1, <1>0, <1>2, PcTrail DEF Before
<1>3. CASE LogEvent(e) /\ ~required /\ closed /\ Goto(e, "logged")
  <2>1. pc[e] = "log" /\ pc[e] \in Before
        /\ UNCHANGED <<queue, writing, table, persisted, failed, closed, required>>
    BY <1>3 DEF LogEvent, At, audit, writer, counters, Before
  <2>2. pc'[e] = "logged" /\ \A r \in Requests \ {e} : pc'[r] = pc[r]
    BY <1>3, GotoIs
  <2>3. TrailInv' /\ OthersKept(e) /\ FateOf(e) = "open"
    BY <2>1, <2>2, <1>0, QueuedIs, LeaveTrail
  <2>4. FateOf(e)' = "gone"
    BY <2>1, <2>2, OpenIs, QueuedIs, FateByWhereNext DEF HandedOver
  <2>5. Trail!Forget(e)
    BY <1>3, <2>1, <2>3, <2>4, OneMoved DEF Trail!Forget, Trail!CountNothing
  <2> QED BY <2>1, <2>3, <2>5 DEF Trail!Next, TrailStep
<1>4. CASE StartThread(e)
  <2>1. pc[e] = "start" /\ pc[e] \in Before /\ Goto(e, "raised")
        /\ UNCHANGED <<queue, writing, table, persisted, failed, closed, required>>
    BY <1>4 DEF StartThread, At, audit, writer, counters, Before, InLog
  <2>2. pc'[e] = "raised" /\ \A r \in Requests \ {e} : pc'[r] = pc[r]
    BY <2>1, GotoIs
  <2>3. TrailInv' /\ OthersKept(e) /\ FateOf(e) = "open"
    BY <2>1, <2>2, <1>0, QueuedIs, LeaveTrail
  <2>4. FateOf(e)' = "refused"
    BY <2>1, <2>2, <1>0, OpenIs, QueuedIs, FateByWhereNext DEF HandedOver, Told
  <2>5. Trail!Refuse(e)
    BY <2>1, <2>3, <2>4, OneMoved DEF Trail!Refuse, Trail!CountNothing
  <2> QED BY <2>1, <2>3, <2>5 DEF Trail!Next, TrailStep
<1>5. CASE Put(e)
  <2>1. /\ pc[e] = "put" /\ pc[e] \in Before /\ Goto(e, "logged")
        /\ UNCHANGED <<writing, table, persisted, closed, required>>
        /\ \/ queue' = Append(queue, e) /\ failed' = failed
           \/ queue' = queue /\ failed' = failed + 1
    BY <1>5 DEF Put, At, writer, Before, InLog
  <2>2. pc'[e] = "logged" /\ \A r \in Requests \ {e} : pc'[r] = pc[r]
    BY <2>1, GotoIs
  <2>3. ~required
    BY <2>1 DEF LifespanInv, Synchronous
  <2>4. queue' = Append(queue, e) => Queued' = Queued \cup {e}
    <3>1. queue \in Seq(Requests \cup {Barrier}) /\ e # Barrier
      BY AuditAssumption DEF LifespanInv, TypeOK, AuditTypeOK
    <3> QED BY <3>1, AppendEntries, QueuedIs
  <2>5. TrailInv' /\ OthersKept(e) /\ FateOf(e) = "open"
    BY <2>1, <2>2, <2>4, <1>0, QueuedIs, LeaveTrail
  <2>6. CASE queue' = Append(queue, e) /\ failed' = failed
    <3>1. FateOf(e)' = "pending"
      BY <2>1, <2>4, <2>6, OpenIs, FateByWhereNext
    <3>2. Trail!Accept(e)
      BY <2>1, <2>3, <2>5, <2>6, <3>1, OneMoved DEF Trail!Accept, Trail!CountNothing
    <3> QED BY <2>1, <2>5, <3>2 DEF Trail!Next, TrailStep
  <2>7. CASE queue' = queue /\ failed' = failed + 1
    <3>1. FateOf(e)' = "gone"
      BY <2>1, <2>2, <2>7, OpenIs, QueuedIs, FateByWhereNext DEF HandedOver
    <3>2. Trail!GiveUp(e)
      BY <2>1, <2>3, <2>5, <2>7, <3>1, OneMoved DEF Trail!GiveUp, Trail!CountFailed
    <3> QED BY <2>1, <2>5, <3>2 DEF Trail!Next, TrailStep
  <2> QED BY <2>1, <2>6, <2>7
<1>6. CASE PersistSync(e)
  <2>1. /\ pc[e] = "sync" /\ pc[e] \in Before
        /\ UNCHANGED <<queue, writing, closed, required>>
        /\ table' \in {table, table \cup {e}}
        /\ \/ /\ e \in table' /\ persisted' = persisted + 1 /\ failed' = failed
              /\ Goto(e, "logged")
           \/ failed' = failed + 1 /\ persisted' = persisted /\ Goto(e, "raised")
    BY <1>6 DEF PersistSync, At, writer, Before, InLog, AfterFailure
  <2>2. pc'[e] \in {"logged", "raised"} /\ \A r \in Requests \ {e} : pc'[r] = pc[r]
    BY <2>1, GotoIs
  <2>3. TrailInv' /\ OthersKept(e) /\ FateOf(e) = "open"
    BY <2>1, <2>2, <1>0, QueuedIs, LeaveTrail
  <2>4. CASE e \in table'
    <3>1. FateOf(e)' = "stored"
      BY <2>4, FateByWhereNext
    <3>2. Trail!Store(e)
      BY <2>1, <2>3, <3>1, OneMoved DEF Trail!Store, Trail!CountStored, Trail!CountFailed
    <3> QED BY <2>1, <2>3, <3>2 DEF Trail!Next, TrailStep
  <2>5. CASE e \notin table'
    <3>1. failed' = failed + 1 /\ persisted' = persisted /\ pc'[e] = "raised"
      BY <2>1, <2>5, GotoIs
    <3>2. FateOf(e)' = "refused"
      BY <2>1, <2>5, <3>1, <1>0, OpenIs, QueuedIs, FateByWhereNext DEF HandedOver, Told
    <3>3. Trail!Refuse(e)
      BY <2>3, <3>1, <3>2, OneMoved DEF Trail!Refuse, Trail!CountFailed
    <3> QED BY <2>1, <2>3, <3>3 DEF Trail!Next, TrailStep
  <2> QED BY <2>4, <2>5
<1>7. LogEvent(e) => \/ Goto(e, "sync") \/ Goto(e, "alive")
                     \/ ~required /\ closed /\ Goto(e, "logged")
  BY DEF LogEvent
<1> QED BY <1>1, <1>2, <1>3, <1>4, <1>5, <1>6, <1>7 DEF LogStep

LEMMA RequestTrail ==
    ASSUME LifespanInv, TrailInv, NEW e \in Requests, BeginRequest(e) \/ RequestStep(e)
    PROVE  TrailStep
<1>1. CASE BeginRequest(e)
  <2>1. pc[e] = "new" /\ Goto(e, "query") /\ UNCHANGED <<audit, outcome>>
    BY <1>1 DEF BeginRequest
  <2> QED BY <2>1, OpenIs, PcTrail DEF Before
<1>2. CASE EndRequest(e)
  <2>1. pc[e] = "end" /\ Goto(e, "done") /\ UNCHANGED <<audit, outcome>>
    BY <1>2 DEF EndRequest
  <2> QED BY <2>1, PcTrail
<1>3. CASE Query(e)
  <2>1. pc[e] = "query" /\ pc[e] \in Before /\ outcome[e] = "none"
        /\ UNCHANGED <<queue, writing, table, persisted, failed, closed, required, audit>>
    BY <1>3, OpenIs DEF Query, audit, writer, counters, Before
  <2>2. CASE ~poolsClosed
    <3>1. Goto(e, "log") /\ outcome' = outcome
      BY <1>3, <2>2 DEF Query
    <3> QED BY <2>1, <3>1, PcTrail
  <2>3. CASE poolsClosed
    <3>1. Goto(e, "end") /\ outcome' = [outcome EXCEPT ![e] = "error"]
      BY <1>3, <2>3 DEF Query
    <3>2. /\ pc'[e] = "end" /\ outcome'[e] = "error"
          /\ \A r \in Requests \ {e} : pc'[r] = pc[r] /\ outcome'[r] = outcome[r]
      BY <3>1, GotoIs DEF LifespanInv, TypeOK
    <3>3. TrailInv' /\ OthersKept(e) /\ FateOf(e) = "open"
      BY <2>1, <3>2, QueuedIs, LeaveTrail
    <3>4. FateOf(e)' = "refused"
      BY <2>1, <3>2, OpenIs, QueuedIs, FateByWhereNext DEF HandedOver, Told
    <3>5. Trail!Refuse(e)
      BY <2>1, <3>3, <3>4, OneMoved DEF Trail!Refuse, Trail!CountNothing
    <3> QED BY <2>1, <3>3, <3>5 DEF Trail!Next, TrailStep
  <2> QED BY <2>2, <2>3
<1>4. CASE Answer(e)
  <2>1. /\ pc[e] \in {"logged", "raised"} /\ Goto(e, "end")
        /\ outcome' = [outcome EXCEPT ![e] = IF pc[e] = "logged" THEN "ok" ELSE "error"]
        /\ UNCHANGED <<queue, writing, table, persisted, failed, closed, required>>
    BY <1>4 DEF Answer, audit, writer, counters
  <2>2. /\ pc'[e] = "end" /\ outcome'[e] = IF pc[e] = "logged" THEN "ok" ELSE "error"
        /\ \A r \in Requests \ {e} : pc'[r] = pc[r] /\ outcome'[r] = outcome[r]
    BY <2>1, GotoIs DEF LifespanInv, TypeOK
  <2>3. outcome[e] = "none"
    BY <2>1 DEF TrailInv
  <2>4. \A r \in Requests : Kept(r)
    BY <2>1, <2>2, <2>3, QueuedIs DEF Kept, HandedOver, Told
  <2>5. TrailInv'
    BY <2>1, <2>2, <2>4 DEF TrailInv, Kept
  <2> QED BY <2>1, <2>4, <2>5, StutterTrail DEF TrailStep
<1>5. CASE LogStep(e) /\ Quiet
  BY <1>5, LogTrail
<1> QED BY <1>1, <1>2, <1>3, <1>4, <1>5 DEF RequestStep

LEMMA WorkerTrail ==
    ASSUME LifespanInv, TrailInv, WorkerStep, Quiet
    PROVE  TrailStep
<1>0. outcome' = outcome
  BY DEF Quiet
<1>1. CASE WorkerLoop \/ (WorkerGet /\ queue = <<>>)
  <2>1. UNCHANGED <<queue, writing, table, persisted, failed, closed, required, pc>>
    BY <1>1 DEF WorkerLoop, WorkerGet, counters
  <2>2. \A r \in Requests : Kept(r)
    BY <2>1, <1>0, QueuedIs DEF Kept, HandedOver, Told
  <2>3. TrailInv'
    BY <2>1, <2>2, <1>0 DEF TrailInv, Kept
  <2> QED BY <2>1, <2>2, <2>3, StutterTrail DEF TrailStep
<1>2. CASE WorkerGet /\ queue # <<>>
  <2>1. /\ UNCHANGED <<table, persisted, failed, closed, required, pc>>
        /\ worker = "get" /\ queue' = Tail(queue)
        /\ \/ Head(queue) = Barrier /\ writing' = writing
           \/ Head(queue) # Barrier /\ writing' = Head(queue)
    BY <1>2 DEF WorkerGet, counters
  <2>2. writing = Nothing /\ queue \in Seq(Requests \cup {Barrier}) /\ Once(queue)
    BY <2>1 DEF LifespanInv, Events, TypeOK, AuditTypeOK
  <2>3. Queued = Queued' \cup ({Head(queue)} \ {Barrier})
    BY <1>2, <2>1, <2>2, TailEntries, QueuedIs
  <2>4. \A r \in Requests : r # Nothing /\ r # Barrier
    BY AuditAssumption
  <2>5. \A r \in Requests : r \in Queued' \/ r = writing' <=> r \in Queued \/ r = writing
    BY <2>1, <2>2, <2>3, <2>4
  <2>6. \A r \in Requests : Kept(r)
    BY <2>1, <2>5, <1>0 DEF Kept, HandedOver, Told
  <2>7. TrailInv'
    BY <2>1, <2>6, <1>0 DEF TrailInv, Kept
  <2> QED BY <2>1, <2>6, <2>7, StutterTrail DEF TrailStep
<1>3. CASE WorkerWrite
  <2>0. PICK e \in Requests : e = writing
    BY <1>3 DEF WorkerWrite, LifespanInv, Events, TypeOK, AuditTypeOK
  <2>1. /\ UNCHANGED <<queue, closed, required, pc>> /\ writing' = Nothing
        /\ table' \in {table, table \cup {e}}
        /\ \/ e \in table' /\ persisted' = persisted + 1 /\ failed' = failed
           \/ failed' = failed + 1 /\ persisted' = persisted
        /\ worker = "write"
    BY <1>3, <2>0 DEF WorkerWrite, CountFailure
  <2>2. /\ e \in Requests /\ e # Nothing /\ e \notin table /\ e \notin Queued /\ ~required
        /\ \A r \in Requests : r # Nothing
    BY <2>0, <2>1, AuditAssumption DEF LifespanInv, Events, TypeOK, AuditTypeOK, Synchronous
  <2>3. FateOf(e) = "pending" /\ HandedOver(e) /\ HandedOver(e)'
    BY <2>0, <2>1, <2>2, <1>0, FateByWhere DEF TrailInv, HandedOver
  <2>4. OthersKept(e)
    BY <2>0, <2>1, <2>2, <1>0, QueuedIs DEF OthersKept, Kept, HandedOver, Told
  <2>5. TrailInv'
    BY <2>0, <2>1, <2>2, <2>4, <1>0, QueuedIs DEF TrailInv, OthersKept, Kept, HandedOver
  <2>6. CASE e \in table'
    <3>1. FateOf(e)' = "stored"
      BY <2>6, FateByWhereNext
    <3>2. Trail!Store(e)
      BY <2>1, <2>2, <2>3, <2>4, <3>1, OneMoved DEF Trail!Store, Trail!CountStored, Trail!CountFailed
    <3> QED BY <2>1, <2>2, <2>5, <3>2 DEF Trail!Next, TrailStep
  <2>7. CASE e \notin table'
    <3>1. failed' = failed + 1 /\ persisted' = persisted /\ e \notin Queued' /\ e # writing'
      BY <2>1, <2>2, <2>7, QueuedIs
    <3>2. FateOf(e)' = "gone"
      BY <2>2, <2>3, <2>7, <3>1, FateByWhereNext
    <3>3. Trail!GiveUp(e)
      BY <2>2, <2>3, <2>4, <3>1, <3>2, OneMoved DEF Trail!GiveUp, Trail!CountFailed
    <3> QED BY <2>1, <2>2, <2>5, <3>3 DEF Trail!Next, TrailStep
  <2> QED BY <2>6, <2>7
<1> QED BY <1>1, <1>2, <1>3 DEF WorkerStep

LEMMA MainTrail ==
    ASSUME LifespanInv, TrailInv, MainStep
    PROVE  TrailStep
<1>1. /\ UNCHANGED <<writing, table, persisted, failed, required, pc, outcome>>
      /\ queue' = queue \/ queue' = Append(queue, Barrier)
      /\ closed' = closed \/ (closed' = TRUE /\ queue' = queue)
  BY DEF MainStep, SetDraining, WaitForDrain, ClosePools, AuditStart, FlushPut, StopSet, StopClose,
         Quiet, WaitStep, FlushWait, StopJoin, audit, writer, counters
<1>2. Queued' = Queued
  <2>1. queue \in Seq(Requests \cup {Barrier})
    BY DEF LifespanInv, TypeOK, AuditTypeOK
  <2> QED BY <1>1, <2>1, AppendEntries, QueuedIs DEF Queued
<1>3. \A r \in Requests : Kept(r)
  BY <1>1, <1>2 DEF Kept, HandedOver, Told
<1>4. TrailInv'
  BY <1>1, <1>3 DEF TrailInv, Kept
<1>5. CASE closed' = closed
  BY <1>1, <1>3, <1>4, <1>5, StutterTrail DEF TrailStep
<1>6. CASE closed' = TRUE
  <2>1. Trail!Close
    BY <1>1, <1>3, <1>6, AllKept DEF Trail!Close
  <2> QED BY <1>4, <2>1 DEF Trail!Next, TrailStep
<1> QED BY <1>1, <1>5, <1>6

LEMMA TrailInit == Init => TrailInv /\ Trail!Init
<1> SUFFICES ASSUME Init PROVE TrailInv /\ Trail!Init
  OBVIOUS
<1>1. /\ queue = <<>> /\ writing = Nothing /\ table = {} /\ closed = FALSE /\ required \in BOOLEAN
      /\ persisted = 0 /\ failed = 0
      /\ pc = [r \in Requests |-> "new"] /\ outcome = [r \in Requests |-> "none"]
  BY DEF Init, AuditInit
<1>2. \A r \in Requests : r \notin Queued /\ r # writing /\ r \notin table /\ ~HandedOver(r) /\ ~Told(r)
  BY <1>1, AuditAssumption DEF Queued, HandedOver, Told
<1>3. \A r \in Requests : FateOf(r) = "open"
  BY <1>2, FateByWhere
<1>4. Fates = [r \in Requests |-> "open"]
  BY <1>3 DEF Fates
<1> QED BY <1>1, <1>2, <1>4 DEF TrailInv, Trail!Init

LEMMA TrailNext == LifespanInv /\ TrailInv /\ [Next]_vars => TrailStep
<1> SUFFICES ASSUME LifespanInv, TrailInv, [Next]_vars PROVE TrailStep
  OBVIOUS
<1>1. CASE UNCHANGED vars
  <2>1. UNCHANGED <<queue, writing, table, persisted, failed, closed, required, pc, outcome>>
    BY <1>1 DEF vars, audit, writer, counters
  <2>2. \A r \in Requests : Kept(r)
    BY <2>1, QueuedIs DEF Kept, HandedOver, Told
  <2>3. TrailInv'
    BY <2>1, <2>2 DEF TrailInv, Kept
  <2> QED BY <2>1, <2>2, <2>3, StutterTrail DEF TrailStep
<1> QED BY <1>1, RequestTrail, WorkerTrail, MainTrail DEF Next

\* log_event(), the writer thread and the shutdown implement AuditTrail, for any requests
\* and any queue: an event is settled once, and one that is not stored is counted in that
\* very step or its caller is told, until the writer is closed.
THEOREM LifespanKeepsTrail == Spec => TrailSpec
<1>1. Spec => []TrailInv
  BY TrailInit, TrailNext, LifespanInvariant, PTL DEF Spec, TrailStep
<1>2. LifespanInv /\ TrailInv /\ [Next]_vars => [Trail!Next]_(Trail!trail)
  BY TrailNext DEF TrailStep
<1> QED BY <1>1, <1>2, TrailInit, LifespanInvariant, PTL DEF Spec, TrailSpec, Trail!Spec
=============================================================================
