----------------------------- MODULE AuditTrail -----------------------------
(***************************************************************************)
(* What authorization/audit.py promises of the events it is given, with no *)
(* queue, thread or shutdown in sight: an event is settled once, as stored *)
(* or not, and what is not stored is counted as a failure in the same step *)
(* or its caller is told, until the trail is closed.  With AUDIT_REQUIRED  *)
(* an event is never left pending and never given up behind the caller.    *)
(***************************************************************************)
EXTENDS Naturals

CONSTANT Events

VARIABLES fate,       \* of each event
          persisted, failed,   \* the two counters of stats()
          closed, required

trail == <<fate, persisted, failed, closed, required>>

Init ==
    /\ fate = [e \in Events |-> "open"]
    /\ persisted = 0 /\ failed = 0
    /\ closed = FALSE /\ required \in BOOLEAN

Move(e, from, to) == fate[e] \in from /\ fate' = [fate EXCEPT ![e] = to]

CountStored == persisted' = persisted + 1 /\ UNCHANGED failed
CountFailed == failed' = failed + 1 /\ UNCHANGED persisted
CountNothing == UNCHANGED <<persisted, failed>>

Accept(e) == ~required /\ Move(e, {"open"}, "pending") /\ CountNothing

\* The row is there; its answer may be lost.
Store(e) == Move(e, {"open", "pending"}, "stored") /\ (CountStored \/ CountFailed)

GiveUp(e) == ~required /\ Move(e, {"open", "pending"}, "gone") /\ CountFailed

\* The caller gets an exception; only an insert that failed is counted.
Refuse(e) == Move(e, {"open"}, "refused") /\ (CountFailed \/ CountNothing)

\* A closed trail drops without a trace.
Forget(e) == closed /\ ~required /\ Move(e, {"open"}, "gone") /\ CountNothing

Close == closed' = TRUE /\ UNCHANGED <<fate, persisted, failed, required>>

Next ==
    \/ \E e \in Events :
          /\ Accept(e) \/ Store(e) \/ GiveUp(e) \/ Refuse(e) \/ Forget(e)
          /\ UNCHANGED <<closed, required>>
    \/ Close

Spec == Init /\ [][Next]_trail
=============================================================================
