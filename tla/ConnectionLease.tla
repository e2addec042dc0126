--------------------------- MODULE ConnectionLease ---------------------------
(***************************************************************************)
(* What the callers of database/pool.py rely on, with no lock, queue or    *)
(* counter in sight: a connection is absent, in the pool, or owned by one  *)
(* thread, and at most MaxSize of them exist.                              *)
(***************************************************************************)
EXTENDS Naturals

\* Size(S) is the number of elements of S.
CONSTANTS Threads, Conns, MaxSize, Pool, Absent, Size(_)

VARIABLE owner

Live == {c \in Conns : owner[c] # Absent}

Init == owner = [c \in Conns |-> Absent]

Move(c, from, to) == owner[c] = from /\ owner' = [owner EXCEPT ![c] = to]

\* connection() on entry: a new connection when there is room, or an idle one.
LendNew(t, c)  == Size(Live) < MaxSize /\ Move(c, Absent, t)
LendIdle(t, c) == Move(c, Pool, t)

\* connection() on exit: back to the pool, or dropped by whoever holds it.
GiveBack(t, c) == Move(c, t, Pool)
Drop(t, c)     == Move(c, t, Absent)

Next == \E t \in Threads, c \in Conns :
    LendNew(t, c) \/ LendIdle(t, c) \/ GiveBack(t, c) \/ Drop(t, c)

Spec == Init /\ [][Next]_owner
=============================================================================
