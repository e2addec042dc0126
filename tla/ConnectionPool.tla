--------------------------- MODULE ConnectionPool ---------------------------
(***************************************************************************)
(* mcp_server/database/pool.py: the thread-safe connection pool shared by  *)
(* the query executor, the schema catalog, the policy store and the audit  *)
(* writer.  One step is one critical section of ConnectionPool._lock, one  *)
(* operation on the LIFO queue, or one call into the driver (factory,      *)
(* ping, close).  Time is the flag expired[t]: the monotonic clock has     *)
(* passed the deadline thread t computed when it entered acquire().        *)
(* The statistics _waits and _timeouts, only read by stats(), are left out.*)
(***************************************************************************)
EXTENDS Integers, Sequences, FiniteSets

CONSTANTS Threads,   \* threads that call acquire/release/close
          Conns,     \* identities the driver gives to connections
          MaxSize,   \* max_size
          MaxUsage,  \* max_usage, 0 when connections are never recycled
          NoConn     \* "holds no connection"

ASSUME PoolAssumption ==
    /\ MaxSize \in Nat \ {0}
    /\ MaxUsage \in Nat
    /\ NoConn \notin Conns
    /\ IsFiniteSet(Threads) /\ {"pool", "absent"} \cap Threads = {}

VARIABLES created,   \* _created
          inUse,     \* _in_use
          closed,    \* _closed
          avail,     \* _available, top of the stack last
          usage,     \* conn._sql_mcp_pool_usage
          open,      \* connections whose socket is open
          pc,        \* what each thread does next
          held,      \* the connection a thread has in its hands
          after,     \* where _discard returns to
          expired    \* the thread's acquire deadline has passed

vars == <<created, inUse, closed, avail, usage, open, pc, held, after, expired>>

Waiting   == {"acquire", "create", "remain", "get", "ping"}
Discarding == {"discard", "close"}
Steps     == Waiting \cup Discarding \cup {"idle", "held", "put", "drain"}

Init ==
    /\ created = 0
    /\ inUse = 0
    /\ closed = FALSE
    /\ avail = <<>>
    /\ usage = [c \in Conns |-> 0]
    /\ open = {}
    /\ pc = [t \in Threads |-> "idle"]
    /\ held = [t \in Threads |-> NoConn]
    /\ after = [t \in Threads |-> "idle"]
    /\ expired = [t \in Threads |-> FALSE]

Goto(t, s) == pc' = [pc EXCEPT ![t] = s]
Take(t, c) == held' = [held EXCEPT ![t] = c]

\* acquire() returns or raises: its local deadline is gone.
Return(t, s) == Goto(t, s) /\ expired' = [expired EXCEPT ![t] = FALSE]

-----------------------------------------------------------------------------
(* acquire() *)

\* The call: deadline = now + timeout.
BeginAcquire(t) ==
    /\ pc[t] = "idle"
    /\ Goto(t, "acquire")
    /\ UNCHANGED <<created, inUse, closed, avail, usage, open, held, after, expired>>

Refused == closed

CanCreate_OffByOne == created <= MaxSize
CanCreate == created < MaxSize

\* The critical section at the head of the loop.
AcquireLocked(t) ==
    /\ pc[t] = "acquire"
    /\ \/ /\ Refused                                \* RuntimeError
          /\ Return(t, "idle")
          /\ UNCHANGED <<created, inUse>>
       \/ /\ ~Refused /\ CanCreate                 \* reserve a new one
          /\ created' = created + 1
          /\ inUse' = inUse + 1
          /\ Goto(t, "create")
          /\ UNCHANGED expired
       \/ /\ ~Refused /\ ~CanCreate
          /\ Goto(t, "remain")
          /\ UNCHANGED <<created, inUse, expired>>
    /\ UNCHANGED <<closed, avail, usage, open, held, after>>

CreateOk(t) ==
    /\ pc[t] = "create"
    /\ \E c \in Conns \ open :
        /\ open' = open \cup {c}
        /\ usage' = [usage EXCEPT ![c] = 0]
        /\ Take(t, c)
    /\ Return(t, "held")
    /\ UNCHANGED <<created, inUse, closed, avail, after>>

UndoReservation_KeepsInUse == created' = created - 1 /\ UNCHANGED inUse
UndoReservation == created' = created - 1 /\ inUse' = inUse - 1

\* The factory raises; the reservation is undone under the lock.
CreateFail(t) ==
    /\ pc[t] = "create"
    /\ UndoReservation
    /\ Return(t, "idle")
    /\ UNCHANGED <<closed, avail, usage, open, held, after>>

\* remaining = deadline - now; PoolExhausted when it is not positive.
CheckDeadline(t) ==
    /\ pc[t] = "remain"
    /\ IF expired[t] THEN Return(t, "idle")
                     ELSE Goto(t, "get") /\ UNCHANGED expired
    /\ UNCHANGED <<created, inUse, closed, avail, usage, open, held, after>>

\* LifoQueue: the connection put last leaves the queue first.
PopInto_Peek(t) == Take(t, avail[Len(avail)]) /\ UNCHANGED avail
PopInto(t) ==
    /\ Take(t, avail[Len(avail)])
    /\ avail' = SubSeq(avail, 1, Len(avail) - 1)

\* _available.get(timeout=remaining) returns the connection put last ...
GetConn(t) ==
    /\ pc[t] = "get"
    /\ avail # <<>>
    /\ PopInto(t)
    /\ Goto(t, "ping")
    /\ UNCHANGED <<created, inUse, closed, usage, open, after, expired>>

TimesOut_Never(t) == FALSE
TimesOut(t) == expired[t]

\* ... or raises queue.Empty at the deadline: PoolExhausted.
GetEmpty(t) ==
    /\ pc[t] = "get"
    /\ avail = <<>>
    /\ TimesOut(t)
    /\ Return(t, "idle")
    /\ UNCHANGED <<created, inUse, closed, avail, usage, open, held, after>>

PingOk(t) ==
    /\ pc[t] = "ping"
    /\ inUse' = inUse + 1
    /\ Return(t, "held")
    /\ UNCHANGED <<created, closed, avail, usage, open, held, after>>

PingFail_NoDiscard(t) ==
    /\ pc[t] = "ping"
    /\ Take(t, NoConn)
    /\ Goto(t, "acquire")
    /\ UNCHANGED <<created, inUse, closed, avail, usage, open, after, expired>>
PingFail(t) ==
    /\ pc[t] = "ping"
    /\ after' = [after EXCEPT ![t] = "acquire"]
    /\ Goto(t, "discard")
    /\ UNCHANGED <<created, inUse, closed, avail, usage, open, held, expired>>

\* The clock passes the deadline of a thread that is still acquiring.
Expire(t) ==
    /\ ~expired[t]
    /\ \/ pc[t] \in Waiting
       \/ pc[t] \in Discarding /\ after[t] = "acquire"
    /\ expired' = [expired EXCEPT ![t] = TRUE]
    /\ UNCHANGED <<created, inUse, closed, avail, usage, open, pc, held, after>>

-----------------------------------------------------------------------------
(* release(conn) and _discard(conn) *)

\* The recycling count; it is not looked at when MaxUsage is 0.
Used(c) == IF MaxUsage = 0 THEN 0 ELSE usage[c] + 1

WornOut_OffByOne(c) == MaxUsage # 0 /\ Used(c) > MaxUsage
WornOut(c) == MaxUsage # 0 /\ Used(c) >= MaxUsage

ReleaseLocked(t) ==
    /\ pc[t] = "held"
    /\ inUse' = inUse - 1
    /\ usage' = [usage EXCEPT ![held[t]] = Used(held[t])]
    /\ IF closed \/ WornOut(held[t])
         THEN Goto(t, "discard") /\ after' = [after EXCEPT ![t] = "idle"]
         ELSE Goto(t, "put") /\ UNCHANGED after
    /\ UNCHANGED <<created, closed, avail, open, held, expired>>

\* _available.put(...) outside the lock; the queue blocks when it is full.
Put(t) ==
    /\ pc[t] = "put"
    /\ Len(avail) < MaxSize
    /\ avail' = Append(avail, held[t])
    /\ Take(t, NoConn)
    /\ Goto(t, "idle")
    /\ UNCHANGED <<created, inUse, closed, usage, open, after, expired>>

DiscardLocked(t) ==
    /\ pc[t] = "discard"
    /\ created' = created - 1
    /\ Goto(t, "close")
    /\ UNCHANGED <<inUse, closed, avail, usage, open, held, after, expired>>

CloseConn(t) ==
    /\ pc[t] = "close"
    /\ open' = open \ {held[t]}
    /\ usage' = [usage EXCEPT ![held[t]] = 0]       \* the object is gone
    /\ Take(t, NoConn)
    /\ Goto(t, after[t])
    /\ after' = [after EXCEPT ![t] = "idle"]
    /\ UNCHANGED <<created, inUse, closed, avail, expired>>

-----------------------------------------------------------------------------
(* close(): called once, by close_pools() at shutdown *)

CloseLocked(t) ==
    /\ pc[t] = "idle"
    /\ ~closed
    /\ closed' = TRUE
    /\ Goto(t, "drain")
    /\ UNCHANGED <<created, inUse, avail, usage, open, held, after, expired>>

DrainOne(t) ==
    /\ pc[t] = "drain"
    /\ avail # <<>>
    /\ PopInto(t)
    /\ after' = [after EXCEPT ![t] = "drain"]
    /\ Goto(t, "discard")
    /\ UNCHANGED <<created, inUse, closed, usage, open, expired>>

DrainDone(t) ==
    /\ pc[t] = "drain"
    /\ avail = <<>>
    /\ Goto(t, "idle")
    /\ UNCHANGED <<created, inUse, closed, avail, usage, open, held, after, expired>>

-----------------------------------------------------------------------------
\* Steps of a thread inside acquire(), _discard() included.
AcquireStep(t) ==
    \/ AcquireLocked(t) \/ CreateOk(t) \/ CreateFail(t) \/ CheckDeadline(t)
    \/ GetConn(t) \/ GetEmpty(t) \/ PingOk(t) \/ PingFail(t)
    \/ DiscardLocked(t) \/ CloseConn(t)

ReleaseStep(t) == ReleaseLocked(t) \/ Put(t)

CloseStep(t) == CloseLocked(t) \/ DrainOne(t) \/ DrainDone(t)

Next == \E t \in Threads :
    BeginAcquire(t) \/ AcquireStep(t) \/ Expire(t) \/ ReleaseStep(t) \/ CloseStep(t)

Spec == Init /\ [][Next]_vars

\* A running thread is scheduled, driver calls return (they carry connect and
\* read timeouts) and the clock advances.  Nothing is assumed of the holder of
\* a connection: it may keep it for ever.
Fairness == \A t \in Threads : WF_vars(AcquireStep(t)) /\ WF_vars(Expire(t))

FairSpec == Spec /\ Fairness

-----------------------------------------------------------------------------
(* What the pool must keep *)

Idle     == {avail[i] : i \in DOMAIN avail}
Creating == {t \in Threads : pc[t] = "create"}
Carriers == {t \in Threads : pc[t] \in {"ping", "held", "put", "discard"}}
Counted  == Idle \cup {held[t] : t \in Carriers}
Closing  == {t \in Threads : pc[t] = "close"}
Borrowers == {t \in Threads : pc[t] \in {"create", "held"}}

\* Every variable has its type.
TypeOK ==
    /\ created \in 0..MaxSize
    /\ inUse \in Int
    /\ closed \in BOOLEAN
    /\ avail \in Seq(Conns)
    /\ usage \in [Conns -> Nat]
    /\ open \subseteq Conns
    /\ pc \in [Threads -> Steps]
    /\ held \in [Threads -> Conns \cup {NoConn}]
    /\ after \in [Threads -> {"idle", "acquire", "drain"}]
    /\ expired \in [Threads -> BOOLEAN]

\* A thread that carries a connection holds a real, open one, no connection is in two
\* threads' hands, and the idle stack has neither a duplicate nor a connection
\* someone carries: release() and the queue never hand one connection to two users.
HoldsOne(t) == pc[t] \in {"ping", "held", "put", "discard", "close"}

ExclusiveLending ==
    /\ \A t \in Threads : HoldsOne(t) <=> held[t] # NoConn
    /\ \A t, u \in Threads : held[t] = held[u] /\ held[t] # NoConn => t = u
    /\ \A t \in Threads : held[t] \notin Idle
    /\ \A i, j \in DOMAIN avail : avail[i] = avail[j] => i = j

\* _created counts exactly the reserved creations and the connections that are idle
\* or in a thread's hands before _discard's critical section; _in_use counts exactly
\* the threads that create or hold one, on every interleaving and failure path.
Accounting ==
    /\ created = Cardinality(Counted) + Cardinality(Creating)
    /\ inUse = Cardinality(Borrowers)

\* The sockets that are open are the counted connections and those that _discard has
\* already uncounted but not yet closed: max_size bounds the count, and the sockets
\* exceed it only by connections whose close() is under way.
SocketsAccounted == open = Counted \cup {held[t] : t \in Closing}

\* release() puts outside the lock, yet the queue always has room for the connection:
\* a releasing thread never blocks.
PutNeverBlocks == \A t \in Threads : pc[t] = "put" => Len(avail) < MaxSize

\* A connection that reached max_usage is discarded, never offered again.
RecycledInTime == MaxUsage # 0 => \A c \in Idle : usage[c] < MaxUsage

\* Once close() has set _closed, no new capacity is ever taken, whatever calls are
\* still in flight.
NoGrowthAfterClose == [][closed => created' <= created]_vars

\* Every acquire() returns a connection or raises, even if no holder ever releases.
AcquireReturns == \A t \in Threads : pc[t] \in Waiting ~> pc[t] \in {"held", "idle"}

\* The pool implements ConnectionLease: a thread owns the connection it carries from
\* the moment the driver or the queue gives it until put() or _discard's critical
\* section, and a new connection appears only where the lease has room.
Pool == "pool"
Absent == "absent"

owner == [c \in Conns |->
    IF c \in Idle THEN Pool
    ELSE IF \E t \in Carriers : held[t] = c
         THEN CHOOSE t \in Carriers : held[t] = c
         ELSE Absent]

Lease == INSTANCE ConnectionLease
    WITH Threads <- Threads, Conns <- Conns, MaxSize <- MaxSize,
         Pool <- Pool, Absent <- Absent, Size <- Cardinality, owner <- owner

LeaseSpec == Lease!Spec
=============================================================================
