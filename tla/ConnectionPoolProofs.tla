------------------------ MODULE ConnectionPoolProofs ------------------------
(***************************************************************************)
(* Proofs about ConnectionPool, for any threads, connections and bounds.   *)
(***************************************************************************)
EXTENDS ConnectionPool, FiniteSetTheorems, TLAPS

Values(s) == {s[i] : i \in DOMAIN s}
Injective(s) == \A i, j \in DOMAIN s : s[i] = s[j] => i = j

\* Pushing on a stack without duplicates a value it lacks.
LEMMA PushFacts ==
    ASSUME NEW S, NEW s \in Seq(S), NEW c \in S, c \notin Values(s), Injective(s)
    PROVE  /\ Append(s, c) \in Seq(S)
           /\ Values(Append(s, c)) = Values(s) \cup {c}
           /\ Injective(Append(s, c))
<1> DEFINE a == Append(s, c)
<1>1. a \in Seq(S) /\ Len(a) = Len(s) + 1 /\ DOMAIN a = 1..Len(s) + 1
  OBVIOUS
<1>2. DOMAIN s = 1..Len(s) /\ Len(s) \in Nat
  OBVIOUS
<1>3. \A i \in 1..Len(s) : a[i] = s[i]
  OBVIOUS
<1>4. a[Len(s) + 1] = c
  OBVIOUS
<1>5. Values(a) = Values(s) \cup {c}
  <2>1. ASSUME NEW x \in Values(a) PROVE x \in Values(s) \cup {c}
    <3>1. PICK i \in 1..Len(s) + 1 : x = a[i]
      BY <1>1, <2>1 DEF Values
    <3>2. QED BY <3>1, <1>2, <1>3, <1>4 DEF Values
  <2>2. ASSUME NEW x \in Values(s) \cup {c} PROVE x \in Values(a)
    BY <2>2, <1>1, <1>2, <1>3, <1>4 DEF Values
  <2>3. QED BY <2>1, <2>2
<1>6. Injective(a)
  <2>1. \A i \in 1..Len(s) : s[i] # c
    BY <1>2 DEF Values
  <2>2. QED BY <2>1, <1>1, <1>2, <1>3, <1>4 DEF Injective
<1>7. QED BY <1>1, <1>5, <1>6

\* Popping the top of a stack without duplicates.
LEMMA PopFacts ==
    ASSUME NEW S, NEW s \in Seq(S), s # <<>>, Injective(s),
           NEW r, NEW c, r = SubSeq(s, 1, Len(s) - 1), c = s[Len(s)]
    PROVE  /\ r \in Seq(S)
           /\ c \in S
           /\ c \in Values(s)
           /\ Values(r) = Values(s) \ {c}
           /\ Injective(r)
<1>1. DOMAIN s = 1..Len(s) /\ Len(s) \in Nat /\ Len(s) > 0
  OBVIOUS
<1>2. r \in Seq(S) /\ DOMAIN r = 1..Len(s) - 1
  BY <1>1
<1>3. \A i \in 1..Len(s) - 1 : r[i] = s[i]
  BY <1>1
<1>4. c \in S /\ c \in Values(s)
  BY <1>1 DEF Values
<1>5. Values(r) = Values(s) \ {c}
  <2>1. ASSUME NEW x \in Values(r) PROVE x \in Values(s) \ {c}
    <3>1. PICK i \in 1..Len(s) - 1 : x = s[i]
      BY <1>2, <1>3, <2>1 DEF Values
    <3>2. i \in DOMAIN s /\ Len(s) \in DOMAIN s /\ i # Len(s)
      <4>1. \A n \in Nat : \A j \in 1..n - 1 : j \in 1..n /\ n \in 1..n /\ j # n
        OBVIOUS
      <4>2. QED BY <4>1, <1>1
    <3>3. x # c
      BY <3>1, <3>2 DEF Injective
    <3>4. QED BY <3>1, <3>2, <3>3 DEF Values
  <2>2. ASSUME NEW x \in Values(s) \ {c} PROVE x \in Values(r)
    <3>1. PICK i \in 1..Len(s) : x = s[i]
      BY <1>1, <2>2 DEF Values
    <3>2. i \in 1..Len(s) - 1
      BY <1>1, <3>1, <2>2
    <3>3. QED BY <1>2, <1>3, <3>1, <3>2 DEF Values
  <2>3. QED BY <2>1, <2>2
<1>6. Injective(r)
  BY <1>1, <1>2, <1>3 DEF Injective
<1>7. QED BY <1>2, <1>4, <1>5, <1>6
-----------------------------------------------------------------------------
\* The inductive invariant: the counters are right because no connection is in two
\* places, and a fresh connection is in no place because the open ones are accounted for.
IInv ==
    /\ TypeOK
    /\ ExclusiveLending
    /\ Accounting
    /\ SocketsAccounted
    /\ IsFiniteSet(Counted)

\* Sets of threads are finite, and so are their cardinalities natural numbers.
LEMMA ThreadSets ==
    /\ IsFiniteSet(Creating) /\ Cardinality(Creating) \in Nat
    /\ IsFiniteSet(Borrowers) /\ Cardinality(Borrowers) \in Nat
<1>1. Creating \in SUBSET Threads /\ Borrowers \in SUBSET Threads
  BY DEF Creating, Borrowers
<1>2. IsFiniteSet(Creating) /\ IsFiniteSet(Borrowers)
  BY <1>1, PoolAssumption, FS_Subset
<1>3. QED BY <1>2, FS_CardinalityType

\* A step that moves no connection and changes no thread's role keeps the invariant's parts.
SameRoles ==
    /\ Carriers' = Carriers
    /\ Creating' = Creating
    /\ Borrowers' = Borrowers
    /\ Closing' = Closing
    /\ \A t \in Threads : HoldsOne(t)' <=> HoldsOne(t)

LEMMA QuietStep ==
    ASSUME IInv, UNCHANGED <<created, inUse, avail, open, held>>, SameRoles
    PROVE  (ExclusiveLending /\ Accounting /\ SocketsAccounted /\ IsFiniteSet(Counted))'
<1>1. Idle' = Idle /\ Counted' = Counted
  BY DEF Idle, Counted, SameRoles
<1>2. ExclusiveLending'
  BY <1>1 DEF IInv, ExclusiveLending, SameRoles
<1>3. Accounting'
  BY <1>1 DEF IInv, Accounting, SameRoles
<1>4. SocketsAccounted'
  BY <1>1 DEF IInv, SocketsAccounted, SameRoles
<1>5. QED BY <1>1, <1>2, <1>3, <1>4 DEF IInv

LEMMA InitIInv == Init => IInv
<1> SUFFICES ASSUME Init PROVE IInv
  OBVIOUS
<1>1. Idle = {} /\ Creating = {} /\ Carriers = {} /\ Borrowers = {} /\ Closing = {}
  BY DEF Init, Idle, Creating, Carriers, Borrowers, Closing
<1>2. Counted = {}
  BY <1>1 DEF Counted
<1>3. TypeOK
  <2>1. created \in 0..MaxSize /\ inUse \in Int
    BY PoolAssumption DEF Init
  <2>2. avail \in Seq(Conns)
    BY DEF Init
  <2>3. usage \in [Conns -> Nat] /\ held \in [Threads -> Conns \cup {NoConn}]
    BY DEF Init
  <2>4. pc \in [Threads -> Steps] /\ expired \in [Threads -> BOOLEAN]
    BY DEF Init, Steps
  <2>5. after \in [Threads -> {"idle", "acquire", "drain"}]
    BY DEF Init
  <2>6. QED BY <2>1, <2>2, <2>3, <2>4, <2>5 DEF Init, TypeOK
<1>4. ExclusiveLending
  BY <1>1 DEF Init, ExclusiveLending, HoldsOne
<1>5. Accounting
  BY <1>1, <1>2, FS_EmptySet DEF Init, Accounting
<1>6. SocketsAccounted
  BY <1>1, <1>2 DEF Init, SocketsAccounted
<1>7. QED BY <1>2, <1>3, <1>4, <1>5, <1>6, FS_EmptySet DEF IInv

\* acquire() up to the connection: nothing but the thread's place changes.
LEMMA QuietActions ==
    ASSUME IInv, NEW t \in Threads,
           \/ BeginAcquire(t) \/ CheckDeadline(t) \/ GetEmpty(t) \/ PingFail(t)
           \/ Expire(t) \/ CloseLocked(t) \/ DrainDone(t)
    PROVE  IInv'
<1>1. TypeOK'
  BY DEF IInv, TypeOK, BeginAcquire, CheckDeadline, GetEmpty, TimesOut, PingFail, Expire,
         CloseLocked, DrainDone, Goto, Return, Steps, Waiting, Discarding
<1>2. UNCHANGED <<created, inUse, avail, open, held>>
  BY DEF BeginAcquire, CheckDeadline, GetEmpty, PingFail, Expire, CloseLocked, DrainDone
<1>3. SameRoles
  BY DEF IInv, TypeOK, SameRoles, Carriers, Creating, Borrowers, Closing, HoldsOne,
         BeginAcquire, CheckDeadline, GetEmpty, PingFail, Expire,
         CloseLocked, DrainDone, Goto, Return, Steps, Waiting, Discarding
<1>4. QED BY <1>1, <1>2, <1>3, QuietStep DEF IInv

\* The reservation moves the thread into "create" and both counters up by one.
LEMMA AcquireLockedStep ==
    ASSUME IInv, NEW t \in Threads, AcquireLocked(t)
    PROVE  IInv'
<1> USE DEF Goto, Return
<1>1. CASE ~(~Refused /\ CanCreate)
  <2>1. TypeOK'
    BY <1>1 DEF IInv, TypeOK, AcquireLocked, Steps, Waiting
  <2>2. UNCHANGED <<created, inUse, avail, open, held>>
    BY <1>1 DEF AcquireLocked
  <2>3. SameRoles
    BY <1>1 DEF IInv, TypeOK, AcquireLocked, SameRoles, Carriers, Creating, Borrowers,
                Closing, HoldsOne
  <2>4. QED BY <2>1, <2>2, <2>3, QuietStep DEF IInv
<1>2. CASE ~Refused /\ CanCreate
  <2>1. /\ created' = created + 1 /\ inUse' = inUse + 1
        /\ UNCHANGED <<avail, open, held>>
        /\ pc' = [pc EXCEPT ![t] = "create"] /\ pc[t] = "acquire"
    BY <1>2 DEF AcquireLocked
  <2>2. TypeOK'
    <3>1. created' \in 0..MaxSize /\ inUse' \in Int
      BY <2>1, <1>2, PoolAssumption DEF IInv, TypeOK, CanCreate
    <3>2. QED BY <3>1, <2>1, <1>2 DEF IInv, TypeOK, AcquireLocked, Steps, Waiting
  <2>3. /\ Creating' = Creating \cup {t} /\ t \notin Creating
        /\ Borrowers' = Borrowers \cup {t} /\ t \notin Borrowers
        /\ Carriers' = Carriers /\ Closing' = Closing
        /\ \A u \in Threads : HoldsOne(u)' <=> HoldsOne(u)
    BY <2>1 DEF IInv, TypeOK, Carriers, Creating, Borrowers, Closing, HoldsOne
  <2>4. Idle' = Idle /\ Counted' = Counted
    BY <2>1, <2>3 DEF Idle, Counted
  <2>5. ExclusiveLending' /\ SocketsAccounted'
    BY <2>1, <2>3, <2>4 DEF IInv, ExclusiveLending, SocketsAccounted
  <2>6. Accounting'
    <3>1. /\ Cardinality(Creating') = Cardinality(Creating) + 1
          /\ Cardinality(Borrowers') = Cardinality(Borrowers) + 1
      BY <2>3, ThreadSets, FS_AddElement
    <3>2. Cardinality(Counted) \in Nat
      BY FS_CardinalityType DEF IInv
    <3>3. QED BY <2>1, <2>4, <3>1, <3>2, ThreadSets DEF IInv, Accounting
  <2>7. QED BY <2>2, <2>4, <2>5, <2>6 DEF IInv
<1>3. QED BY <1>1, <1>2

\* A fresh connection: the open ones contain the counted ones, so it is in no place yet.
LEMMA CreateOkStep ==
    ASSUME IInv, NEW t \in Threads, CreateOk(t)
    PROVE  IInv'
<1> USE DEF Goto, Return, Take
<1>1. PICK c \in Conns \ open :
        /\ open' = open \cup {c}
        /\ usage' = [usage EXCEPT ![c] = 0]
        /\ held' = [held EXCEPT ![t] = c]
  BY DEF CreateOk
<1>2. /\ pc[t] = "create" /\ pc' = [pc EXCEPT ![t] = "held"]
      /\ UNCHANGED <<created, inUse, avail>>
  BY DEF CreateOk
<1>3. TypeOK'
  BY <1>1 DEF IInv, TypeOK, CreateOk, Steps
<1>4. c \notin Counted /\ c \notin Idle /\ c # NoConn
  BY <1>1, PoolAssumption DEF IInv, SocketsAccounted, Counted
<1>5. /\ Creating' = Creating \ {t} /\ t \in Creating
      /\ Borrowers' = Borrowers
      /\ Carriers' = Carriers \cup {t} /\ t \notin Carriers
      /\ Closing' = Closing /\ t \notin Closing
      /\ \A u \in Threads : HoldsOne(u)' <=> (HoldsOne(u) \/ u = t)
  BY <1>2 DEF IInv, TypeOK, Carriers, Creating, Borrowers, Closing, HoldsOne
<1>6. Idle' = Idle
  BY <1>2 DEF Idle
<1>7. \A u \in Threads : held'[u] = IF u = t THEN c ELSE held[u]
  BY <1>1 DEF IInv, TypeOK
<1>8. Carriers \subseteq Threads /\ Closing \subseteq Threads
  BY DEF Carriers, Closing
<1>9. Counted' = Counted \cup {c}
  BY <1>5, <1>6, <1>7, <1>8 DEF Counted
<1>10. {held[u] : u \in Closing}' = {held[u] : u \in Closing}
  BY <1>5, <1>7, <1>8
<1>11. SocketsAccounted'
  BY <1>1, <1>9, <1>10 DEF IInv, SocketsAccounted
<1>12. \A u \in Threads : held[u] # c
  <2> SUFFICES ASSUME NEW u \in Threads, held[u] = c PROVE FALSE
    OBVIOUS
  <2>1. u \in Carriers \/ u \in Closing
    BY <1>4 DEF IInv, ExclusiveLending, HoldsOne, Carriers, Closing
  <2>2. QED BY <2>1, <1>1 DEF IInv, SocketsAccounted, Counted
<1>13. ExclusiveLending'
  BY <1>2, <1>4, <1>5, <1>6, <1>7, <1>12 DEF IInv, ExclusiveLending
<1>14. IsFiniteSet(Counted') /\ Cardinality(Counted') = Cardinality(Counted) + 1
  BY <1>4, <1>9, FS_AddElement DEF IInv
<1>15. Accounting'
  <2>1. Cardinality(Creating') = Cardinality(Creating) - 1
    BY <1>5, ThreadSets, FS_RemoveElement
  <2>2. Cardinality(Counted) \in Nat
    BY FS_CardinalityType DEF IInv
  <2>3. QED BY <1>2, <1>5, <1>14, <2>1, <2>2, ThreadSets DEF IInv, Accounting
<1>16. QED BY <1>3, <1>11, <1>13, <1>14, <1>15 DEF IInv

\* The failed factory gives the reservation back.
LEMMA CreateFailStep ==
    ASSUME IInv, NEW t \in Threads, CreateFail(t)
    PROVE  IInv'
<1> USE DEF Goto, Return
<1>1. /\ pc[t] = "create" /\ pc' = [pc EXCEPT ![t] = "idle"]
      /\ created' = created - 1 /\ inUse' = inUse - 1
      /\ UNCHANGED <<avail, open, held>>
  BY DEF CreateFail, UndoReservation
<1>2. /\ Creating' = Creating \ {t} /\ t \in Creating
      /\ Borrowers' = Borrowers \ {t} /\ t \in Borrowers
      /\ Carriers' = Carriers /\ Closing' = Closing
      /\ \A u \in Threads : HoldsOne(u)' <=> HoldsOne(u)
  BY <1>1 DEF IInv, TypeOK, Carriers, Creating, Borrowers, Closing, HoldsOne
<1>3. Idle' = Idle /\ Counted' = Counted
  BY <1>1, <1>2 DEF Idle, Counted
<1>4. ExclusiveLending' /\ SocketsAccounted'
  BY <1>1, <1>2, <1>3 DEF IInv, ExclusiveLending, SocketsAccounted
<1>5. /\ Cardinality(Creating') = Cardinality(Creating) - 1
      /\ Cardinality(Borrowers') = Cardinality(Borrowers) - 1
      /\ Cardinality(Creating') \in Nat
  BY <1>2, ThreadSets, FS_RemoveElement, FS_CardinalityType
<1>6. Cardinality(Counted) \in Nat
  BY FS_CardinalityType DEF IInv
<1>7. Accounting'
  BY <1>1, <1>3, <1>5, <1>6, ThreadSets DEF IInv, Accounting
<1>8. TypeOK'
  <2>1. created' \in 0..MaxSize
    BY <1>1, <1>5, <1>6, ThreadSets, PoolAssumption DEF IInv, TypeOK, Accounting
  <2>2. QED
    BY <2>1, <1>1 DEF IInv, TypeOK, CreateFail, Steps
<1>9. QED BY <1>3, <1>4, <1>7, <1>8 DEF IInv

\* What popping the idle stack into a thread's hands does to the places of connections.
LEMMA PopStep ==
    ASSUME IInv, NEW t \in Threads, avail # <<>>, PopInto(t),
           ~HoldsOne(t), t \notin Carriers, HoldsOne(t)',
           Carriers' = Carriers \cup {t}, Closing' = Closing,
           \A u \in Threads : u # t => (HoldsOne(u)' <=> HoldsOne(u)),
           UNCHANGED open
    PROVE  /\ avail' \in Seq(Conns) /\ held' \in [Threads -> Conns \cup {NoConn}]
           /\ Counted' = Counted
           /\ ExclusiveLending'
           /\ SocketsAccounted'
<1> DEFINE c == avail[Len(avail)]
<1>1. /\ held' = [held EXCEPT ![t] = c]
      /\ avail' = SubSeq(avail, 1, Len(avail) - 1)
  BY DEF PopInto, Take
<1>2. /\ avail' \in Seq(Conns) /\ c \in Conns /\ c \in Idle
      /\ Idle' = Idle \ {c}
      /\ \A i, j \in DOMAIN avail' : avail'[i] = avail'[j] => i = j
  <2>1. avail \in Seq(Conns) /\ Injective(avail)
    BY DEF IInv, TypeOK, ExclusiveLending, Injective
  <2>2. c = avail[Len(avail)]
    OBVIOUS
  <2> HIDE DEF c
  <2>3. /\ avail' \in Seq(Conns) /\ c \in Conns /\ c \in Values(avail)
        /\ Values(avail') = Values(avail) \ {c} /\ Injective(avail')
    <3>1. avail' = SubSeq(avail, 1, Len(avail) - 1) /\ avail # <<>>
      BY <1>1
    <3>2. \A s, r, d : /\ s \in Seq(Conns) /\ s # <<>> /\ Injective(s)
                       /\ r = SubSeq(s, 1, Len(s) - 1) /\ d = s[Len(s)]
                       => /\ r \in Seq(Conns) /\ d \in Conns /\ d \in Values(s)
                          /\ Values(r) = Values(s) \ {d} /\ Injective(r)
      BY PopFacts, Zenon
    <3>3. QED BY <2>1, <2>2, <3>1, <3>2, Zenon
  <2>4. QED BY <2>3 DEF Idle, Values, Injective
<1> HIDE DEF c
<1>3. \A u \in Threads : held'[u] = IF u = t THEN c ELSE held[u]
  BY <1>1 DEF IInv, TypeOK
<1>4. c # NoConn /\ \A u \in Threads : held[u] # c
  BY <1>2, PoolAssumption DEF IInv, ExclusiveLending
<1>5. Carriers \subseteq Threads /\ Closing \subseteq Threads /\ t \notin Closing
  BY DEF Carriers, Closing, HoldsOne
<1>6. Counted' = Counted
  BY <1>2, <1>3, <1>5 DEF Counted
<1>7. {held[u] : u \in Closing}' = {held[u] : u \in Closing}
  BY <1>3, <1>5
<1>8. SocketsAccounted'
  BY <1>6, <1>7 DEF IInv, SocketsAccounted
<1>9. ExclusiveLending'
  BY <1>2, <1>3, <1>4 DEF IInv, ExclusiveLending
<1>10. held' \in [Threads -> Conns \cup {NoConn}]
  BY <1>1, <1>2 DEF IInv, TypeOK
<1>11. QED BY <1>2, <1>6, <1>8, <1>9, <1>10

LEMMA GetConnStep ==
    ASSUME IInv, NEW t \in Threads, GetConn(t) \/ DrainOne(t)
    PROVE  IInv'
<1> USE DEF Goto
<1>1. /\ pc[t] \in {"get", "drain"} /\ avail # <<>> /\ PopInto(t)
      /\ \E s \in {"ping", "discard"} : pc' = [pc EXCEPT ![t] = s]
      /\ UNCHANGED <<created, inUse, open>>
  BY DEF GetConn, DrainOne
<1>2. /\ ~HoldsOne(t) /\ t \notin Carriers /\ HoldsOne(t)'
      /\ Carriers' = Carriers \cup {t} /\ Closing' = Closing
      /\ Creating' = Creating /\ Borrowers' = Borrowers
      /\ \A u \in Threads : u # t => (HoldsOne(u)' <=> HoldsOne(u))
  BY <1>1 DEF IInv, TypeOK, Carriers, Creating, Borrowers, Closing, HoldsOne
<1>3. /\ avail' \in Seq(Conns) /\ held' \in [Threads -> Conns \cup {NoConn}]
      /\ Counted' = Counted
      /\ ExclusiveLending'
      /\ SocketsAccounted'
  BY <1>1, <1>2, PopStep
<1>4. TypeOK'
  BY <1>3 DEF IInv, TypeOK, GetConn, DrainOne, Steps, Waiting, Discarding
<1>5. Accounting'
  BY <1>1, <1>2, <1>3 DEF IInv, Accounting
<1>6. QED BY <1>3, <1>4, <1>5 DEF IInv

LEMMA PingOkStep ==
    ASSUME IInv, NEW t \in Threads, PingOk(t)
    PROVE  IInv'
<1> USE DEF Goto, Return
<1>1. /\ pc[t] = "ping" /\ pc' = [pc EXCEPT ![t] = "held"]
      /\ inUse' = inUse + 1
      /\ UNCHANGED <<created, avail, open, held>>
  BY DEF PingOk
<1>2. /\ Creating' = Creating /\ Carriers' = Carriers /\ Closing' = Closing
      /\ Borrowers' = Borrowers \cup {t} /\ t \notin Borrowers
      /\ \A u \in Threads : HoldsOne(u)' <=> HoldsOne(u)
  BY <1>1 DEF IInv, TypeOK, Carriers, Creating, Borrowers, Closing, HoldsOne
<1>3. Idle' = Idle /\ Counted' = Counted
  BY <1>1, <1>2 DEF Idle, Counted
<1>4. ExclusiveLending' /\ SocketsAccounted'
  BY <1>1, <1>2, <1>3 DEF IInv, ExclusiveLending, SocketsAccounted
<1>5. Accounting'
  <2>1. Cardinality(Borrowers') = Cardinality(Borrowers) + 1
    BY <1>2, ThreadSets, FS_AddElement
  <2>2. QED BY <1>1, <1>2, <1>3, <2>1, ThreadSets DEF IInv, Accounting
<1>6. TypeOK'
  BY <1>1 DEF IInv, TypeOK, PingOk, Steps
<1>7. QED BY <1>3, <1>4, <1>5, <1>6 DEF IInv

LEMMA ReleaseLockedStep ==
    ASSUME IInv, NEW t \in Threads, ReleaseLocked(t)
    PROVE  IInv'
<1> USE DEF Goto
<1>1. /\ pc[t] = "held" /\ inUse' = inUse - 1
      /\ \E s \in {"discard", "put"} : pc' = [pc EXCEPT ![t] = s]
      /\ UNCHANGED <<created, avail, open, held>>
  BY DEF ReleaseLocked
<1>2. /\ Creating' = Creating /\ Carriers' = Carriers /\ Closing' = Closing
      /\ Borrowers' = Borrowers \ {t} /\ t \in Borrowers
      /\ \A u \in Threads : HoldsOne(u)' <=> HoldsOne(u)
  BY <1>1 DEF IInv, TypeOK, Carriers, Creating, Borrowers, Closing, HoldsOne
<1>3. Idle' = Idle /\ Counted' = Counted
  BY <1>1, <1>2 DEF Idle, Counted
<1>4. ExclusiveLending' /\ SocketsAccounted'
  BY <1>1, <1>2, <1>3 DEF IInv, ExclusiveLending, SocketsAccounted
<1>5. Accounting'
  <2>1. Cardinality(Borrowers') = Cardinality(Borrowers) - 1
    BY <1>2, ThreadSets, FS_RemoveElement
  <2>2. QED BY <1>1, <1>2, <1>3, <2>1, ThreadSets DEF IInv, Accounting
<1>6. TypeOK'
  <2>1. usage' \in [Conns -> Nat]
    <3>1. held[t] \in Conns /\ usage[held[t]] \in Nat
      BY <1>1 DEF IInv, TypeOK, ExclusiveLending, HoldsOne
    <3>2. Used(held[t]) \in Nat
      BY <3>1 DEF Used
    <3>3. QED BY <3>2 DEF ReleaseLocked, IInv, TypeOK
  <2>2. after' \in [Threads -> {"idle", "acquire", "drain"}]
    BY DEF ReleaseLocked, IInv, TypeOK
  <2>3. pc' \in [Threads -> Steps]
    BY <1>1 DEF IInv, TypeOK, Steps, Discarding
  <2>4. /\ inUse' \in Int
        /\ UNCHANGED <<created, closed, avail, open, held, expired>>
    BY <1>1 DEF IInv, TypeOK, ReleaseLocked
  <2>5. QED
    BY <2>1, <2>2, <2>3, <2>4 DEF IInv, TypeOK
<1>7. QED BY <1>3, <1>4, <1>5, <1>6 DEF IInv

LEMMA PutStep ==
    ASSUME IInv, NEW t \in Threads, Put(t)
    PROVE  IInv'
<1> USE DEF Goto, Take
<1> DEFINE c == held[t]
<1>1. /\ pc[t] = "put" /\ pc' = [pc EXCEPT ![t] = "idle"]
      /\ avail' = Append(avail, c)
      /\ held' = [held EXCEPT ![t] = NoConn]
      /\ UNCHANGED <<created, inUse, open>>
  BY DEF Put
<1>2. /\ Creating' = Creating /\ Borrowers' = Borrowers /\ Closing' = Closing
      /\ Carriers' = Carriers \ {t} /\ t \in Carriers /\ t \notin Closing
      /\ HoldsOne(t) /\ ~HoldsOne(t)'
      /\ \A u \in Threads : u # t => (HoldsOne(u)' <=> HoldsOne(u))
  BY <1>1 DEF IInv, TypeOK, Carriers, Creating, Borrowers, Closing, HoldsOne
<1>3. c \in Conns /\ c \notin Idle /\ c # NoConn
  BY <1>2 DEF IInv, TypeOK, ExclusiveLending
<1>4. /\ avail' \in Seq(Conns)
      /\ Idle' = Idle \cup {c}
      /\ \A i, j \in DOMAIN avail' : avail'[i] = avail'[j] => i = j
  <2>1. avail \in Seq(Conns) /\ Injective(avail) /\ c \notin Values(avail)
    BY <1>3 DEF IInv, TypeOK, ExclusiveLending, Injective, Idle, Values
  <2> HIDE DEF c
  <2>2. QED BY <1>1, <1>3, <2>1, PushFacts DEF Idle, Values, Injective
<1>5. \A u \in Threads : held'[u] = IF u = t THEN NoConn ELSE held[u]
  BY <1>1 DEF IInv, TypeOK
<1>6. \A u \in Threads : u # t => held[u] # c
  BY <1>3 DEF IInv, ExclusiveLending
<1>7. Carriers \subseteq Threads /\ Closing \subseteq Threads
  BY DEF Carriers, Closing
<1>8. Counted' = Counted
  BY <1>2, <1>4, <1>5, <1>7 DEF Counted
<1>9. SocketsAccounted'
  <2>1. {held[u] : u \in Closing}' = {held[u] : u \in Closing}
    BY <1>2, <1>5, <1>7
  <2>2. QED BY <1>1, <1>8, <2>1 DEF IInv, SocketsAccounted
<1>10. ExclusiveLending'
  <2>1. NoConn \notin Idle'
    BY <1>4, PoolAssumption, <1>3 DEF IInv, TypeOK, Idle
  <2>2. QED BY <1>2, <1>4, <1>5, <1>6, <2>1 DEF IInv, ExclusiveLending
<1>11. Accounting'
  BY <1>1, <1>2, <1>8 DEF IInv, Accounting
<1>12. TypeOK'
  BY <1>1, <1>4 DEF IInv, TypeOK, Put, Steps
<1>13. QED BY <1>8, <1>9, <1>10, <1>11, <1>12 DEF IInv

\* Uncounting a connection: it was counted, so the counter stays a natural number.
LEMMA DiscardLockedStep ==
    ASSUME IInv, NEW t \in Threads, DiscardLocked(t)
    PROVE  IInv'
<1> USE DEF Goto
<1> DEFINE c == held[t]
<1>1. /\ pc[t] = "discard" /\ pc' = [pc EXCEPT ![t] = "close"]
      /\ created' = created - 1
      /\ UNCHANGED <<inUse, avail, open, held>>
  BY DEF DiscardLocked
<1>2. /\ Creating' = Creating /\ Borrowers' = Borrowers
      /\ Closing' = Closing \cup {t}
      /\ Carriers' = Carriers \ {t} /\ t \in Carriers
      /\ HoldsOne(t)
      /\ \A u \in Threads : HoldsOne(u)' <=> HoldsOne(u)
  BY <1>1 DEF IInv, TypeOK, Carriers, Creating, Borrowers, Closing, HoldsOne
<1>3. c # NoConn /\ c \notin Idle /\ \A u \in Threads : u # t => held[u] # c
  BY <1>2 DEF IInv, ExclusiveLending
<1>4. Carriers \subseteq Threads /\ Closing \subseteq Threads
  BY DEF Carriers, Closing
<1>5. Idle' = Idle
  BY <1>1 DEF Idle
<1>6. Counted' = Counted \ {c} /\ c \in Counted
  BY <1>1, <1>2, <1>3, <1>4, <1>5 DEF Counted
<1>7. {held[u] : u \in Closing}' = {held[u] : u \in Closing} \cup {c}
  BY <1>1, <1>2, <1>4
<1>8. SocketsAccounted'
  BY <1>1, <1>6, <1>7 DEF IInv, SocketsAccounted
<1>9. ExclusiveLending'
  BY <1>1, <1>2, <1>5 DEF IInv, ExclusiveLending
<1>10. /\ IsFiniteSet(Counted')
       /\ Cardinality(Counted') = Cardinality(Counted) - 1
       /\ Cardinality(Counted) \in Nat /\ Cardinality(Counted') \in Nat
  BY <1>6, FS_RemoveElement, FS_CardinalityType DEF IInv
<1>11. Accounting'
  BY <1>1, <1>2, <1>10, ThreadSets DEF IInv, Accounting
<1>12. TypeOK'
  <2>1. created' \in 0..MaxSize
    BY <1>1, <1>10, ThreadSets, PoolAssumption DEF IInv, TypeOK, Accounting
  <2>2. QED
    BY <2>1, <1>1 DEF IInv, TypeOK, DiscardLocked, Steps, Discarding
<1>13. QED BY <1>8, <1>9, <1>10, <1>11, <1>12 DEF IInv

LEMMA CloseConnStep ==
    ASSUME IInv, NEW t \in Threads, CloseConn(t)
    PROVE  IInv'
<1> USE DEF Goto, Take
<1> DEFINE c == held[t]
<1>1. /\ pc[t] = "close" /\ pc' = [pc EXCEPT ![t] = after[t]]
      /\ after[t] \in {"idle", "acquire", "drain"}
      /\ open' = open \ {c}
      /\ held' = [held EXCEPT ![t] = NoConn]
      /\ UNCHANGED <<created, inUse, avail>>
  BY DEF CloseConn, IInv, TypeOK
<1>2. /\ Creating' = Creating /\ Borrowers' = Borrowers /\ Carriers' = Carriers
      /\ Closing' = Closing \ {t} /\ t \in Closing /\ t \notin Carriers
      /\ HoldsOne(t) /\ ~HoldsOne(t)'
      /\ \A u \in Threads : u # t => (HoldsOne(u)' <=> HoldsOne(u))
  BY <1>1 DEF IInv, TypeOK, Carriers, Creating, Borrowers, Closing, HoldsOne
<1>3. c # NoConn /\ c \notin Idle /\ \A u \in Threads : u # t => held[u] # c
  BY <1>2 DEF IInv, ExclusiveLending
<1>4. Carriers \subseteq Threads /\ Closing \subseteq Threads
  BY DEF Carriers, Closing
<1>5. \A u \in Threads : held'[u] = IF u = t THEN NoConn ELSE held[u]
  BY <1>1 DEF IInv, TypeOK
<1>6. Idle' = Idle /\ NoConn \notin Idle
  BY <1>1, PoolAssumption DEF IInv, TypeOK, Idle
<1>7. Counted' = Counted /\ c \notin Counted
  BY <1>2, <1>3, <1>4, <1>5, <1>6 DEF Counted
<1>8. {held[u] : u \in Closing}' = {held[u] : u \in Closing} \ {c}
  BY <1>2, <1>3, <1>4, <1>5
<1>9. SocketsAccounted'
  BY <1>1, <1>7, <1>8 DEF IInv, SocketsAccounted
<1>10. ExclusiveLending'
  BY <1>1, <1>2, <1>5, <1>6 DEF IInv, ExclusiveLending
<1>11. Accounting'
  BY <1>1, <1>2, <1>7 DEF IInv, Accounting
<1>12. TypeOK'
  <2>1. pc' \in [Threads -> Steps] /\ held' \in [Threads -> Conns \cup {NoConn}]
    BY <1>1 DEF IInv, TypeOK, Steps, Waiting
  <2>2. usage' \in [Conns -> Nat] /\ after' \in [Threads -> {"idle", "acquire", "drain"}]
    BY DEF CloseConn, IInv, TypeOK
  <2>3. open' \subseteq Conns /\ UNCHANGED <<created, inUse, closed, avail, expired>>
    BY <1>1 DEF CloseConn, IInv, TypeOK
  <2>4. QED BY <2>1, <2>2, <2>3 DEF IInv, TypeOK
<1>13. QED BY <1>7, <1>9, <1>10, <1>11, <1>12 DEF IInv

LEMMA NextIInv == IInv /\ [Next]_vars => IInv'
<1> SUFFICES ASSUME IInv, [Next]_vars PROVE IInv'
  OBVIOUS
<1>1. CASE UNCHANGED vars
  BY <1>1 DEF vars, IInv, TypeOK, ExclusiveLending, Accounting, SocketsAccounted, Counted,
     Idle, Carriers, Creating, Borrowers, Closing, HoldsOne
<1>2. CASE Next
  <2>1. PICK t \in Threads :
          BeginAcquire(t) \/ AcquireStep(t) \/ Expire(t) \/ ReleaseStep(t) \/ CloseStep(t)
    BY <1>2 DEF Next
  <2>2. CASE AcquireStep(t)
    BY <2>2, AcquireLockedStep, CreateOkStep, CreateFailStep, QuietActions, GetConnStep,
       PingOkStep, DiscardLockedStep, CloseConnStep DEF AcquireStep
  <2>3. CASE ReleaseStep(t)
    BY <2>3, ReleaseLockedStep, PutStep DEF ReleaseStep
  <2>4. CASE CloseStep(t)
    BY <2>4, QuietActions, GetConnStep DEF CloseStep
  <2>5. QED BY <2>1, <2>2, <2>3, <2>4, QuietActions
<1>3. QED BY <1>1, <1>2

\* Type correctness, exclusive lending and the two accounting invariants hold in every
\* reachable state of the pool, whatever the number of threads and the bounds.
THEOREM PoolInvariant == Spec => []IInv
<1>1. QED BY InitIInv, NextIInv, PTL DEF Spec

THEOREM PoolTypeOK == Spec => []TypeOK
<1>1. IInv => TypeOK
  BY DEF IInv
<1>2. QED BY <1>1, PoolInvariant, PTL

\* No connection is in two threads' hands, or both idle and in use.
THEOREM PoolExclusiveLending == Spec => []ExclusiveLending
<1>1. IInv => ExclusiveLending
  BY DEF IInv
<1>2. QED BY <1>1, PoolInvariant, PTL

\* _created and _in_use count what they say, through every failure path.
THEOREM PoolAccounting == Spec => []Accounting
<1>1. IInv => Accounting
  BY DEF IInv
<1>2. QED BY <1>1, PoolInvariant, PTL

\* Open sockets are the counted connections and those being closed.
THEOREM PoolSocketsAccounted == Spec => []SocketsAccounted
<1>1. IInv => SocketsAccounted
  BY DEF IInv
<1>2. QED BY <1>1, PoolInvariant, PTL

\* The queue has room for every connection that is being put back: with the stack
\* injective, its length is the number of idle connections, all of them counted, and
\* the connection in hand is counted too.
THEOREM PoolPutNeverBlocks == Spec => []PutNeverBlocks
<1>1. ASSUME IInv, NEW t \in Threads, pc[t] = "put"
      PROVE  Len(avail) < MaxSize
  <2> DEFINE n == Len(avail)
  <2>1. avail \in Seq(Conns) /\ n \in Nat /\ DOMAIN avail = 1..n
    BY <1>1 DEF IInv, TypeOK
  <2>2. avail \in Bijection(1..n, Idle)
    BY <1>1, <2>1 DEF IInv, ExclusiveLending, Idle, Bijection, Injection, Surjection, IsInjective
  <2>3. IsFiniteSet(1..n) /\ Cardinality(1..n) = n
    BY <2>1, FS_Interval
  <2>4. IsFiniteSet(Idle) /\ Cardinality(Idle) = n
    BY <2>2, <2>3, FS_Bijection DEF ExistsBijection
  <2>5. held[t] \notin Idle /\ t \in Carriers
    BY <1>1 DEF IInv, ExclusiveLending, Carriers
  <2>6. IsFiniteSet(Idle \cup {held[t]}) /\ Cardinality(Idle \cup {held[t]}) = n + 1
    BY <2>4, <2>5, FS_AddElement
  <2>7. Idle \cup {held[t]} \in SUBSET Counted
    BY <2>5 DEF Counted
  <2>8. Cardinality(Idle \cup {held[t]}) <= Cardinality(Counted)
    BY <2>7, <1>1, FS_Subset DEF IInv
  <2>9. Cardinality(Counted) \in Nat
    BY <1>1, FS_CardinalityType DEF IInv
  <2>10. QED BY <1>1, <2>1, <2>6, <2>8, <2>9, ThreadSets, PoolAssumption
           DEF IInv, TypeOK, Accounting
<1>2. IInv => PutNeverBlocks
  BY <1>1 DEF PutNeverBlocks
<1>3. QED BY <1>2, PoolInvariant, PTL

\* After close() no step raises _created: only AcquireLocked does, and it looks at
\* _closed in the same critical section.
THEOREM PoolNoGrowthAfterClose == Spec => NoGrowthAfterClose
<1>1. ASSUME IInv, [Next]_vars, closed
      PROVE  created' <= created
  <2>1. created \in Int
    BY <1>1 DEF IInv, TypeOK
  <2>2. CASE UNCHANGED vars
    BY <2>1, <2>2 DEF vars
  <2>3. ASSUME NEW t \in Threads,
               BeginAcquire(t) \/ AcquireStep(t) \/ Expire(t) \/ ReleaseStep(t) \/ CloseStep(t)
        PROVE  created' <= created
    <3>1. CASE AcquireLocked(t)
      <4>1. created' = created
        BY <1>1, <3>1 DEF AcquireLocked, Refused
      <4>2. QED BY <4>1, <2>1
    <3>2. CASE CreateFail(t) \/ DiscardLocked(t)
      <4>1. created' = created - 1
        BY <3>2 DEF CreateFail, UndoReservation, DiscardLocked
      <4>2. QED BY <4>1, <2>1
    <3>3. CASE CreateOk(t) \/ CheckDeadline(t) \/ GetConn(t) \/ GetEmpty(t) \/ PingOk(t)
               \/ PingFail(t) \/ CloseConn(t)
      <4>1. created' = created
        BY <3>3 DEF CreateOk, CheckDeadline, GetConn, GetEmpty, PingOk, PingFail, CloseConn
      <4>2. QED BY <4>1, <2>1
    <3>4. CASE BeginAcquire(t) \/ Expire(t) \/ ReleaseStep(t) \/ CloseStep(t)
      <4>1. created' = created
        BY <3>4 DEF BeginAcquire, Expire, ReleaseStep, ReleaseLocked, Put, CloseStep,
                    CloseLocked, DrainOne, DrainDone
      <4>2. QED BY <4>1, <2>1
    <3>5. QED BY <2>3, <3>1, <3>2, <3>3, <3>4 DEF AcquireStep
  <2>4. QED BY <1>1, <2>2, <2>3 DEF Next
<1>2. IInv /\ [Next]_vars => (closed => created' <= created)
  BY <1>1
<1>3. IInv /\ [Next]_vars => [closed => created' <= created]_vars
  BY <1>2
<1>4. QED BY <1>3, PoolInvariant, PTL DEF Spec, NoGrowthAfterClose

-----------------------------------------------------------------------------
(* Recycling *)

\* No connection that is worn out is idle, offered or on its way back to the stack.
UsageInv ==
    MaxUsage # 0 =>
        /\ \A c \in Idle : usage[c] < MaxUsage
        /\ \A t \in Threads : pc[t] \in {"ping", "held", "put"} => usage[held[t]] < MaxUsage

\* Where a push and a pop leave the idle stack.
LEMMA StackMoves ==
    ASSUME IInv, NEW t \in Threads
    PROVE  /\ Put(t) => Idle' = Idle \cup {held[t]} /\ held[t] \in Conns /\ held[t] \notin Idle
           /\ GetConn(t) \/ DrainOne(t) =>
                /\ held'[t] \in Idle /\ Idle' = Idle \ {held'[t]} /\ held'[t] \in Conns
                /\ held' = [held EXCEPT ![t] = held'[t]]
<1>1. avail \in Seq(Conns) /\ Injective(avail)
  BY DEF IInv, TypeOK, ExclusiveLending, Injective
<1>2. ASSUME Put(t) PROVE Idle' = Idle \cup {held[t]} /\ held[t] \in Conns /\ held[t] \notin Idle
  <2> DEFINE c == held[t]
  <2>1. avail' = Append(avail, c)
    BY <1>2 DEF Put
  <2>2. c \in Conns /\ c \notin Values(avail) /\ c \notin Idle
    BY <1>2 DEF Put, IInv, TypeOK, ExclusiveLending, HoldsOne, Values, Idle
  <2> HIDE DEF c
  <2>3. Values(Append(avail, c)) = Values(avail) \cup {c}
    BY <1>1, <2>2, PushFacts
  <2>4. Idle' = Idle \cup {c}
    BY <2>1, <2>3 DEF Values, Idle
  <2> QED BY <2>2, <2>4 DEF c
<1>3. ASSUME GetConn(t) \/ DrainOne(t)
      PROVE  /\ held'[t] \in Idle /\ Idle' = Idle \ {held'[t]} /\ held'[t] \in Conns
             /\ held' = [held EXCEPT ![t] = held'[t]]
  <2> DEFINE c == avail[Len(avail)]
  <2>1. /\ avail # <<>> /\ avail' = SubSeq(avail, 1, Len(avail) - 1)
        /\ held' = [held EXCEPT ![t] = c]
    BY <1>3 DEF GetConn, DrainOne, PopInto, Take
  <2>2. c = avail[Len(avail)]
    OBVIOUS
  <2> HIDE DEF c
  <2>3. /\ c \in Conns /\ c \in Values(avail) /\ Values(avail') = Values(avail) \ {c}
    <3>1. \A s, r, d : /\ s \in Seq(Conns) /\ s # <<>> /\ Injective(s)
                       /\ r = SubSeq(s, 1, Len(s) - 1) /\ d = s[Len(s)]
                       => d \in Conns /\ d \in Values(s) /\ Values(r) = Values(s) \ {d}
      BY PopFacts, Zenon
    <3> QED BY <1>1, <2>1, <2>2, <3>1, Zenon
  <2>4. held'[t] = c
    BY <2>1 DEF IInv, TypeOK
  <2> QED BY <2>1, <2>3, <2>4 DEF Values, Idle
<1> QED BY <1>2, <1>3

LEMMA UsageStep ==
    ASSUME IInv, UsageInv, IInv', [Next]_vars
    PROVE  UsageInv'
<1> SUFFICES ASSUME MaxUsage # 0
             PROVE  /\ \A c \in Idle' : usage'[c] < MaxUsage
                    /\ \A u \in Threads : pc'[u] \in {"ping", "held", "put"} => usage'[held'[u]] < MaxUsage
  BY DEF UsageInv
<1>1. /\ \A c \in Idle : usage[c] < MaxUsage
      /\ \A u \in Threads : pc[u] \in {"ping", "held", "put"} => usage[held[u]] < MaxUsage
  BY DEF UsageInv
<1>2. /\ usage \in [Conns -> Nat] /\ Idle \subseteq Conns /\ MaxUsage \in Nat \ {0} /\ 0 < MaxUsage
      /\ pc \in [Threads -> Steps] /\ held \in [Threads -> Conns \cup {NoConn}]
      /\ \A u \in Threads : HoldsOne(u) <=> held[u] # NoConn
      /\ \A u, v \in Threads : held[u] = held[v] /\ held[u] # NoConn => u = v
      /\ \A u \in Threads : held[u] \notin Idle
  BY PoolAssumption DEF IInv, TypeOK, ExclusiveLending, Idle
<1>3. CASE UNCHANGED vars
  BY <1>1, <1>3 DEF vars, Idle
<1>4. ASSUME NEW t \in Threads,
             BeginAcquire(t) \/ AcquireStep(t) \/ Expire(t) \/ ReleaseStep(t) \/ CloseStep(t)
      PROVE  /\ \A c \in Idle' : usage'[c] < MaxUsage
             /\ \A u \in Threads : pc'[u] \in {"ping", "held", "put"} => usage'[held'[u]] < MaxUsage
  <2>1. CASE \/ BeginAcquire(t) \/ AcquireLocked(t) \/ CreateFail(t) \/ CheckDeadline(t) \/ GetEmpty(t)
             \/ PingFail(t) \/ DiscardLocked(t) \/ Expire(t) \/ CloseLocked(t) \/ DrainDone(t)
    <3>1. Idle' = Idle /\ usage' = usage /\ held' = held
      BY <2>1 DEF BeginAcquire, AcquireLocked, CreateFail, CheckDeadline, GetEmpty, PingFail,
                  DiscardLocked, Expire, CloseLocked, DrainDone, Idle
    <3>2. \A u \in Threads : pc'[u] \in {"ping", "held", "put"} => pc'[u] = pc[u]
      BY <1>2, <2>1 DEF BeginAcquire, AcquireLocked, CreateFail, CheckDeadline, GetEmpty, PingFail,
                  DiscardLocked, Expire, CloseLocked, DrainDone, Goto, Return
    <3> QED BY <1>1, <3>1, <3>2
  <2>2. CASE PingOk(t)
    <3>1. Idle' = Idle /\ usage' = usage /\ held' = held /\ pc[t] = "ping"
      BY <2>2 DEF PingOk, Idle
    <3>2. \A u \in Threads : pc'[u] = IF u = t THEN "held" ELSE pc[u]
      BY <1>2, <2>2 DEF PingOk, Return, Goto
    <3> QED BY <1>1, <3>1, <3>2
  <2>3. CASE CreateOk(t)
    <3>1. PICK c \in Conns : usage' = [usage EXCEPT ![c] = 0] /\ held' = [held EXCEPT ![t] = c]
      BY <2>3 DEF CreateOk, Take
    <3>2. Idle' = Idle /\ \A u \in Threads : /\ held'[u] = IF u = t THEN c ELSE held[u]
                                             /\ pc'[u] = IF u = t THEN "held" ELSE pc[u]
      BY <1>2, <2>3, <3>1 DEF CreateOk, Return, Goto, Idle
    <3>3. \A d \in Conns : usage'[d] = IF d = c THEN 0 ELSE usage[d]
      BY <1>2, <3>1
    <3>4. \A u \in Threads : pc[u] \in {"ping", "held", "put"} => held[u] \in Conns
      BY <1>2 DEF HoldsOne
    <3> QED BY <1>1, <1>2, <3>2, <3>3, <3>4
  <2>4. CASE GetConn(t) \/ DrainOne(t)
    <3>1. usage' = usage /\ \A u \in Threads : u # t => pc'[u] = pc[u]
      BY <1>2, <2>4 DEF GetConn, DrainOne, Goto
    <3>2. held'[t] \in Idle /\ Idle' \subseteq Idle /\ \A u \in Threads : u # t => held'[u] = held[u]
      BY <1>2, <2>4, StackMoves
    <3> QED BY <1>1, <3>1, <3>2
  <2>5. CASE ReleaseLocked(t)
    <3> DEFINE c == held[t]
    <3>1. /\ pc[t] = "held" /\ usage' = [usage EXCEPT ![c] = Used(c)] /\ Idle' = Idle /\ held' = held
          /\ pc' \in {[pc EXCEPT ![t] = "discard"], [pc EXCEPT ![t] = "put"]}
          /\ WornOut(c) => pc' = [pc EXCEPT ![t] = "discard"]
      BY <2>5 DEF ReleaseLocked, Goto, Idle
    <3>2. c \in Conns /\ c \notin Idle /\ \A u \in Threads : u # t => held[u] # c
      BY <1>2, <3>1 DEF HoldsOne
    <3>3. \A d \in Conns : usage'[d] = IF d = c THEN usage[d] + 1 ELSE usage[d]
      BY <1>2, <3>1, <3>2 DEF Used
    <3>4. \A u \in Threads : u # t => pc'[u] = pc[u]
      BY <1>2, <3>1
    <3>5. \A u \in Threads : u # t /\ pc'[u] \in {"ping", "held", "put"} => usage'[held'[u]] < MaxUsage
      <4>1. \A u \in Threads : u # t /\ pc[u] \in {"ping", "held", "put"} => held[u] \in Conns
        BY <1>2 DEF HoldsOne
      <4> QED BY <1>1, <3>1, <3>2, <3>3, <3>4, <4>1
    <3>6. pc'[t] \in {"ping", "held", "put"} => usage'[held'[t]] < MaxUsage
      <4>1. pc'[t] \in {"ping", "held", "put"} => ~WornOut(c)
        BY <1>2, <3>1
      <4>2. ~WornOut(c) => usage[c] + 1 < MaxUsage
        BY <1>2, <3>2 DEF WornOut, Used
      <4> QED BY <3>1, <3>2, <3>3, <4>1, <4>2
    <3>7. \A d \in Idle' : usage'[d] < MaxUsage
      BY <1>1, <1>2, <3>1, <3>2, <3>3
    <3> QED BY <3>5, <3>6, <3>7
  <2>6. CASE Put(t)
    <3>1. /\ pc[t] = "put" /\ usage' = usage /\ Idle' = Idle \cup {held[t]}
          /\ \A u \in Threads : u # t => pc'[u] = pc[u] /\ held'[u] = held[u]
          /\ pc'[t] = "idle"
      BY <1>2, <2>6, StackMoves DEF Put, Goto, Take
    <3> QED BY <1>1, <3>1
  <2>7. CASE CloseConn(t)
    <3> DEFINE c == held[t]
    <3>1. /\ pc[t] = "close" /\ usage' = [usage EXCEPT ![c] = 0] /\ Idle' = Idle
          /\ \A u \in Threads : u # t => pc'[u] = pc[u] /\ held'[u] = held[u]
          /\ pc'[t] \in {"idle", "acquire", "drain"}
      BY <1>2, <2>7 DEF CloseConn, Goto, Take, Idle, IInv, TypeOK
    <3>2. \A d \in Conns : usage'[d] \in {0, usage[d]}
      BY <1>2, <3>1
    <3>3. \A u \in Threads : pc[u] \in {"ping", "held", "put"} => held[u] \in Conns
      BY <1>2 DEF HoldsOne
    <3> QED BY <1>1, <1>2, <3>1, <3>2, <3>3
  <2> QED BY <1>4, <2>1, <2>2, <2>3, <2>4, <2>5, <2>6, <2>7 DEF AcquireStep, ReleaseStep, CloseStep
<1> QED BY <1>3, <1>4 DEF Next

\* A connection that reached max_usage is never idle again.
THEOREM PoolRecycledInTime == Spec => []RecycledInTime
<1>1. Init => UsageInv
  BY DEF Init, UsageInv, Idle
<1>2. UsageInv => RecycledInTime
  BY DEF UsageInv, RecycledInTime
<1> QED BY <1>1, <1>2, UsageStep, PoolInvariant, PTL DEF Spec

-----------------------------------------------------------------------------
(* The pool implements ConnectionLease *)

\* x owns connection c: it is idle in the pool, carried by the thread x, or nowhere.
Owns(c, x) ==
    \/ c \in Idle /\ x = Pool
    \/ x \in Carriers /\ held[x] = c
    \/ c \notin Counted /\ x = Absent

LEMMA OwnerIs ==
    ASSUME IInv, NEW c \in Conns
    PROVE  /\ \A x : owner[c] = x <=> Owns(c, x)
           /\ owner[c] \in Threads \cup {Pool, Absent}
<1>1. /\ \A u, v \in Carriers : held[u] = held[v] => u = v
      /\ \A u \in Carriers : held[u] \notin Idle
      /\ Carriers \subseteq Threads /\ Pool \notin Threads /\ Absent \notin Threads /\ Pool # Absent
  BY PoolAssumption DEF IInv, ExclusiveLending, Carriers, HoldsOne, Pool, Absent
<1>2. owner[c] = IF c \in Idle THEN Pool
                 ELSE IF \E t \in Carriers : held[t] = c
                      THEN CHOOSE t \in Carriers : held[t] = c ELSE Absent
  BY DEF owner
<1>3. CASE c \in Idle
  BY <1>1, <1>2, <1>3 DEF Owns, Counted
<1>4. CASE c \notin Idle /\ \E t \in Carriers : held[t] = c
  <2>1. PICK t \in Carriers : held[t] = c
    BY <1>4
  <2>2. owner[c] \in Carriers /\ held[owner[c]] = c
    BY <1>2, <1>4
  <2>3. c \in Counted
    BY <2>1 DEF Counted
  <2> QED BY <1>1, <1>4, <2>2, <2>3 DEF Owns
<1>5. CASE c \notin Counted
  <2>1. c \notin Idle /\ ~\E t \in Carriers : held[t] = c
    BY <1>5 DEF Counted
  <2> QED BY <1>1, <1>2, <1>5, <2>1 DEF Owns
<1> QED BY <1>3, <1>4, <1>5 DEF Counted

LEMMA OwnerIsNext ==
    ASSUME IInv', NEW c \in Conns
    PROVE  /\ \A x : owner'[c] = x <=> Owns(c, x)'
           /\ owner'[c] \in Threads \cup {Pool, Absent}
<1>1. /\ \A u, v \in Carriers' : held'[u] = held'[v] => u = v
      /\ \A u \in Carriers' : held'[u] \notin Idle'
      /\ Carriers' \subseteq Threads /\ Pool \notin Threads /\ Absent \notin Threads /\ Pool # Absent
  BY PoolAssumption DEF IInv, ExclusiveLending, Carriers, HoldsOne, Pool, Absent
<1>2. owner'[c] = IF c \in Idle' THEN Pool
                  ELSE IF \E t \in Carriers' : held'[t] = c
                       THEN CHOOSE t \in Carriers' : held'[t] = c ELSE Absent
  BY DEF owner, Pool, Absent
<1>3. CASE c \in Idle'
  BY <1>1, <1>2, <1>3 DEF Owns, Counted, Pool, Absent
<1>4. CASE c \notin Idle' /\ \E t \in Carriers' : held'[t] = c
  <2>1. PICK t \in Carriers' : held'[t] = c
    BY <1>4
  <2>2. owner'[c] \in Carriers' /\ held'[owner'[c]] = c
    BY <1>2, <1>4
  <2>3. c \in Counted'
    BY <2>1 DEF Counted
  <2> QED BY <1>1, <1>4, <2>2, <2>3 DEF Owns, Pool, Absent
<1>5. CASE c \notin Counted'
  <2>1. c \notin Idle' /\ ~\E t \in Carriers' : held'[t] = c
    BY <1>5 DEF Counted
  <2> QED BY <1>1, <1>2, <1>5, <2>1 DEF Owns, Pool, Absent
<1> QED BY <1>3, <1>4, <1>5 DEF Counted

\* A step that moves at most connection c, from one owner to another.
LEMMA MoveOne ==
    ASSUME IInv, IInv', NEW c \in Conns, NEW from, NEW to,
           Owns(c, from), Owns(c, to)',
           \A d \in Conns : d # c => \A x : Owns(d, x)' <=> Owns(d, x)
    PROVE  owner[c] = from /\ owner' = [owner EXCEPT ![c] = to]
<1>1. owner[c] = from /\ owner'[c] = to
  BY OwnerIs, OwnerIsNext
<1>2. \A d \in Conns : d # c => owner'[d] = owner[d]
  <2> SUFFICES ASSUME NEW d \in Conns, d # c PROVE owner'[d] = owner[d]
    OBVIOUS
  <2> QED BY OwnerIs, OwnerIsNext
<1>3. DOMAIN owner = Conns /\ DOMAIN owner' = Conns
      /\ owner = [d \in Conns |-> owner[d]] /\ owner' = [d \in Conns |-> owner'[d]]
  BY DEF owner
<1> HIDE DEF owner
<1> QED BY <1>1, <1>2, <1>3

LEMMA MoveNone ==
    ASSUME IInv, IInv', Idle' = Idle, Carriers' = Carriers,
           \A u \in Carriers : held'[u] = held[u]
    PROVE  owner' = owner
<1>1. Counted' = Counted
  BY DEF Counted
<1>2. \A d \in Conns : \A x : Owns(d, x)' <=> Owns(d, x)
  BY <1>1 DEF Owns, Pool, Absent
<1>3. \A d \in Conns : owner'[d] = owner[d]
  <2> SUFFICES ASSUME NEW d \in Conns PROVE owner'[d] = owner[d]
    OBVIOUS
  <2> QED BY <1>2, OwnerIs, OwnerIsNext
<1>4. owner = [d \in Conns |-> owner[d]] /\ owner' = [d \in Conns |-> owner'[d]]
  BY DEF owner
<1> HIDE DEF owner
<1> QED BY <1>3, <1>4

\* The connections that live are those that are counted.
LEMMA LiveIsCounted ==
    ASSUME IInv
    PROVE  Lease!Live = Counted
<1>1. \A c \in Conns : owner[c] # Absent <=> c \in Counted
  <2> SUFFICES ASSUME NEW c \in Conns PROVE owner[c] # Absent <=> c \in Counted
    OBVIOUS
  <2>1. owner[c] = Absent <=> Owns(c, Absent)
    BY OwnerIs
  <2>2. Owns(c, Absent) <=> c \notin Counted
    BY PoolAssumption DEF Owns, Carriers, Pool, Absent
  <2> QED BY <2>1, <2>2
<1>2. Counted \subseteq Conns
  BY DEF IInv, TypeOK, ExclusiveLending, Counted, Idle, Carriers, HoldsOne
<1> QED BY <1>1, <1>2 DEF Lease!Live

LEMMA LeaseStep ==
    ASSUME IInv, IInv', [Next]_vars
    PROVE  [Lease!Next]_owner
<1> SUFFICES Lease!Next \/ owner' = owner
  OBVIOUS
<1>0. /\ pc \in [Threads -> Steps] /\ held \in [Threads -> Conns \cup {NoConn}]
      /\ \A u \in Threads : HoldsOne(u) <=> held[u] # NoConn
      /\ \A u, v \in Threads : held[u] = held[v] /\ held[u] # NoConn => u = v
      /\ \A u \in Threads : held[u] \notin Idle
      /\ Carriers \subseteq Threads /\ Pool # Absent /\ Pool \notin Threads /\ Absent \notin Threads
  BY PoolAssumption DEF IInv, TypeOK, ExclusiveLending, Carriers, Pool, Absent
<1>1. CASE UNCHANGED vars
  <2>1. Idle' = Idle /\ Carriers' = Carriers /\ held' = held
    BY <1>1 DEF vars, Idle, Carriers
  <2> QED BY <2>1, MoveNone
<1>2. ASSUME NEW t \in Threads,
             BeginAcquire(t) \/ AcquireStep(t) \/ Expire(t) \/ ReleaseStep(t) \/ CloseStep(t)
      PROVE  Lease!Next \/ owner' = owner
  <2>1. CASE \/ BeginAcquire(t) \/ AcquireLocked(t) \/ CreateFail(t) \/ CheckDeadline(t) \/ GetEmpty(t)
             \/ PingOk(t) \/ PingFail(t) \/ Expire(t) \/ ReleaseLocked(t) \/ CloseLocked(t)
             \/ DrainDone(t) \/ CloseConn(t)
    <3>1. Idle' = Idle
      BY <2>1 DEF BeginAcquire, AcquireLocked, CreateFail, CheckDeadline, GetEmpty, PingOk, PingFail,
                  Expire, ReleaseLocked, CloseLocked, DrainDone, CloseConn, Idle
    <3>2. \A u \in Threads : u # t => pc'[u] = pc[u] /\ held'[u] = held[u]
      BY <1>0, <2>1 DEF BeginAcquire, AcquireLocked, CreateFail, CheckDeadline, GetEmpty, PingOk,
                  PingFail, Expire, ReleaseLocked, CloseLocked, DrainDone, CloseConn, Goto, Return,
                  Take
    <3>3. t \in Carriers' <=> t \in Carriers
      <4>1. CASE CloseConn(t)
        BY <1>0, <4>1 DEF CloseConn, Goto, Carriers, IInv, TypeOK
      <4> QED BY <1>0, <2>1, <4>1
            DEF BeginAcquire, AcquireLocked, CreateFail, CheckDeadline, GetEmpty, PingOk,
                  PingFail, Expire, ReleaseLocked, CloseLocked, DrainDone, Goto, Return, Carriers
    <3>4. t \in Carriers => held'[t] = held[t]
      BY <2>1 DEF BeginAcquire, AcquireLocked, CreateFail, CheckDeadline, GetEmpty, PingOk, PingFail,
                  Expire, ReleaseLocked, CloseLocked, DrainDone, CloseConn, Carriers
    <3>5. Carriers' = Carriers
      BY <3>2, <3>3 DEF Carriers
    <3> QED BY <1>0, <3>1, <3>2, <3>4, <3>5, MoveNone
  <2>2. CASE CreateOk(t)
    <3>1. PICK c \in Conns \ open : held' = [held EXCEPT ![t] = c]
      BY <2>2 DEF CreateOk, Take
    <3>2. c \notin Counted /\ c \notin Idle /\ \A u \in Carriers : held[u] # c
      BY DEF IInv, SocketsAccounted, Counted
    <3>3. /\ Idle' = Idle /\ pc[t] = "create" /\ Carriers' = Carriers \cup {t} /\ t \notin Carriers
          /\ \A u \in Threads : held'[u] = IF u = t THEN c ELSE held[u]
      BY <1>0, <2>2, <3>1 DEF CreateOk, Return, Goto, Idle, Carriers
    <3>4. Counted' = Counted \cup {c}
      BY <1>0, <3>3 DEF Counted
    <3>5. Owns(c, Absent) /\ Owns(c, t)'
      BY <1>0, <3>2, <3>3 DEF Owns, Pool, Absent
    <3>6. \A d \in Conns : d # c => \A x : Owns(d, x)' <=> Owns(d, x)
      BY <1>0, <3>2, <3>3, <3>4 DEF Owns, Pool, Absent
    <3>7. Lease!Move(c, Absent, t)
      BY <3>5, <3>6, MoveOne DEF Lease!Move
    <3>8. Cardinality(Lease!Live) < MaxSize
      <4>1. Creating # {} /\ IsFiniteSet(Creating)
        BY <3>3, ThreadSets DEF Creating
      <4>2. Cardinality(Creating) \in Nat \ {0}
        BY <4>1, FS_EmptySet, FS_CardinalityType
      <4>3. /\ created \in Nat /\ created <= MaxSize /\ MaxSize \in Nat
            /\ created = Cardinality(Counted) + Cardinality(Creating) /\ Cardinality(Counted) \in Nat
        BY PoolAssumption, FS_CardinalityType DEF IInv, TypeOK, Accounting
      <4> QED BY <4>2, <4>3, LiveIsCounted
    <3>9. Lease!LendNew(t, c)
      BY <3>7, <3>8 DEF Lease!LendNew
    <3> QED BY <3>1, <3>9 DEF Lease!Next
  <2>3. CASE GetConn(t) \/ DrainOne(t)
    <3>0. PICK c : c = held'[t]
      OBVIOUS
    <3>1. /\ held'[t] = c /\ c \in Conns /\ c \in Idle /\ Idle' = Idle \ {c}
          /\ \A u \in Threads : u # t => held'[u] = held[u]
      BY <1>0, <2>3, <3>0, StackMoves
    <3>2. Carriers' = Carriers \cup {t} /\ t \notin Carriers
      BY <1>0, <2>3 DEF GetConn, DrainOne, Goto, Carriers
    <3>3. Counted' = Counted
      BY <1>0, <3>1, <3>2 DEF Counted
    <3>4. Owns(c, Pool)
      BY <3>1 DEF Owns
    <3>5. Owns(c, t)'
      BY <3>1, <3>2 DEF Owns
    <3>6. \A d \in Conns : d # c => \A x : Owns(d, x)' <=> Owns(d, x)
      BY <1>0, <3>1, <3>2, <3>3 DEF Owns, Pool, Absent
    <3>7. Lease!Move(c, Pool, t)
      BY <3>1, <3>4, <3>5, <3>6, MoveOne DEF Lease!Move
    <3> QED BY <3>1, <3>7 DEF Lease!Next, Lease!LendIdle
  <2>4. CASE Put(t)
    <3>0. PICK c : c = held[t]
      OBVIOUS
    <3>1. /\ c \in Conns /\ c \notin Idle /\ Idle' = Idle \cup {c} /\ t \in Carriers
          /\ Carriers' = Carriers \ {t} /\ \A u \in Threads : u # t => held'[u] = held[u]
      BY <1>0, <2>4, <3>0, StackMoves DEF Put, Goto, Take, Carriers
    <3>2. \A u \in Carriers : u # t => held[u] # c
      BY <1>0, <3>0, <3>1 DEF Carriers, HoldsOne
    <3>3. Counted' = Counted
      BY <1>0, <3>0, <3>1, <3>2 DEF Counted
    <3>4. Owns(c, t) /\ Owns(c, Pool)'
      BY <3>0, <3>1 DEF Owns, Pool
    <3>5. \A d \in Conns : d # c => \A x : Owns(d, x)' <=> Owns(d, x)
      BY <1>0, <3>0, <3>1, <3>2, <3>3 DEF Owns, Pool, Absent
    <3>6. Lease!Move(c, t, Pool)
      BY <3>1, <3>4, <3>5, MoveOne DEF Lease!Move
    <3> QED BY <3>1, <3>6 DEF Lease!Next, Lease!GiveBack
  <2>5. CASE DiscardLocked(t)
    <3>0. PICK c : c = held[t]
      OBVIOUS
    <3>1. /\ Idle' = Idle /\ held' = held /\ t \in Carriers /\ Carriers' = Carriers \ {t}
      BY <1>0, <2>5 DEF DiscardLocked, Goto, Carriers, Idle
    <3>2. c \in Conns /\ c \notin Idle /\ \A u \in Carriers : u # t => held[u] # c
      BY <1>0, <3>0, <3>1 DEF Carriers, HoldsOne
    <3>3. Counted' = Counted \ {c}
      BY <1>0, <3>0, <3>1, <3>2 DEF Counted
    <3>4. Owns(c, t) /\ Owns(c, Absent)'
      BY <3>0, <3>1, <3>3 DEF Owns, Absent
    <3>5. \A d \in Conns : d # c => \A x : Owns(d, x)' <=> Owns(d, x)
      BY <1>0, <3>0, <3>1, <3>2, <3>3 DEF Owns, Pool, Absent
    <3>6. Lease!Move(c, t, Absent)
      BY <3>2, <3>4, <3>5, MoveOne DEF Lease!Move
    <3> QED BY <3>2, <3>6 DEF Lease!Next, Lease!Drop
  <2> QED BY <1>2, <2>1, <2>2, <2>3, <2>4, <2>5 DEF AcquireStep, ReleaseStep, CloseStep
<1> QED BY <1>1, <1>2 DEF Next

\* Every behaviour of the pool is one of ConnectionLease: what a caller may rely on
\* without knowing of lock, queue and counters.
THEOREM PoolImplementsLease == Spec => LeaseSpec
<1>1. Init => Lease!Init
  <2> SUFFICES ASSUME Init PROVE Lease!Init
    OBVIOUS
  <2>1. Idle = {} /\ Carriers = {}
    BY DEF Init, Idle, Carriers
  <2> QED BY <2>1 DEF Lease!Init, owner
<1>2. IInv /\ IInv' /\ [Next]_vars => [Lease!Next]_owner
  BY LeaseStep
<1> QED BY <1>1, <1>2, PoolInvariant, PTL DEF Spec, LeaseSpec, Lease!Spec
=============================================================================
