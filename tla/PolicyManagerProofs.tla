------------------------- MODULE PolicyManagerProofs -------------------------
(***************************************************************************)
(* Proofs about PolicyManager, for any processes, threads, documents and   *)
(* bounds.                                                                 *)
(***************************************************************************)
EXTENDS PolicyManager, TLAPS

\* The thread is inside its manager's RLock.
Owns(t) ==
    \/ pc[t] \in InGet \cup {"compile"}
    \/ pc[t] \in {"select", "write", "readback"} /\ op[t] # "publish"

Between == {"setrecord", "compile"}   \* one of the two cache fields is written

\* publish() takes no step of get().
OpOK == \A t \in Threads :
    /\ pc[t] \in InGet \cup {"enter"} => op[t] # "publish"
    /\ pc[t] \in {"select", "write"} => arg[t].doc \in Docs

\* The lock's owner is the one thread of the process inside the critical section.
LockOwned ==
    /\ \A t \in Threads : Owns(t) <=> lock[Home[t]] = t
    /\ \A m \in Managers : lock[m] # NoThread => Home[lock[m]] = m

\* Between the two writes the field written first already has the record's version.
Halfway == \A t \in Threads :
    /\ pc[t] = "setrecord" => policy[Home[t]] = rec[t]
    /\ pc[t] = "compile" => cached[Home[t]] = rec[t]

\* The fields differ only while a thread of the process is between the two writes.
Coherent == \A m \in Managers :
    policy[m] # cached[m] => \E t \in Threads : Home[t] = m /\ pc[t] \in Between

\* A transaction that compared the expected version holds the row, and the version is
\* still the active one.
RowHeld == \A t \in Threads : pc[t] = "write" /\ arg[t].expected # NoDoc =>
    row = t /\ active = arg[t].expected

IInv == TypeOK /\ OpOK /\ LockOwned /\ Halfway /\ Coherent /\ RowHeld

\* The active version is in the history of a reload and so is the record it read.
Tracked == \A t \in Threads : op[t] = "reload" =>
    /\ active \in during[t]
    /\ pc[t] \in {"compare", "setrecord"} => rec[t] \in during[t]

\* What the reload of t may answer.
Confirmed(t) == during[t] \cup raced[t]

\* When a reload has left the lock, its manager's record is confirmed, and so is every
\* record that another call of get() in the process has read and not stored yet.
Settled == \A t \in Threads : op[t] = "reload" /\ pc[t] = "context" =>
    /\ cached[Home[t]] \in Confirmed(t)
    /\ \A u \in Threads :
          Home[u] = Home[t] /\ pc[u] \in {"compare", "setrecord"} => rec[u] \in Confirmed(t)

LEMMA HomeIn == \A t \in Threads : Home[t] \in Managers
BY DEF Managers

LEMMA InitIInv == Init => IInv /\ Tracked /\ Settled
BY PolicyAssumption, HomeIn DEF Init, IInv, TypeOK, OpOK, LockOwned, Halfway, Coherent,
   RowHeld, Tracked, Settled, Owns, InGet, Steps, Maybe, NoArg, Methods, Between

\* Every step keeps the types.
LEMMA TypeStep == ASSUME TypeOK, OpOK, [Next]_vars PROVE TypeOK'
<1> USE PolicyAssumption, HomeIn DEF TypeOK, Goto, Maybe, Methods, NoArg, Steps, InGet
<1>1. CASE UNCHANGED vars
  BY <1>1 DEF vars, store, history, cache, local
<1>2. ASSUME NEW t \in Threads, NEW kind \in {"context", "reload"}, CallGet(t, kind)
      PROVE  TypeOK'
  BY <1>2 DEF CallGet, store, history, cache
<1>3. ASSUME NEW t \in Threads, NEW d \in Docs, NEW e \in {NoDoc, active},
             CallPublish(t, d, e)
      PROVE  TypeOK'
  BY <1>3 DEF CallPublish, store, history, cache
<1>4. ASSUME NEW t \in Threads, ReadActive(t) PROVE TypeOK'
  <2>1. CASE active = NoDoc
    <3>1. arg' = [arg EXCEPT ![t] = [doc |-> Seed, expected |-> NoDoc]]
      BY <1>4, <2>1 DEF ReadActive
    <3>2. arg' \in [Threads -> [doc : Maybe, expected : Maybe]]
      BY <3>1
    <3>3. rec' \in [Threads -> Maybe] /\ pc' \in [Threads -> Steps]
      BY <1>4, <2>1 DEF ReadActive
    <3>4. UNCHANGED <<store, row, cache, publishes, faults, lock, op, seen, history>>
      BY <1>4 DEF ReadActive
    <3>5. QED BY <3>2, <3>3, <3>4 DEF store, history, cache
  <2>2. CASE ~(active = NoDoc)
    BY <1>4, <2>2 DEF ReadActive, store, history, cache
  <2>3. QED BY <2>1, <2>2
<1>5. ASSUME NEW t \in Threads, ReadFails(t) PROVE TypeOK'
  BY <1>5 DEF ReadFails, Raise, Finish, ReleaseRow, Unlock, store, history, cache, local
<1>6. ASSUME NEW t \in Threads, Compare(t) PROVE TypeOK'
  <2>1. CASE Changed(t)
    BY <1>6, <2>1 DEF Compare, Refreshed, Unlock, store, history
  <2>2. CASE ~(Changed(t))
    <3>1. arg' = [arg EXCEPT ![t] = NoArg] /\ rec' = [rec EXCEPT ![t] = NoDoc]
      BY <1>6, <2>2 DEF Compare, Refreshed
    <3>2. arg' \in [Threads -> [doc : Maybe, expected : Maybe]]
      BY <3>1
    <3>3. rec' \in [Threads -> Maybe]
      BY <3>1
    <3>4. fresh' \in [Managers -> BOOLEAN] /\ pc' \in [Threads -> Steps]
      BY <1>6, <2>2 DEF Compare, Refreshed
    <3>5. Unlock(t)
      BY <1>6, <2>2 DEF Compare, Refreshed
    <3>6. lock' \in [Managers -> Threads \cup {NoThread}]
      BY <3>5 DEF Unlock
    <3>7. UNCHANGED <<store, row, cached, policy, publishes, faults, op, seen, history>>
      BY <1>6, <2>2 DEF Compare
    <3>8. QED BY <3>2, <3>3, <3>4, <3>6, <3>7 DEF store, history
  <2>3. QED BY <2>1, <2>2
<1>7. ASSUME NEW t \in Threads, SetRecord(t) PROVE TypeOK'
  BY <1>7 DEF SetRecord, StoreRecord, Refreshed, Unlock, store, history
<1>8. ASSUME NEW t \in Threads, LogLoadedFails(t) PROVE TypeOK'
  BY <1>8 DEF LogLoadedFails, StoreRecord, Raise, Finish, ReleaseRow, Unlock, store, history
<1>9. ASSUME NEW t \in Threads, ReadPolicy(t) PROVE TypeOK'
  BY <1>9 DEF ReadPolicy, store, history, cache
<1>10. ASSUME NEW t \in Threads, ReadVersion(t) PROVE TypeOK'
  BY <1>10 DEF ReadVersion, Finish, Unlock, store, history, cache
<1>11. ASSUME NEW t \in Threads, Select(t) PROVE TypeOK'
  BY <1>11 DEF Select, LocksRow, Conflict, store, history, cache, local
<1>12. ASSUME NEW t \in Threads, SelectConflict(t) PROVE TypeOK'
  BY <1>12 DEF SelectConflict, Finish, Unlock, store, history, cache
<1>13. ASSUME NEW t \in Threads, Write(t) PROVE TypeOK'
  BY <1>13 DEF Write, Actor, cache, OpOK
<1>14. ASSUME NEW t \in Threads, TransactionFails(t) PROVE TypeOK'
  BY <1>14 DEF TransactionFails, Raise, Finish, ReleaseRow, Unlock, store, history, cache
<1>15. ASSUME NEW t \in Threads, ReadBack(t) PROVE TypeOK'
  BY <1>15 DEF ReadBack, store, history, cache
<1>16. ASSUME NEW t \in Threads, ReadBackFails(t) PROVE TypeOK'
  BY <1>16 DEF ReadBackFails, Raise, Finish, ReleaseRow, Unlock, store, history, cache
<1>17. ASSUME NEW t \in Threads, Enter(t) PROVE TypeOK'
  <2>1. pc' \in [Threads -> Steps] /\ lock' \in [Managers -> Threads \cup {NoThread}]
    <3>1. pc' = [pc EXCEPT ![t] = "read"] \/ pc' = [pc EXCEPT ![t] = "context"]
      BY <1>17 DEF Enter
    <3>2. lock' = lock \/ lock' = [lock EXCEPT ![Home[t]] = t]
      BY <1>17 DEF Enter, Lock
    <3>3. pc' \in [Threads -> Steps]
      BY <3>1
    <3>4. lock' \in [Managers -> Threads \cup {NoThread}]
      BY <3>2
    <3>5. QED BY <3>3, <3>4
  <2>2. QED BY <1>17, <2>1 DEF Enter, store, history, cache, local
<1>18. ASSUME NEW t \in Threads, Install(t) PROVE TypeOK'
  BY <1>18 DEF Install, Free, Lock, StoreRecord, store, history, local
<1>19. ASSUME NEW t \in Threads, Compile(t) PROVE TypeOK'
  BY <1>19 DEF Compile, Compiled, Finish, Unlock, store, history
<1>20. ASSUME NEW m \in Managers, Elapse(m) PROVE TypeOK'
  BY <1>20 DEF Elapse, store, history, local
<1>21. QED
  BY <1>1, <1>2, <1>3, <1>4, <1>5, <1>6, <1>7, <1>8, <1>9, <1>10,
     <1>11, <1>12, <1>13, <1>14, <1>15, <1>16, <1>17, <1>18,
     <1>19, <1>20 DEF Next, Calling, Locking, Running, Failing

\* A thread in get() is in no publication, and a publication has a document.
LEMMA OpStep == ASSUME IInv, [Next]_vars PROVE OpOK'
<1> USE PolicyAssumption, HomeIn DEF IInv, TypeOK, Goto, OpOK, InGet, Methods
<1>1. CASE UNCHANGED vars
  BY <1>1 DEF vars, store, history, cache, local
<1>2. ASSUME NEW t \in Threads, NEW kind \in {"context", "reload"}, CallGet(t, kind)
      PROVE  OpOK'
  BY <1>2 DEF CallGet, store, history, cache
<1>3. ASSUME NEW t \in Threads, NEW d \in Docs, NEW e \in {NoDoc, active},
             CallPublish(t, d, e)
      PROVE  OpOK'
  BY <1>3 DEF CallPublish, store, history, cache
<1>4. ASSUME NEW t \in Threads, ReadActive(t) PROVE OpOK'
  BY <1>4 DEF ReadActive, store, history, cache
<1>5. ASSUME NEW t \in Threads, ReadFails(t) PROVE OpOK'
  BY <1>5 DEF ReadFails, Raise, Finish, ReleaseRow, Unlock, store, history, cache, local
<1>6. ASSUME NEW t \in Threads, Compare(t) PROVE OpOK'
  BY <1>6 DEF Compare, Changed, Refreshed, Unlock, store, history
<1>7. ASSUME NEW t \in Threads, SetRecord(t) PROVE OpOK'
  BY <1>7 DEF SetRecord, StoreRecord, Refreshed, Unlock, store, history
<1>8. ASSUME NEW t \in Threads, LogLoadedFails(t) PROVE OpOK'
  BY <1>8 DEF LogLoadedFails, StoreRecord, Raise, Finish, ReleaseRow, Unlock, store, history
<1>9. ASSUME NEW t \in Threads, ReadPolicy(t) PROVE OpOK'
  BY <1>9 DEF ReadPolicy, store, history, cache
<1>10. ASSUME NEW t \in Threads, ReadVersion(t) PROVE OpOK'
  BY <1>10 DEF ReadVersion, Finish, Unlock, store, history, cache
<1>11. ASSUME NEW t \in Threads, Select(t) PROVE OpOK'
  BY <1>11 DEF Select, LocksRow, Conflict, store, history, cache, local
<1>12. ASSUME NEW t \in Threads, SelectConflict(t) PROVE OpOK'
  BY <1>12 DEF SelectConflict, Finish, Unlock, store, history, cache
<1>13. ASSUME NEW t \in Threads, Write(t) PROVE OpOK'
  BY <1>13 DEF Write, Actor, cache
<1>14. ASSUME NEW t \in Threads, TransactionFails(t) PROVE OpOK'
  BY <1>14 DEF TransactionFails, Raise, Finish, ReleaseRow, Unlock, store, history, cache
<1>15. ASSUME NEW t \in Threads, ReadBack(t) PROVE OpOK'
  BY <1>15 DEF ReadBack, store, history, cache
<1>16. ASSUME NEW t \in Threads, ReadBackFails(t) PROVE OpOK'
  BY <1>16 DEF ReadBackFails, Raise, Finish, ReleaseRow, Unlock, store, history, cache
<1>17. ASSUME NEW t \in Threads, Enter(t) PROVE OpOK'
  BY <1>17 DEF Enter, Free, Lock, MustRead, store, history, cache, local
<1>18. ASSUME NEW t \in Threads, Install(t) PROVE OpOK'
  BY <1>18 DEF Install, Free, Lock, StoreRecord, store, history, local
<1>19. ASSUME NEW t \in Threads, Compile(t) PROVE OpOK'
  BY <1>19 DEF Compile, Compiled, Finish, Unlock, store, history
<1>20. ASSUME NEW m \in Managers, Elapse(m) PROVE OpOK'
  BY <1>20 DEF Elapse, store, history, local
<1>21. QED
  BY <1>1, <1>2, <1>3, <1>4, <1>5, <1>6, <1>7, <1>8, <1>9, <1>10,
     <1>11, <1>12, <1>13, <1>14, <1>15, <1>16, <1>17, <1>18,
     <1>19, <1>20 DEF Next, Calling, Locking, Running, Failing

\* Every step keeps the lock with the one thread inside the critical section.
LEMMA LockStep == ASSUME IInv, [Next]_vars PROVE LockOwned'
<1> USE PolicyAssumption, HomeIn DEF IInv, TypeOK, Goto, OpOK, LockOwned, Owns, InGet, Methods
<1>1. CASE UNCHANGED vars
  BY <1>1 DEF vars, store, history, cache, local
<1>2. ASSUME NEW t \in Threads, NEW kind \in {"context", "reload"}, CallGet(t, kind)
      PROVE  LockOwned'
  BY <1>2 DEF CallGet, store, history, cache
<1>3. ASSUME NEW t \in Threads, NEW d \in Docs, NEW e \in {NoDoc, active},
             CallPublish(t, d, e)
      PROVE  LockOwned'
  BY <1>3 DEF CallPublish, store, history, cache
<1>4. ASSUME NEW t \in Threads, ReadActive(t) PROVE LockOwned'
  BY <1>4 DEF ReadActive, store, history, cache
<1>5. ASSUME NEW t \in Threads, ReadFails(t) PROVE LockOwned'
  BY <1>5 DEF ReadFails, Raise, Finish, ReleaseRow, Unlock, store, history, cache, local
<1>6. ASSUME NEW t \in Threads, Compare(t) PROVE LockOwned'
  BY <1>6 DEF Compare, Changed, Refreshed, Unlock, store, history
<1>7. ASSUME NEW t \in Threads, SetRecord(t) PROVE LockOwned'
  BY <1>7 DEF SetRecord, StoreRecord, Refreshed, Unlock, store, history
<1>8. ASSUME NEW t \in Threads, LogLoadedFails(t) PROVE LockOwned'
  BY <1>8 DEF LogLoadedFails, StoreRecord, Raise, Finish, ReleaseRow, Unlock, store, history
<1>9. ASSUME NEW t \in Threads, ReadPolicy(t) PROVE LockOwned'
  BY <1>9 DEF ReadPolicy, store, history, cache
<1>10. ASSUME NEW t \in Threads, ReadVersion(t) PROVE LockOwned'
  BY <1>10 DEF ReadVersion, Finish, Unlock, store, history, cache
<1>11. ASSUME NEW t \in Threads, Select(t) PROVE LockOwned'
  BY <1>11 DEF Select, LocksRow, Conflict, store, history, cache, local
<1>12. ASSUME NEW t \in Threads, SelectConflict(t) PROVE LockOwned'
  BY <1>12 DEF SelectConflict, Finish, Unlock, store, history, cache
<1>13. ASSUME NEW t \in Threads, Write(t) PROVE LockOwned'
  BY <1>13 DEF Write, Actor, cache
<1>14. ASSUME NEW t \in Threads, TransactionFails(t) PROVE LockOwned'
  BY <1>14 DEF TransactionFails, Raise, Finish, ReleaseRow, Unlock, store, history, cache
<1>15. ASSUME NEW t \in Threads, ReadBack(t) PROVE LockOwned'
  BY <1>15 DEF ReadBack, store, history, cache
<1>16. ASSUME NEW t \in Threads, ReadBackFails(t) PROVE LockOwned'
  BY <1>16 DEF ReadBackFails, Raise, Finish, ReleaseRow, Unlock, store, history, cache
<1>17. ASSUME NEW t \in Threads, Enter(t) PROVE LockOwned'
  BY <1>17 DEF Enter, Free, Lock, MustRead, store, history, cache, local
<1>18. ASSUME NEW t \in Threads, Install(t) PROVE LockOwned'
  BY <1>18 DEF Install, Free, Lock, StoreRecord, store, history, local
<1>19. ASSUME NEW t \in Threads, Compile(t) PROVE LockOwned'
  BY <1>19 DEF Compile, Compiled, Finish, Unlock, store, history
<1>20. ASSUME NEW m \in Managers, Elapse(m) PROVE LockOwned'
  BY <1>20 DEF Elapse, store, history, local
<1>21. QED
  BY <1>1, <1>2, <1>3, <1>4, <1>5, <1>6, <1>7, <1>8, <1>9, <1>10,
     <1>11, <1>12, <1>13, <1>14, <1>15, <1>16, <1>17, <1>18,
     <1>19, <1>20 DEF Next, Calling, Locking, Running, Failing

\* No other thread touches the cache between the two writes.
LEMMA HalfwayStep == ASSUME IInv, [Next]_vars PROVE Halfway'
<1> USE PolicyAssumption, HomeIn DEF IInv, TypeOK, Goto, OpOK, LockOwned, Owns, InGet, Halfway
<1>1. CASE UNCHANGED vars
  BY <1>1 DEF vars, store, history, cache, local
<1>2. ASSUME NEW t \in Threads, NEW kind \in {"context", "reload"}, CallGet(t, kind)
      PROVE  Halfway'
  BY <1>2 DEF CallGet, store, history, cache
<1>3. ASSUME NEW t \in Threads, NEW d \in Docs, NEW e \in {NoDoc, active},
             CallPublish(t, d, e)
      PROVE  Halfway'
  BY <1>3 DEF CallPublish, store, history, cache
<1>4. ASSUME NEW t \in Threads, ReadActive(t) PROVE Halfway'
  BY <1>4 DEF ReadActive, store, history, cache
<1>5. ASSUME NEW t \in Threads, ReadFails(t) PROVE Halfway'
  BY <1>5 DEF ReadFails, Raise, Finish, ReleaseRow, Unlock, store, history, cache, local
<1>6. ASSUME NEW t \in Threads, Compare(t) PROVE Halfway'
  BY <1>6 DEF Compare, Changed, Refreshed, Unlock, store, history
<1>7. ASSUME NEW t \in Threads, SetRecord(t) PROVE Halfway'
  BY <1>7 DEF SetRecord, StoreRecord, Refreshed, Unlock, store, history
<1>8. ASSUME NEW t \in Threads, LogLoadedFails(t) PROVE Halfway'
  BY <1>8 DEF LogLoadedFails, StoreRecord, Raise, Finish, ReleaseRow, Unlock, store, history
<1>9. ASSUME NEW t \in Threads, ReadPolicy(t) PROVE Halfway'
  BY <1>9 DEF ReadPolicy, store, history, cache
<1>10. ASSUME NEW t \in Threads, ReadVersion(t) PROVE Halfway'
  BY <1>10 DEF ReadVersion, Finish, Unlock, store, history, cache
<1>11. ASSUME NEW t \in Threads, Select(t) PROVE Halfway'
  BY <1>11 DEF Select, LocksRow, Conflict, store, history, cache, local
<1>12. ASSUME NEW t \in Threads, SelectConflict(t) PROVE Halfway'
  BY <1>12 DEF SelectConflict, Finish, Unlock, store, history, cache
<1>13. ASSUME NEW t \in Threads, Write(t) PROVE Halfway'
  BY <1>13 DEF Write, Actor, cache
<1>14. ASSUME NEW t \in Threads, TransactionFails(t) PROVE Halfway'
  BY <1>14 DEF TransactionFails, Raise, Finish, ReleaseRow, Unlock, store, history, cache
<1>15. ASSUME NEW t \in Threads, ReadBack(t) PROVE Halfway'
  BY <1>15 DEF ReadBack, store, history, cache
<1>16. ASSUME NEW t \in Threads, ReadBackFails(t) PROVE Halfway'
  BY <1>16 DEF ReadBackFails, Raise, Finish, ReleaseRow, Unlock, store, history, cache
<1>17. ASSUME NEW t \in Threads, Enter(t) PROVE Halfway'
  BY <1>17 DEF Enter, Free, Lock, MustRead, store, history, cache, local
<1>18. ASSUME NEW t \in Threads, Install(t) PROVE Halfway'
  BY <1>18 DEF Install, Free, Lock, StoreRecord, store, history, local
<1>19. ASSUME NEW t \in Threads, Compile(t) PROVE Halfway'
  BY <1>19 DEF Compile, Compiled, Finish, Unlock, store, history
<1>20. ASSUME NEW m \in Managers, Elapse(m) PROVE Halfway'
  BY <1>20 DEF Elapse, store, history, local
<1>21. QED
  BY <1>1, <1>2, <1>3, <1>4, <1>5, <1>6, <1>7, <1>8, <1>9, <1>10,
     <1>11, <1>12, <1>13, <1>14, <1>15, <1>16, <1>17, <1>18,
     <1>19, <1>20 DEF Next, Calling, Locking, Running, Failing

\* The two writes end with equal fields.
LEMMA CoherentStep == ASSUME IInv, [Next]_vars PROVE Coherent'
<1> USE PolicyAssumption, HomeIn DEF IInv, TypeOK, Goto, OpOK, LockOwned, Owns, InGet, Halfway, Coherent, Between
<1>1. CASE UNCHANGED vars
  BY <1>1 DEF vars, store, history, cache, local
<1>2. ASSUME NEW t \in Threads, NEW kind \in {"context", "reload"}, CallGet(t, kind)
      PROVE  Coherent'
  BY <1>2 DEF CallGet, store, history, cache
<1>3. ASSUME NEW t \in Threads, NEW d \in Docs, NEW e \in {NoDoc, active},
             CallPublish(t, d, e)
      PROVE  Coherent'
  BY <1>3 DEF CallPublish, store, history, cache
<1>4. ASSUME NEW t \in Threads, ReadActive(t) PROVE Coherent'
  BY <1>4 DEF ReadActive, store, history, cache
<1>5. ASSUME NEW t \in Threads, ReadFails(t) PROVE Coherent'
  BY <1>5 DEF ReadFails, Raise, Finish, ReleaseRow, Unlock, store, history, cache, local
<1>6. ASSUME NEW t \in Threads, Compare(t) PROVE Coherent'
  BY <1>6 DEF Compare, Changed, Refreshed, Unlock, store, history
<1>7. ASSUME NEW t \in Threads, SetRecord(t) PROVE Coherent'
  BY <1>7 DEF SetRecord, StoreRecord, Refreshed, Unlock, store, history
<1>8. ASSUME NEW t \in Threads, LogLoadedFails(t) PROVE Coherent'
  BY <1>8 DEF LogLoadedFails, StoreRecord, Raise, Finish, ReleaseRow, Unlock, store, history
<1>9. ASSUME NEW t \in Threads, ReadPolicy(t) PROVE Coherent'
  BY <1>9 DEF ReadPolicy, store, history, cache
<1>10. ASSUME NEW t \in Threads, ReadVersion(t) PROVE Coherent'
  BY <1>10 DEF ReadVersion, Finish, Unlock, store, history, cache
<1>11. ASSUME NEW t \in Threads, Select(t) PROVE Coherent'
  BY <1>11 DEF Select, LocksRow, Conflict, store, history, cache, local
<1>12. ASSUME NEW t \in Threads, SelectConflict(t) PROVE Coherent'
  BY <1>12 DEF SelectConflict, Finish, Unlock, store, history, cache
<1>13. ASSUME NEW t \in Threads, Write(t) PROVE Coherent'
  BY <1>13 DEF Write, Actor, cache
<1>14. ASSUME NEW t \in Threads, TransactionFails(t) PROVE Coherent'
  BY <1>14 DEF TransactionFails, Raise, Finish, ReleaseRow, Unlock, store, history, cache
<1>15. ASSUME NEW t \in Threads, ReadBack(t) PROVE Coherent'
  BY <1>15 DEF ReadBack, store, history, cache
<1>16. ASSUME NEW t \in Threads, ReadBackFails(t) PROVE Coherent'
  BY <1>16 DEF ReadBackFails, Raise, Finish, ReleaseRow, Unlock, store, history, cache
<1>17. ASSUME NEW t \in Threads, Enter(t) PROVE Coherent'
  BY <1>17 DEF Enter, Free, Lock, MustRead, store, history, cache, local
<1>18. ASSUME NEW t \in Threads, Install(t) PROVE Coherent'
  BY <1>18 DEF Install, Free, Lock, StoreRecord, store, history, local
<1>19. ASSUME NEW t \in Threads, Compile(t) PROVE Coherent'
  BY <1>19 DEF Compile, Compiled, Finish, Unlock, store, history
<1>20. ASSUME NEW m \in Managers, Elapse(m) PROVE Coherent'
  BY <1>20 DEF Elapse, store, history, local
<1>21. QED
  BY <1>1, <1>2, <1>3, <1>4, <1>5, <1>6, <1>7, <1>8, <1>9, <1>10,
     <1>11, <1>12, <1>13, <1>14, <1>15, <1>16, <1>17, <1>18,
     <1>19, <1>20 DEF Next, Calling, Locking, Running, Failing

\* A step of another thread leaves the row, and the active version, of a transaction that
\* compared it.
LEMMA RowStep == ASSUME IInv, [Next]_vars PROVE RowHeld'
<1> USE PolicyAssumption DEF IInv, TypeOK, Goto, OpOK, RowHeld
<1>1. CASE UNCHANGED vars
  BY <1>1 DEF vars, store, local
<1>2. ASSUME NEW t \in Threads, Calling(t) PROVE RowHeld'
  BY <1>2 DEF Calling, CallGet, CallPublish, store
<1>3. ASSUME NEW t \in Threads, Locking(t) PROVE RowHeld'
  BY <1>3 DEF Locking, Enter, Install, store, local
<1>4. ASSUME NEW t \in Threads, Select(t) PROVE RowHeld'
  BY <1>4 DEF Select, LocksRow, Conflict, store, local
<1>5. ASSUME NEW t \in Threads, Write(t) PROVE RowHeld'
  BY <1>5 DEF Write
<1>6. ASSUME NEW t \in Threads, ReadActive(t) PROVE RowHeld'
  BY <1>6 DEF ReadActive, store
<1>7. ASSUME NEW t \in Threads, Compare(t) \/ SetRecord(t) \/ ReadPolicy(t) \/ ReadBack(t)
      PROVE  RowHeld'
  BY <1>7 DEF Compare, SetRecord, Refreshed, ReadPolicy, ReadBack, store
<1>8. ASSUME NEW t \in Threads, ReadVersion(t) \/ SelectConflict(t) \/ Compile(t)
      PROVE  RowHeld'
  BY <1>8 DEF ReadVersion, SelectConflict, Compile, Finish, store
<1>9. ASSUME NEW t \in Threads, Failing(t) PROVE RowHeld'
  BY <1>9 DEF Failing, ReadFails, LogLoadedFails, TransactionFails, ReadBackFails, Raise,
     Finish, ReleaseRow, store
<1>10. ASSUME NEW m \in Managers, Elapse(m) PROVE RowHeld'
  BY <1>10 DEF Elapse, store, local
<1> QED
  BY <1>1, <1>2, <1>3, <1>4, <1>5, <1>6, <1>7, <1>8, <1>9, <1>10 DEF Next, Running

\* The history of a reload contains the active version and the record it read.
LEMMA TrackedStep == ASSUME IInv, Tracked, [Next]_vars PROVE Tracked'
<1> USE PolicyAssumption, HomeIn DEF IInv, TypeOK, Goto, OpOK, Tracked, InGet, Methods
<1>1. CASE UNCHANGED vars
  BY <1>1 DEF vars, store, history, cache, local
<1>2. ASSUME NEW t \in Threads, NEW kind \in {"context", "reload"}, CallGet(t, kind)
      PROVE  Tracked'
  BY <1>2 DEF CallGet, store, history, cache
<1>3. ASSUME NEW t \in Threads, NEW d \in Docs, NEW e \in {NoDoc, active},
             CallPublish(t, d, e)
      PROVE  Tracked'
  BY <1>3 DEF CallPublish, store, history, cache
<1>4. ASSUME NEW t \in Threads, ReadActive(t) PROVE Tracked'
  BY <1>4 DEF ReadActive, store, history, cache
<1>5. ASSUME NEW t \in Threads, ReadFails(t) PROVE Tracked'
  BY <1>5 DEF ReadFails, Raise, Finish, ReleaseRow, Unlock, store, history, cache, local
<1>6. ASSUME NEW t \in Threads, Compare(t) PROVE Tracked'
  BY <1>6 DEF Compare, Changed, Refreshed, Unlock, store, history
<1>7. ASSUME NEW t \in Threads, SetRecord(t) PROVE Tracked'
  BY <1>7 DEF SetRecord, StoreRecord, Refreshed, Unlock, store, history
<1>8. ASSUME NEW t \in Threads, LogLoadedFails(t) PROVE Tracked'
  BY <1>8 DEF LogLoadedFails, StoreRecord, Raise, Finish, ReleaseRow, Unlock, store, history
<1>9. ASSUME NEW t \in Threads, ReadPolicy(t) PROVE Tracked'
  BY <1>9 DEF ReadPolicy, store, history, cache
<1>10. ASSUME NEW t \in Threads, ReadVersion(t) PROVE Tracked'
  BY <1>10 DEF ReadVersion, Finish, Unlock, store, history, cache
<1>11. ASSUME NEW t \in Threads, Select(t) PROVE Tracked'
  BY <1>11 DEF Select, LocksRow, Conflict, store, history, cache, local
<1>12. ASSUME NEW t \in Threads, SelectConflict(t) PROVE Tracked'
  BY <1>12 DEF SelectConflict, Finish, Unlock, store, history, cache
<1>13. ASSUME NEW t \in Threads, Write(t) PROVE Tracked'
  BY <1>13 DEF Write, Actor, cache
<1>14. ASSUME NEW t \in Threads, TransactionFails(t) PROVE Tracked'
  BY <1>14 DEF TransactionFails, Raise, Finish, ReleaseRow, Unlock, store, history, cache
<1>15. ASSUME NEW t \in Threads, ReadBack(t) PROVE Tracked'
  BY <1>15 DEF ReadBack, store, history, cache
<1>16. ASSUME NEW t \in Threads, ReadBackFails(t) PROVE Tracked'
  BY <1>16 DEF ReadBackFails, Raise, Finish, ReleaseRow, Unlock, store, history, cache
<1>17. ASSUME NEW t \in Threads, Enter(t) PROVE Tracked'
  BY <1>17 DEF Enter, Free, Lock, MustRead, store, history, cache, local
<1>18. ASSUME NEW t \in Threads, Install(t) PROVE Tracked'
  BY <1>18 DEF Install, Free, Lock, StoreRecord, store, history, local
<1>19. ASSUME NEW t \in Threads, Compile(t) PROVE Tracked'
  BY <1>19 DEF Compile, Compiled, Finish, Unlock, store, history
<1>20. ASSUME NEW m \in Managers, Elapse(m) PROVE Tracked'
  BY <1>20 DEF Elapse, store, history, local
<1>21. QED
  BY <1>1, <1>2, <1>3, <1>4, <1>5, <1>6, <1>7, <1>8, <1>9, <1>10,
     <1>11, <1>12, <1>13, <1>14, <1>15, <1>16, <1>17, <1>18,
     <1>19, <1>20 DEF Next, Calling, Locking, Running, Failing

\* Whatever another call stores after a reload has left the lock, it read during the reload
\* or is a publication that installs it.
LEMMA SettledStep == ASSUME IInv, Tracked, Settled, [Next]_vars PROVE Settled'
<1> USE PolicyAssumption, HomeIn DEF IInv, TypeOK, Goto, OpOK, LockOwned, Owns, Tracked, Settled, Confirmed, InGet, Methods
<1>1. CASE UNCHANGED vars
  BY <1>1 DEF vars, store, history, cache, local
<1>2. ASSUME NEW t \in Threads, NEW kind \in {"context", "reload"}, CallGet(t, kind)
      PROVE  Settled'
  BY <1>2 DEF CallGet, store, history, cache
<1>3. ASSUME NEW t \in Threads, NEW d \in Docs, NEW e \in {NoDoc, active},
             CallPublish(t, d, e)
      PROVE  Settled'
  BY <1>3 DEF CallPublish, store, history, cache
<1>4. ASSUME NEW t \in Threads, ReadActive(t) PROVE Settled'
  BY <1>4 DEF ReadActive, store, history, cache
<1>5. ASSUME NEW t \in Threads, ReadFails(t) PROVE Settled'
  BY <1>5 DEF ReadFails, Raise, Finish, ReleaseRow, Unlock, store, history, cache, local
<1>6. ASSUME NEW t \in Threads, Compare(t) PROVE Settled'
  BY <1>6 DEF Compare, Changed, Refreshed, Unlock, store, history
<1>7. ASSUME NEW t \in Threads, SetRecord(t) PROVE Settled'
  BY <1>7 DEF SetRecord, StoreRecord, Refreshed, Unlock, store, history
<1>8. ASSUME NEW t \in Threads, LogLoadedFails(t) PROVE Settled'
  BY <1>8 DEF LogLoadedFails, StoreRecord, Raise, Finish, ReleaseRow, Unlock, store, history
<1>9. ASSUME NEW t \in Threads, ReadPolicy(t) PROVE Settled'
  BY <1>9 DEF ReadPolicy, store, history, cache
<1>10. ASSUME NEW t \in Threads, ReadVersion(t) PROVE Settled'
  BY <1>10 DEF ReadVersion, Finish, Unlock, store, history, cache
<1>11. ASSUME NEW t \in Threads, Select(t) PROVE Settled'
  BY <1>11 DEF Select, LocksRow, Conflict, store, history, cache, local
<1>12. ASSUME NEW t \in Threads, SelectConflict(t) PROVE Settled'
  BY <1>12 DEF SelectConflict, Finish, Unlock, store, history, cache
<1>13. ASSUME NEW t \in Threads, Write(t) PROVE Settled'
  BY <1>13 DEF Write, Actor, cache
<1>14. ASSUME NEW t \in Threads, TransactionFails(t) PROVE Settled'
  BY <1>14 DEF TransactionFails, Raise, Finish, ReleaseRow, Unlock, store, history, cache
<1>15. ASSUME NEW t \in Threads, ReadBack(t) PROVE Settled'
  BY <1>15 DEF ReadBack, store, history, cache
<1>16. ASSUME NEW t \in Threads, ReadBackFails(t) PROVE Settled'
  BY <1>16 DEF ReadBackFails, Raise, Finish, ReleaseRow, Unlock, store, history, cache
<1>17. ASSUME NEW t \in Threads, Enter(t) PROVE Settled'
  BY <1>17 DEF Enter, Free, Lock, MustRead, store, history, cache, local
<1>18. ASSUME NEW t \in Threads, Install(t) PROVE Settled'
  BY <1>18 DEF Install, Free, Lock, StoreRecord, store, history, local
<1>19. ASSUME NEW t \in Threads, Compile(t) PROVE Settled'
  BY <1>19 DEF Compile, Compiled, Finish, Unlock, store, history
<1>20. ASSUME NEW m \in Managers, Elapse(m) PROVE Settled'
  BY <1>20 DEF Elapse, store, history, local
<1>21. QED
  BY <1>1, <1>2, <1>3, <1>4, <1>5, <1>6, <1>7, <1>8, <1>9, <1>10,
     <1>11, <1>12, <1>13, <1>14, <1>15, <1>16, <1>17, <1>18,
     <1>19, <1>20 DEF Next, Calling, Locking, Running, Failing

\* reload() returns from the state in which its thread has left the lock.
LEMMA ReloadStep ==
    ASSUME Settled, NEW t \in Threads, Answers(t)
    PROVE  cached[Home[t]] \in during[t] \cup raced[t]
BY DEF Settled, Answers, Confirmed
-----------------------------------------------------------------------------
\* The invariant holds in every reachable state: one thread per process is inside the
\* critical section, only between its two writes do the cache fields differ, a transaction
\* keeps the row from its check to its writes, and what a reload may answer is confirmed.
THEOREM PolicyInvariant == Spec => [](IInv /\ Tracked /\ Settled)
<1>1. IInv /\ Tracked /\ Settled /\ [Next]_vars => (IInv /\ Tracked /\ Settled)'
  BY TypeStep, OpStep, LockStep, HalfwayStep, CoherentStep, RowStep, TrackedStep, SettledStep DEF IInv
<1>2. QED BY InitIInv, <1>1, PTL DEF Spec

\* Type correctness.
THEOREM PolicyTypeOK == Spec => []TypeOK
<1>1. IInv => TypeOK
  BY DEF IInv
<1>2. QED BY PolicyInvariant, <1>1, PTL

\* A manager whose RLock is free serves the policy of the version it reports, whatever
\* store errors, failed audit writes and publications came before.
THEOREM PolicyCacheCoherent == Spec => []CacheCoherent
<1>1. IInv => CacheCoherent
  <2> SUFFICES ASSUME IInv, NEW m \in Managers, lock[m] = NoThread, policy[m] # cached[m]
               PROVE  FALSE
    BY DEF CacheCoherent
  <2>1. PICK t \in Threads : Home[t] = m /\ pc[t] \in Between
    BY DEF IInv, Coherent
  <2>2. lock[m] = t
    BY <2>1 DEF IInv, LockOwned, Owns, Between, InGet
  <2>3. QED BY <2>2, PolicyAssumption
<1>2. QED BY PolicyInvariant, <1>1, PTL

\* What reload() returns after it has left the lock was active during the call, or was
\* installed during the call by a publication of the same process.
THEOREM PolicyReloadIsCurrent == Spec => ReloadIsCurrent
<1>1. Settled /\ [Next]_vars =>
        [\A t \in Threads : Answers(t) => cached[Home[t]] \in during[t] \cup raced[t]]_vars
  BY ReloadStep
<1>2. QED BY PolicyInvariant, <1>1, PTL DEF Spec, ReloadIsCurrent

\* MySqlPolicyStore.publish(): of any number of publishers in any processes, whose checks
\* and writes interleave, one that named the version it was based on replaces exactly that
\* version.
THEOREM PolicyNoLostUpdate == Spec => NoLostUpdate
<1>1. IInv /\ [Next]_vars =>
        [\A t \in Threads :
            pc[t] = "write" /\ pc'[t] = "readback" /\ arg[t].expected # NoDoc
                => active = arg[t].expected]_vars
  BY DEF IInv, RowHeld
<1>2. QED BY PolicyInvariant, <1>1, PTL DEF Spec, NoLostUpdate
=============================================================================
