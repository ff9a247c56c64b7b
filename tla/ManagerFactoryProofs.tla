------------------------ MODULE ManagerFactoryProofs ------------------------
(* Proofs about ManagerFactory, for every set of threads and of rmIds. *)
EXTENDS ManagerFactory, TLAPS

(* Who is where in ManagerFor decides who holds which lock, and once a     *)
(* writer has drained the readers there are none.                          *)
ReadersInv == \A t \in Threads : t \in readers <=> pc[t] \in {"lookup", "runlock"}

WriterInv ==
    \A t \in Threads : wHolder = t <=> pc[t] \in {"drain", "new", "store", "unlock"}

DrainedInv ==
    \A t \in Threads : pc[t] \in {"new", "store", "unlock"} => readers = {}

LockInv == ReadersInv /\ WriterInv /\ DrainedInv

(* Type correctness of ManagerFor.                                         *)
THEOREM FactoryTypeCorrect == Spec => []TypeOK
  <1>1. Init => TypeOK
    BY DEF Init, TypeOK, Places
  <1>2. TypeOK /\ [Next]_vars => TypeOK'
    <2> SUFFICES ASSUME TypeOK, [Next]_vars PROVE TypeOK'
      OBVIOUS
    <2> USE DEF TypeOK, Places, Step, lock
    <2>1. ASSUME NEW t \in Threads, NEW id \in Ids, ManagerFor(t, id) PROVE TypeOK'
      BY <2>1 DEF ManagerFor
    <2>2. ASSUME NEW t \in Threads, Acquire(t) PROVE TypeOK'
      BY <2>2 DEF Acquire, RLock, Lock
    <2>3. ASSUME NEW t \in Threads, Lookup(t) PROVE TypeOK'
      BY <2>3 DEF Lookup
    <2>4. ASSUME NEW t \in Threads, RUnlock(t) PROVE TypeOK'
      BY <2>4 DEF RUnlock
    <2>5. ASSUME NEW t \in Threads, Drained(t) \/ Unlock(t) PROVE TypeOK'
      BY <2>5 DEF Drained, Unlock
    <2>6. ASSUME NEW t \in Threads, NewResourceManager(t) PROVE TypeOK'
      BY <2>6 DEF NewResourceManager, Managers
    <2>7. ASSUME NEW t \in Threads, Store(t) PROVE pc' \in [Threads -> Places]
      BY <2>7 DEF Store
    <2>8. ASSUME NEW t \in Threads, Store(t) PROVE TypeOK'
      BY <2>8, <2>7 DEF Store
    <2>9. CASE UNCHANGED vars
      BY <2>9 DEF vars
    <2> QED
      BY <2>1, <2>2, <2>3, <2>4, <2>5, <2>6, <2>8, <2>9 DEF Next, Continue
  <1> QED
    BY <1>1, <1>2, PTL DEF Spec

(* The locks are held as the places of the threads say.                    *)
THEOREM LocksHeld == Spec => []LockInv
  <1>1. Init => LockInv
    BY NoneAssumption DEF Init, LockInv, ReadersInv, WriterInv, DrainedInv
  <1>2. TypeOK /\ LockInv /\ [Next]_vars => LockInv'
    <2> SUFFICES ASSUME TypeOK, LockInv, [Next]_vars PROVE LockInv'
      OBVIOUS
    <2> USE NoneAssumption DEF TypeOK, LockInv, ReadersInv, WriterInv, DrainedInv, Step, lock
    <2>1. ASSUME NEW t \in Threads, NEW id \in Ids, ManagerFor(t, id) PROVE LockInv'
      BY <2>1 DEF ManagerFor
    <2>2. ASSUME NEW t \in Threads, RLock(t) PROVE LockInv'
      BY <2>2 DEF RLock
    <2>3. ASSUME NEW t \in Threads, Lookup(t) PROVE LockInv'
      BY <2>3 DEF Lookup
    <2>4. ASSUME NEW t \in Threads, RUnlock(t) PROVE LockInv'
      BY <2>4 DEF RUnlock
    <2>5. ASSUME NEW t \in Threads, Lock(t) PROVE LockInv'
      BY <2>5 DEF Lock
    <2>6. ASSUME NEW t \in Threads, Drained(t) PROVE LockInv'
      BY <2>6 DEF Drained
    <2>7. ASSUME NEW t \in Threads, NewResourceManager(t) PROVE LockInv'
      BY <2>7 DEF NewResourceManager
    <2>8. ASSUME NEW t \in Threads, Store(t) PROVE LockInv'
      BY <2>8 DEF Store
    <2>9. ASSUME NEW t \in Threads, Unlock(t) PROVE LockInv'
      BY <2>9 DEF Unlock
    <2>10. CASE UNCHANGED vars
      BY <2>10 DEF vars
    <2> QED
      BY <2>1, <2>2, <2>3, <2>4, <2>5, <2>6, <2>7, <2>8, <2>9, <2>10
      DEF Next, Acquire, Continue
  <1> QED
    BY <1>1, <1>2, FactoryTypeCorrect, PTL DEF Spec

(* The map of managers is never written while it is read or written.       *)
THEOREM MapRaceFree == Spec => []NoMapRace
  <1>1. LockInv => NoMapRace
    BY DEF LockInv, ReadersInv, WriterInv, DrainedInv, NoMapRace
  <1> QED
    BY <1>1, LocksHeld, PTL

(* However many goroutines call, they never wait for each other: the chain *)
(* from one that waits leads to the writer and from there to a reader, who *)
(* waits for nobody.                                                       *)
THEOREM NobodyDeadlocks == Spec => []NoDeadlock
  <1>1. TypeOK /\ LockInv => NoDeadlock
    <2> SUFFICES ASSUME TypeOK, LockInv, NEW t \in Threads, Waits(t)
                 PROVE  \E u \in Threads : pc[u] # "done" /\ ~Waits(u)
      BY DEF NoDeadlock
    <2>1. \A u \in readers : u \in Threads /\ pc[u] # "done" /\ ~Waits(u)
      BY DEF TypeOK, LockInv, ReadersInv, Waits
    <2>2. CASE readers # {}
      BY <2>1, <2>2
    <2>3. CASE readers = {}
      <3>1. wHolder \in Threads
        BY <2>3 DEF TypeOK, Waits
      <3>2. pc[wHolder] \in {"drain", "new", "store", "unlock"}
        BY <3>1 DEF LockInv, WriterInv
      <3>3. pc[wHolder] # "done" /\ ~Waits(wHolder)
        BY <2>3, <3>2 DEF Waits
      <3> QED
        BY <3>1, <3>3
    <2> QED
      BY <2>2, <2>3
  <1> QED
    BY <1>1, FactoryTypeCorrect, LocksHeld, PTL

(* What the cache holds for an id, and what a thread has in hand, was made *)
(* for that id.                                                            *)
CacheInv ==
    \A i \in Ids : rmCache[i] # None => rmCache[i].id = i

IdInv == CacheInv /\ ManagerIsForItsId

(* A caller gets a manager of the account, region and role it asked for.   *)
THEOREM ManagersMatchIds == Spec => []ManagerIsForItsId
  <1>1. Init => IdInv
    BY DEF Init, IdInv, CacheInv, ManagerIsForItsId
  <1>2. TypeOK /\ IdInv /\ [Next]_vars => IdInv'
    <2> SUFFICES ASSUME TypeOK, IdInv, [Next]_vars PROVE IdInv'
      OBVIOUS
    <2> USE NoneIsNoManager DEF TypeOK, IdInv, CacheInv, ManagerIsForItsId, Step, lock
    <2>1. ASSUME NEW t \in Threads, NEW id \in Ids, ManagerFor(t, id) PROVE IdInv'
      BY <2>1 DEF ManagerFor
    <2>2. ASSUME NEW t \in Threads, Acquire(t) PROVE IdInv'
      BY <2>2 DEF Acquire, RLock, Lock
    <2>3. ASSUME NEW t \in Threads, Lookup(t) PROVE IdInv'
      BY <2>3 DEF Lookup
    <2>4. ASSUME NEW t \in Threads, RUnlock(t) PROVE IdInv'
      BY <2>4 DEF RUnlock
    <2>5. ASSUME NEW t \in Threads, Drained(t) \/ Unlock(t) PROVE IdInv'
      BY <2>5 DEF Drained, Unlock
    <2>6. ASSUME NEW t \in Threads, NewResourceManager(t) PROVE IdInv'
      <3>1. [id |-> rmId[t], by |-> t] \in Managers
        BY DEF Managers
      <3> QED
        BY <3>1, <2>6 DEF NewResourceManager
    <2>7. ASSUME NEW t \in Threads, Store(t) PROVE IdInv'
      BY <2>7 DEF Store
    <2>8. CASE UNCHANGED vars
      BY <2>8 DEF vars
    <2> QED
      BY <2>1, <2>2, <2>3, <2>4, <2>5, <2>6, <2>7, <2>8 DEF Next, Continue
  <1>3. IdInv => ManagerIsForItsId
    BY DEF IdInv
  <1> QED
    BY <1>1, <1>2, <1>3, FactoryTypeCorrect, PTL DEF Spec
=============================================================================
