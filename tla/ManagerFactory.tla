--------------------------- MODULE ManagerFactory ---------------------------
(***************************************************************************)
(* resourceManagerFactory.ManagerFor, called by concurrent reconciliations *)
(* (one factory per kind; reconcile-default-max-concurrent-syncs of them). *)
(* A manager is named by the rmId it was made for and by the call's thread.*)
(***************************************************************************)
CONSTANTS Threads,   \* reconciling goroutines
          Ids,       \* rmIds: account/region/role
          None       \* no map entry, no manager in hand, no lock holder

ASSUME NoneAssumption == None \notin Threads

Managers == [id : Ids, by : Threads]

ASSUME NoneIsNoManager == None \notin Managers

VARIABLES
    rmCache,   \* the map
    readers,   \* the threads that hold the RLock
    wHolder,   \* the thread that holds the RWMutex's inner w, or None
    pc,        \* where each thread is in ManagerFor
    rmId,      \* the rmId of its call
    rm         \* its local variable rm

lock == <<readers, wHolder>>
vars == <<rmCache, lock, pc, rmId, rm>>

Places == {"done", "rlock", "lookup", "runlock", "lock", "drain", "new", "store", "unlock"}

TypeOK ==
    /\ rmCache \in [Ids -> Managers \cup {None}]
    /\ readers \subseteq Threads
    /\ wHolder \in Threads \cup {None}
    /\ pc \in [Threads -> Places]
    /\ rmId \in [Threads -> Ids]
    /\ rm \in [Threads -> Managers \cup {None}]

Init ==
    /\ rmCache = [i \in Ids |-> None]
    /\ readers = {} /\ wHolder = None
    /\ pc = [t \in Threads |-> "done"]
    /\ rmId \in [Threads -> Ids]
    /\ rm = [t \in Threads |-> None]

Step(t, from, to) == pc[t] = from /\ pc' = [pc EXCEPT ![t] = to]

(* Wrong variants: the map looked up under a fixed key; `found` ignored;   *)
(* no RLock; no RUnlock before the early return; no deferred Unlock.       *)
LookupFixedKey(t) ==
    /\ Step(t, "lookup", "runlock")
    /\ rm' = [rm EXCEPT ![t] = rmCache[CHOOSE i \in Ids : TRUE]]
    /\ UNCHANGED <<rmCache, lock, rmId>>

LookupFindsNothing(t) ==
    Step(t, "lookup", "runlock") /\ UNCHANGED <<rmCache, lock, rmId, rm>>

RLockForgotten(t) ==
    Step(t, "rlock", "lookup") /\ UNCHANGED <<rmCache, lock, rmId, rm>>

RUnlockAfterMissOnly(t) ==
    /\ Step(t, "runlock", IF rm[t] # None THEN "done" ELSE "lock")
    /\ readers' = IF rm[t] # None THEN readers ELSE readers \ {t}
    /\ UNCHANGED <<rmCache, wHolder, rmId, rm>>

UnlockForgotten(t) ==
    Step(t, "unlock", "done") /\ UNCHANGED <<rmCache, lock, rmId, rm>>

ManagerFor(t, id) ==
    /\ Step(t, "done", "rlock")
    /\ rmId' = [rmId EXCEPT ![t] = id] /\ rm' = [rm EXCEPT ![t] = None]
    /\ UNCHANGED <<rmCache, lock>>

(* sync.RWMutex: a pending writer keeps new readers out.                   *)
RLock(t) ==
    /\ wHolder = None /\ Step(t, "rlock", "lookup")
    /\ readers' = readers \cup {t}
    /\ UNCHANGED <<rmCache, wHolder, rmId, rm>>

Lookup(t) ==
    /\ Step(t, "lookup", "runlock")
    /\ rm' = [rm EXCEPT ![t] = rmCache[rmId[t]]]
    /\ UNCHANGED <<rmCache, lock, rmId>>

(* f.RUnlock and the test of `found`.                                      *)
RUnlock(t) ==
    /\ Step(t, "runlock", IF rm[t] # None THEN "done" ELSE "lock")
    /\ readers' = readers \ {t}
    /\ UNCHANGED <<rmCache, wHolder, rmId, rm>>

(* f.Lock: first the inner mutex, then the readers that are in must leave. *)
Lock(t) ==
    /\ wHolder = None /\ Step(t, "lock", "drain")
    /\ wHolder' = t
    /\ UNCHANGED <<rmCache, readers, rmId, rm>>

Drained(t) ==
    /\ readers = {} /\ Step(t, "drain", "new")
    /\ UNCHANGED <<rmCache, lock, rmId, rm>>

(* The cache is not looked up again under the lock.                        *)
NewResourceManager(t) ==
    /\ Step(t, "new", "store")
    /\ rm' = [rm EXCEPT ![t] = [id |-> rmId[t], by |-> t]]
    /\ UNCHANGED <<rmCache, lock, rmId>>

Store(t) ==
    /\ Step(t, "store", "unlock")
    /\ rmCache' = [rmCache EXCEPT ![rmId[t]] = rm[t]]
    /\ UNCHANGED <<lock, rmId, rm>>

(* The deferred f.Unlock, then the return.                                 *)
Unlock(t) ==
    /\ Step(t, "unlock", "done")
    /\ wHolder' = None
    /\ UNCHANGED <<rmCache, readers, rmId, rm>>

Acquire(t)  == RLock(t) \/ Lock(t)
Continue(t) == \/ Lookup(t) \/ RUnlock(t) \/ Drained(t)
               \/ NewResourceManager(t) \/ Store(t) \/ Unlock(t)

Next == \E t \in Threads : \/ \E id \in Ids : ManagerFor(t, id)
                           \/ Acquire(t) \/ Continue(t)

Spec == Init /\ [][Next]_vars

(* Goroutines run, and sync.RWMutex starves neither readers nor writers.   *)
FairSpec == Spec /\ \A t \in Threads : WF_vars(Continue(t)) /\ SF_vars(Acquire(t))

-----------------------------------------------------------------------------
(* No thread writes the Go map while another reads or writes it (the       *)
(* runtime would abort the process), for all the gaps between the locks.   *)
NoMapRace ==
    \A t, u \in Threads :
        t # u /\ pc[t] = "store" => pc[u] \notin {"lookup", "store"}

(* A caller never gets a manager of another account, region or role, and   *)
(* none returns empty-handed, however many managers raced for its id.      *)
ManagerIsForItsId ==
    \A t \in Threads :
        /\ pc[t] \in {"store", "unlock"} => rm[t] # None
        /\ rm[t] # None => rm[t].id = rmId[t]

(* Never do all the callers wait for each other: as long as one waits for  *)
(* the lock, another is inside that can go on, or about to leave it.       *)
Waits(t) == \/ pc[t] \in {"rlock", "lock"} /\ wHolder # None
            \/ pc[t] = "drain" /\ readers # {}

NoDeadlock ==
    (\E t \in Threads : Waits(t)) => \E t \in Threads : pc[t] # "done" /\ ~Waits(t)

(* The cache settles: the duplicates of the race are finitely many.        *)
CacheSettles == <>[][UNCHANGED rmCache]_vars

(* Every call returns: nobody waits for the lock for ever.                 *)
EveryCallReturns == \A t \in Threads : pc[t] = "rlock" ~> pc[t] = "done"

(* manager_factory.go:58-60: the rmId "helps us to avoid creating multiple *)
(* resource managers for the same account/region/roleARN combination".     *)
OneManagerPerId ==
    \A t, u \in Threads :
        /\ pc[t] = "done" /\ pc[u] = "done" /\ rm[t] # None /\ rm[u] # None
        /\ rmId[t] = rmId[u]
        => rm[t] = rm[u]
=============================================================================
