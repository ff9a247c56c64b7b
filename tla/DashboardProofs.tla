--------------------------- MODULE DashboardProofs ---------------------------
(* Proofs about Dashboard, for every set of texts, documents and bodies    *)
(* and without the bounds mattering.                                       *)
EXTENDS Dashboard, TLAPS

-----------------------------------------------------------------------------
(* The values of the variables, and what the worker has in hand at each    *)
(* call; the bodies in the CR and in CloudWatch are among those that occur.*)
StoreInv ==
    /\ crState \in {"absent", "live", "deleting"}
    /\ finalizer \in BOOLEAN
    /\ spec \in Bodies
    /\ messages \in Docs \cup {None}
    /\ dashboard \in Stored \cup {None}
    /\ edited \in BOOLEAN /\ interfered \in BOOLEAN /\ unreported \in BOOLEAN
    /\ used \in [{"edits", "outside", "failures", "crashes"} -> Nat]

Held == [body : Bodies, messages : Docs \cup {None}]

WorkerInv ==
    /\ outcome \in {"none", "synced", "recoverable", "terminal", "unmanaged"}
    /\ halted \in BOOLEAN
    /\ pc \in Calls \cup {"idle"}
    /\ path \in {"sync", "delete"}
    /\ pc \in {"manage", "create", "put", "patch"} => path = "sync"
    /\ pc \in {"delete", "unmanage"} => path = "delete"
    /\ IF pc = "idle" THEN desired = None ELSE desired \in Held
    /\ pc \in {"idle", "get", "manage", "create"} => latest = None
    /\ pc \in {"put", "delete"} => latest \in Held
    /\ latest \in Held \cup {None}

TypeInv == StoreInv /\ WorkerInv

LEMMA Constants ==
  /\ None \notin Body /\ None \notin Object /\ None \notin Docs
  /\ Bodies \subseteq Body /\ Held \subseteq Object
  /\ \A b \in Bodies : b.doc \in Docs \cup {NotJson}
  /\ \A b \in Stored : b \in Bodies /\ b.doc # NotJson /\ b.doc \in Docs
  BY NoneAssumption, DocsAssumption, BodiesAssumption DEF Body, Object, Held, Stored

LEMMA UsedType ==
  ASSUME StoreInv, NEW b \in {"edits", "outside", "failures", "crashes"}, Use(b)
  PROVE  used' \in [{"edits", "outside", "failures", "crashes"} -> Nat]
  BY DEF StoreInv, Use

(* A round that ends leaves nothing in hand.                               *)
LEMMA FinishWorker ==
  ASSUME TypeInv, NEW o \in {"synced", "recoverable", "terminal", "unmanaged"}, Finish(o)
  PROVE  WorkerInv'
  BY DEF TypeInv, StoreInv, WorkerInv, Finish, Halts

LEMMA FailsWorker ==
  ASSUME TypeInv, NEW code, Fails(code)
  PROVE  WorkerInv' /\ pc' = "idle"
  BY FinishWorker DEF Fails, Finish

LEMMA TypeInit == Init => TypeInv
  <1> SUFFICES ASSUME Init PROVE TypeInv
    OBVIOUS
  <1>1. used \in [{"edits", "outside", "failures", "crashes"} -> Nat]
    BY DEF Init
  <1>2. StoreInv
    BY <1>1 DEF Init, StoreInv
  <1>3. WorkerInv
    BY DEF Init, WorkerInv
  <1> QED
    BY <1>2, <1>3 DEF TypeInv

(* Who does not touch the worker keeps its part of the invariant.          *)
LEMMA WorkerKept ==
  ASSUME WorkerInv, UNCHANGED worker, outcome' \in {outcome, "none"},
         halted' \in BOOLEAN
  PROVE  WorkerInv'
  BY DEF WorkerInv, worker

LEMMA TypeEnvironment ==
  ASSUME TypeInv, Environment PROVE TypeInv'
  <1> USE DEF cr
  <1>1. ASSUME NEW b \in Bodies, CreateCR(b) \/ EditSpec(b) PROVE TypeInv'
    <2>1. used' \in [{"edits", "outside", "failures", "crashes"} -> Nat]
      BY <1>1, UsedType DEF TypeInv, CreateCR, EditSpec
    <2>2. StoreInv'
      BY <1>1, <2>1 DEF TypeInv, StoreInv, CreateCR, EditSpec
    <2>3. /\ UNCHANGED worker /\ outcome' \in {outcome, "none"}
          /\ halted' \in BOOLEAN
      BY <1>1 DEF CreateCR, EditSpec
    <2> QED
      BY <2>2, <2>3, WorkerKept DEF TypeInv
  <1>2. CASE DeleteCR
    <2>1. StoreInv'
      BY <1>2 DEF TypeInv, StoreInv, DeleteCR
    <2>2. UNCHANGED <<worker, outcome>> /\ halted' \in BOOLEAN
      BY <1>2 DEF DeleteCR
    <2> QED
      BY <2>1, <2>2, WorkerKept DEF TypeInv
  <1>3. ASSUME NEW b \in Stored \cup {None}, OutsideChange(b) PROVE TypeInv'
    <2>1. used' \in [{"edits", "outside", "failures", "crashes"} -> Nat]
      BY <1>3, UsedType DEF TypeInv, OutsideChange
    <2>2. StoreInv'
      BY <1>3, <2>1 DEF TypeInv, StoreInv, OutsideChange
    <2>3. UNCHANGED <<worker, outcome, halted>> /\ halted \in BOOLEAN
      BY <1>3 DEF OutsideChange, TypeInv, WorkerInv
    <2> QED
      BY <2>2, <2>3, WorkerKept DEF TypeInv
  <1>4. CASE Crash
    <2>1. used' \in [{"edits", "outside", "failures", "crashes"} -> Nat]
      BY <1>4, UsedType DEF TypeInv, Crash
    <2>2. StoreInv'
      BY <1>4, <2>1 DEF TypeInv, StoreInv, Crash
    <2>3. WorkerInv'
      BY <1>4 DEF TypeInv, WorkerInv, Crash
    <2> QED
      BY <2>2, <2>3 DEF TypeInv
  <1> QED
    BY <1>1, <1>2, <1>3, <1>4 DEF Environment

(* The steps of the worker, by what they leave of the CR and in CloudWatch.*)
LEMMA AppliedStore ==
  ASSUME StoreInv, Applied PROVE dashboard' \in Stored /\ unreported' \in BOOLEAN
  BY DEF Applied

LEMMA WarningsType ==
  ASSUME NEW b \in Bodies PROVE Warnings(b) \in Docs \cup {None}
  BY DocsAssumption DEF Warnings

LEMMA AnsweredWorker ==
  ASSUME TypeInv, pc \in {"create", "put"}, Answered PROVE WorkerInv'
  <1>1. desired \in Held /\ path = "sync"
    BY DEF TypeInv, WorkerInv
  <1>2. desired.body \in Bodies
    BY <1>1 DEF Held
  <1>3. desired' \in Held
    BY <1>1, <1>2, WarningsType DEF Answered, AnswerMessages, Held
  <1> QED
    BY <1>1, <1>3 DEF Answered, TypeInv, WorkerInv, Calls

LEMMA TypeWorker ==
  ASSUME TypeInv, Worker PROVE TypeInv'
  <1> USE DEF cr, worker
  <1>0. Failing => used' \in [{"edits", "outside", "failures", "crashes"} -> Nat]
    BY UsedType DEF TypeInv, Failing
  <1>1. CASE Begin
    <2>1. [body |-> spec, messages |-> messages] \in Held
      BY DEF TypeInv, StoreInv, Held
    <2> QED
      BY <1>1, <2>1 DEF TypeInv, StoreInv, WorkerInv, Begin, Calls
  <1>2. CASE GetDashboard
    <2>1. StoreInv'
      BY <1>0, <1>2 DEF TypeInv, StoreInv, GetDashboard
    <2>2. CASE dashboard # None /\ ~finalizer /\ Finish("unmanaged")
      BY <2>1, <2>2, FinishWorker DEF TypeInv
    <2>3. CASE Fails("Throttling")
      BY <2>1, <2>3, FailsWorker DEF TypeInv
    <2>4. CASE Goto(IF path = "delete" THEN "unmanage" ELSE "manage")
      BY <1>2, <2>1, <2>4 DEF TypeInv, WorkerInv, GetDashboard, Goto, Calls
    <2>5. CASE /\ dashboard # None /\ latest' = [desired EXCEPT !.body = dashboard]
               /\ pc' = CASE path = "delete" -> "delete"
                          [] path = "sync" -> IF Delta(desired, latest') THEN "put" ELSE "patch"
               /\ UNCHANGED <<path, desired, outcome, halted>>
      <3>1. desired \in Held /\ dashboard \in Bodies /\ path \in {"sync", "delete"}
        BY <1>2, <2>5, Constants DEF TypeInv, StoreInv, WorkerInv, GetDashboard
      <3>2. latest' \in Held
        BY <2>5, <3>1 DEF Held
      <3>3. path = "delete" => pc' = "delete"
        BY <2>5
      <3>4. path = "sync" => pc' \in {"put", "patch"}
        BY <2>5
      <3> QED
        BY <2>1, <2>5, <3>1, <3>2, <3>3, <3>4 DEF TypeInv, WorkerInv, Calls
    <2> QED
      BY <1>2, <2>2, <2>3, <2>4, <2>5 DEF GetDashboard
  <1>3. CASE Manage
    <2>1. StoreInv'
      BY <1>0, <1>3 DEF TypeInv, StoreInv, Manage
    <2>2. CASE Finish("recoverable")
      BY <2>1, <2>2, FinishWorker DEF TypeInv
    <2>3. CASE Goto("create")
      BY <1>3, <2>1, <2>3 DEF TypeInv, WorkerInv, Manage, Goto, Calls
    <2> QED
      BY <1>3, <2>2, <2>3 DEF Manage
  <1>4. CASE Create
    <2>1. ASSUME NEW code, CreateFails(code), UNCHANGED <<dashboard, unreported>> \/ Applied
          PROVE  TypeInv'
      <3>1. WorkerInv' /\ (UNCHANGED <<crState, finalizer>>
                           \/ (finalizer' = FALSE /\ crState' \in {crState, "absent"}))
        BY <2>1, FailsWorker DEF CreateFails
      <3>2. StoreInv'
        BY <1>0, <1>4, <2>1, <3>1, AppliedStore DEF Create, TypeInv, StoreInv
      <3> QED
        BY <3>1, <3>2 DEF TypeInv
    <2>2. CASE Answered /\ UNCHANGED <<crState, finalizer, used>>
      <3>1. StoreInv'
        BY <1>4, <2>2, AppliedStore DEF Create, Answered, TypeInv, StoreInv
      <3> QED
        BY <1>4, <2>2, <3>1, AnsweredWorker DEF Create, TypeInv
    <2> QED
      BY <1>4, <2>1, <2>2 DEF Create
  <1>5. CASE Update
    <2>1. ASSUME NEW code, Fails(code), UNCHANGED <<dashboard, unreported>> \/ Applied
          PROVE  TypeInv'
      <3>1. StoreInv'
        BY <1>0, <1>5, <2>1, AppliedStore DEF Update, TypeInv, StoreInv
      <3> QED
        BY <2>1, <3>1, FailsWorker DEF TypeInv
    <2>2. CASE Answered /\ UNCHANGED used
      <3>1. StoreInv'
        BY <1>5, <2>2, AppliedStore DEF Update, Answered, TypeInv, StoreInv
      <3> QED
        BY <1>5, <2>2, <3>1, AnsweredWorker DEF Update, TypeInv
    <2> QED
      BY <1>5, <2>1, <2>2 DEF Update
  <1>6. CASE PatchStatus
    <2>1. \E o \in {"synced", "recoverable"} : Finish(o)
      BY <1>6 DEF PatchStatus
    <2>2. WorkerInv'
      BY <2>1, FinishWorker
    <2>3. desired.messages \in Docs \cup {None}
          /\ (latest # None => latest.messages \in Docs \cup {None})
      BY <1>6 DEF TypeInv, WorkerInv, PatchStatus, Held
    <2>4. messages' \in Docs \cup {None} /\ unreported' \in BOOLEAN
      BY <1>6, <2>3 DEF PatchStatus, TypeInv, StoreInv
    <2>5. StoreInv'
      BY <1>0, <1>6, <2>4 DEF PatchStatus, TypeInv, StoreInv
    <2> QED
      BY <2>2, <2>5 DEF TypeInv
  <1>7. CASE Delete
    <2>1. StoreInv'
      BY <1>0, <1>7 DEF TypeInv, StoreInv, Delete
    <2>2. ASSUME NEW code, Fails(code) PROVE TypeInv'
      BY <2>1, <2>2, FailsWorker DEF TypeInv
    <2>3. CASE Goto("unmanage")
      BY <1>7, <2>1, <2>3 DEF TypeInv, WorkerInv, Delete, Goto, Calls
    <2> QED
      BY <1>7, <2>2, <2>3 DEF Delete
  <1>8. CASE Unmanage
    <2>1. StoreInv'
      BY <1>0, <1>8 DEF TypeInv, StoreInv, Unmanage
    <2>2. \E o \in {"synced", "recoverable"} : Finish(o)
      BY <1>8 DEF Unmanage
    <2> QED
      BY <2>1, <2>2, FinishWorker DEF TypeInv
  <1> QED
    BY <1>1, <1>2, <1>3, <1>4, <1>5, <1>6, <1>7, <1>8 DEF Worker

LEMMA TypeNext == TypeInv /\ [Next]_vars => TypeInv'
  <1>1. TypeInv /\ UNCHANGED vars => TypeInv'
    BY DEF vars, cr, worker, TypeInv, StoreInv, WorkerInv
  <1> QED
    BY <1>1, TypeEnvironment, TypeWorker DEF Next

LEMMA Typed == Spec => []TypeInv
  BY TypeInit, TypeNext, PTL DEF Spec

(* Every variable keeps its type, whatever the texts and documents are.    *)
THEOREM DashboardTypeCorrect == Spec => []TypeOK
  <1>1. TypeInv => TypeOK
    BY Constants DEF TypeInv, StoreInv, WorkerInv, TypeOK, Held, Stored, Object
  <1> QED
    BY <1>1, Typed, PTL

-----------------------------------------------------------------------------
(* What the finalizer stands for: it is on no CR that is gone, on every CR *)
(* that waits for its deletion, and on whatever the worker writes for.     *)
DutyInv ==
    /\ finalizer => crState # "absent"
    /\ crState = "deleting" => finalizer
    /\ pc \in {"create", "put", "patch", "delete"} => finalizer
    /\ latest # None => finalizer
    /\ pc # "idle" /\ path = "delete" => crState = "deleting"

LEMMA DutyNext == TypeInv /\ DutyInv /\ [Next]_vars => DutyInv'
  <1> SUFFICES ASSUME TypeInv, DutyInv, [Next]_vars PROVE DutyInv'
    OBVIOUS
  <1> USE DEF cr, worker
  <1>0. ASSUME pc' = "idle", latest' = None,
               \/ UNCHANGED <<crState, finalizer>>
               \/ /\ finalizer' = FALSE
                  /\ crState' = IF crState = "deleting" THEN "absent" ELSE crState
               \/ finalizer' = FALSE /\ crState' = "absent"
        PROVE  DutyInv'
    BY <1>0 DEF DutyInv
  <1>1. CASE Environment
    BY <1>1 DEF Environment, CreateCR, EditSpec, DeleteCR, OutsideChange, Crash,
                DutyInv, TypeInv, WorkerInv
  <1>2. CASE Begin
    BY <1>2 DEF Begin, DutyInv, TypeInv, WorkerInv
  <1>3. CASE GetDashboard
    <2>1. CASE pc' = "idle" /\ latest' = None
      BY <1>0, <1>3, <2>1 DEF GetDashboard
    <2>2. CASE Goto(IF path = "delete" THEN "unmanage" ELSE "manage")
      BY <1>3, <2>2 DEF GetDashboard, Goto, DutyInv, TypeInv, WorkerInv
    <2>3. CASE finalizer /\ pc' # "idle" /\ UNCHANGED path
      BY <1>3, <2>3 DEF GetDashboard, DutyInv
    <2>4. path \in {"sync", "delete"}
      BY DEF TypeInv, WorkerInv
    <2> QED
      BY <1>3, <2>1, <2>2, <2>3, <2>4 DEF GetDashboard, Finish, Fails
  <1>4. CASE Manage
    BY <1>0, <1>4 DEF Manage, Finish, Goto, DutyInv, TypeInv, WorkerInv
  <1>5. CASE Create
    BY <1>0, <1>5 DEF Create, CreateFails, Fails, Finish, Answered, DutyInv
  <1>6. CASE Update
    BY <1>0, <1>6 DEF Update, Fails, Finish, Answered, DutyInv
  <1>7. CASE PatchStatus
    BY <1>0, <1>7 DEF PatchStatus, Finish
  <1>8. CASE Delete
    BY <1>0, <1>8 DEF Delete, Fails, Finish, Goto, DutyInv
  <1>9. CASE Unmanage
    BY <1>0, <1>9 DEF Unmanage, Finish
  <1>10. CASE UNCHANGED vars
    BY <1>10 DEF vars, DutyInv
  <1> QED
    BY <1>1, <1>2, <1>3, <1>4, <1>5, <1>6, <1>7, <1>8, <1>9, <1>10 DEF Next, Worker

LEMMA OnDuty == Spec => []DutyInv
  <1>1. Init => DutyInv
    BY DEF Init, DutyInv
  <1> QED
    BY <1>1, DutyNext, Typed, PTL DEF Spec

-----------------------------------------------------------------------------
(* A round for which there was no dashboard goes on as if there were none;    *)
(* unless others made one since, there is none.                            *)
AbsentInv == pc \in {"manage", "create", "unmanage"} /\ ~interfered => dashboard = None

LEMMA AbsentNext == TypeInv /\ AbsentInv /\ [Next]_vars => AbsentInv'
  <1> SUFFICES ASSUME TypeInv, AbsentInv, [Next]_vars PROVE AbsentInv'
    OBVIOUS
  <1> USE DEF cr, worker
  <1>1. CASE Environment
    BY <1>1 DEF Environment, CreateCR, EditSpec, DeleteCR, OutsideChange, Crash,
                AbsentInv
  <1>2. CASE Begin
    BY <1>2 DEF Begin, AbsentInv
  <1>4. CASE GetDashboard
    BY <1>4 DEF GetDashboard, Goto, Finish, Fails, AbsentInv, TypeInv, WorkerInv
  <1>5. CASE Manage
    BY <1>5 DEF Manage, Goto, Finish, Fails, AbsentInv
  <1>6. CASE Create
    BY <1>6 DEF Create, CreateFails, Answered, Finish, Fails, AbsentInv
  <1>7. CASE Update
    BY <1>7 DEF Update, Answered, Finish, Fails, AbsentInv
  <1>8. CASE PatchStatus
    BY <1>8 DEF PatchStatus, Finish, Fails, AbsentInv
  <1>9. CASE Delete
    BY <1>9 DEF Delete, Goto, Finish, Fails, AbsentInv
  <1>10. CASE Unmanage
    BY <1>10 DEF Unmanage, Finish, Fails, AbsentInv
  <1>11. CASE UNCHANGED vars
    BY <1>11 DEF vars, AbsentInv
  <1> QED
    BY <1>1, <1>2, <1>4, <1>5, <1>6, <1>7, <1>8, <1>9, <1>10, <1>11 DEF Next, Worker

(* The controller's finalizer comes before the dashboard it makes and goes *)
(* after it: MarkManaged and MarkUnmanaged find none.                      *)
THEOREM DashboardFinalizerGoesLast == Spec => FinalizerGoesLast
  <1>1. Init => AbsentInv
    BY DEF Init, AbsentInv
  <1>2. AbsentInv /\ [Next]_vars =>
          [(Worker /\ finalizer' # finalizer) \/ Create => interfered \/ dashboard = None]_vars
    <2> SUFFICES ASSUME AbsentInv, (Worker /\ finalizer' # finalizer) \/ Create
                 PROVE  interfered \/ dashboard = None
      OBVIOUS
    <2>1. Manage \/ Create \/ Unmanage
      BY DEF Worker, Begin, GetDashboard, Update, PatchStatus, Delete, cr
    <2> QED
      BY <2>1 DEF Manage, Create, Unmanage, AbsentInv
  <1> QED
    BY <1>1, <1>2, AbsentNext, Typed, PTL DEF Spec, FinalizerGoesLast

-----------------------------------------------------------------------------
(* Bodies that are not found to differ hold one document.                  *)
LEMMA EqualDocs ==
  ASSUME NEW d \in Held, NEW l \in Held, l.body \in Stored, ~Delta(d, l)
  PROVE  d.body.doc = l.body.doc
  <1>1. d.body \in Bodies /\ l.body \in Bodies /\ l.body.doc # NotJson
    BY Constants DEF Held
  <1>2. CASE d.body.doc = NotJson
    BY <1>1, <1>2, TextsAssumption DEF Delta
  <1>3. CASE d.body.doc # NotJson
    BY <1>1, <1>3 DEF Delta
  <1> QED
    BY <1>2, <1>3

(* What an answer changes in the object: the messages only.                *)
LEMMA AnswerEffect ==
  ASSUME NEW o \in Held
  PROVE  /\ AnswerMessages(o).body = o.body
         /\ AnswerMessages(o).messages = Warnings(o.body)
  BY DEF AnswerMessages, Held

LEMMA SuccessNext ==
  TypeInv /\ SuccessMeansApplied /\ [Next]_vars => SuccessMeansApplied'
  <1> SUFFICES ASSUME TypeInv, SuccessMeansApplied, [Next]_vars, pc' = "patch", ~interfered'
               PROVE  dashboard' # None /\ dashboard'.doc = desired'.body.doc
    BY DEF SuccessMeansApplied
  <1> USE DEF cr, worker
  <1>1. CASE Environment
    BY <1>1 DEF Environment, CreateCR, EditSpec, DeleteCR, OutsideChange, Crash,
                SuccessMeansApplied
  <1>2. CASE GetDashboard
    <2>1. /\ pc = "get" /\ dashboard # None /\ UNCHANGED <<desired, dashboard>>
          /\ latest' = [desired EXCEPT !.body = dashboard]
          /\ path = "sync" /\ ~Delta(desired, latest')
      <3>1. path \in {"sync", "delete"}
        BY DEF TypeInv, WorkerInv
      <3> QED
        BY <1>2, <3>1 DEF GetDashboard, Finish, Fails, Goto
    <2>2. desired \in Held /\ dashboard \in Stored /\ dashboard \in Bodies
      BY <2>1, Constants DEF TypeInv, StoreInv, WorkerInv
    <2>3. latest' \in Held /\ latest'.body = dashboard
      BY <2>1, <2>2 DEF Held
    <2> QED
      BY <2>1, <2>2, <2>3, EqualDocs
  <1>3. CASE (Create \/ Update) /\ Answered
    <2>1. desired \in Held
      BY <1>3 DEF Create, Update, TypeInv, WorkerInv
    <2>2. desired'.body = desired.body
      BY <1>3, <2>1, AnswerEffect DEF Answered
    <2>3. dashboard' \in Stored /\ dashboard'.doc = desired.body.doc
      BY <1>3 DEF Answered, Applied
    <2> QED
      BY <2>2, <2>3, Constants DEF Stored
  <1>4. CASE (Create \/ Update) /\ pc' = "idle"
    BY <1>4
  <1>5. CASE Begin \/ Manage \/ PatchStatus \/ Delete \/ Unmanage
    BY <1>5 DEF Begin, Manage, PatchStatus, Delete, Unmanage, Goto, Finish, Fails
  <1>6. CASE UNCHANGED vars
    BY <1>6 DEF vars, SuccessMeansApplied
  <1>7. Create => Answered \/ pc' = "idle"
    BY DEF Create, CreateFails, Fails, Finish
  <1>8. Update => Answered \/ pc' = "idle"
    BY DEF Update, Fails, Finish
  <1> QED
    BY <1>1, <1>2, <1>3, <1>4, <1>5, <1>6, <1>7, <1>8 DEF Next, Worker

(* A reconciliation about to report success left in CloudWatch the document*)
(* asked for, unless others touched the dashboard meanwhile.               *)
THEOREM DashboardSuccessIsApplied == Spec => []SuccessMeansApplied
  <1>1. Init => SuccessMeansApplied
    BY DEF Init, SuccessMeansApplied
  <1> QED
    BY <1>1, SuccessNext, Typed, PTL DEF Spec

-----------------------------------------------------------------------------
(* As long as nobody edits the CR, the worker's copy is what it says.      *)
CopyInv ==
    pc # "idle" /\ ~edited =>
        desired.body = spec /\ (path = "sync" => crState = "live")

LEMMA CopyNext == TypeInv /\ CopyInv /\ [Next]_vars => CopyInv'
  <1> SUFFICES ASSUME TypeInv, CopyInv, [Next]_vars PROVE CopyInv'
    OBVIOUS
  <1> USE DEF CopyInv, cr, worker
  <1>1. CASE Environment
    BY <1>1 DEF Environment, CreateCR, EditSpec, DeleteCR, OutsideChange, Crash
  <1>2. CASE Begin
    BY <1>2 DEF Begin, TypeInv, StoreInv
  <1>3. CASE (Create \/ Update) /\ Answered
    <2>1. desired'.body = desired.body
      BY <1>3, AnswerEffect DEF Create, Update, Answered, TypeInv, WorkerInv
    <2>2. pc # "idle" /\ UNCHANGED <<spec, edited, path>>
      BY <1>3 DEF Create, Update, Answered
    <2>3. pc' = "patch"
      BY <1>3 DEF Answered
    <2>4. crState' = crState
      BY <1>3, <2>3 DEF Create, CreateFails, Update, Fails, Finish
    <2> QED
      BY <2>1, <2>2, <2>4
  <1>4. CASE Worker /\ pc' = "idle"
    BY <1>4
  <1>5. CASE GetDashboard \/ Manage \/ PatchStatus \/ Delete \/ Unmanage
    BY <1>5 DEF GetDashboard, Manage, PatchStatus, Delete, Unmanage, Goto, Finish, Fails
  <1>6. CASE UNCHANGED vars
    BY <1>6 DEF vars
  <1>7. Create => Answered \/ pc' = "idle"
    BY DEF Create, CreateFails, Fails, Finish
  <1>8. Update => Answered \/ pc' = "idle"
    BY DEF Update, Fails, Finish
  <1> QED
    BY <1>1, <1>2, <1>3, <1>4, <1>5, <1>6, <1>7, <1>8 DEF Next, Worker

(* What terminal errors are about.  The outcome of a round is open while   *)
(* it lasts, and only a refused body ends one terminally.                  *)
TerminalInv == TerminalIsCurrent /\ (pc # "idle" => outcome = "none")

LEMMA TerminalEnd ==
  ASSUME TerminalInv, pc # "idle", UNCHANGED spec, NEW o, Finish(o),
         o = "terminal" /\ ~edited => Refused(spec)
  PROVE  TerminalInv'
  <1>1. outcome' \in {outcome, o} /\ outcome # "terminal" /\ pc' = "idle"
    BY DEF Finish, TerminalInv
  <1>2. halted' => ~edited
    BY DEF Finish, Halts
  <1> QED
    BY <1>1, <1>2 DEF TerminalInv, TerminalIsCurrent, Refused

LEMMA TerminalNext == TypeInv /\ CopyInv /\ TerminalInv /\ [Next]_vars => TerminalInv'
  <1> SUFFICES ASSUME TypeInv, CopyInv, TerminalInv, [Next]_vars PROVE TerminalInv'
    OBVIOUS
  <1> USE DEF cr, worker
  <1>1. CASE Environment
    BY <1>1 DEF Environment, CreateCR, EditSpec, DeleteCR, OutsideChange, Crash,
                TerminalInv, TerminalIsCurrent
  <1>2. CASE Begin
    BY <1>2 DEF Begin, TerminalInv, TerminalIsCurrent
  <1>3. ASSUME pc # "idle", UNCHANGED <<spec, outcome, halted>> PROVE TerminalInv'
    BY <1>3 DEF TerminalInv, TerminalIsCurrent
  <1>4. ASSUME pc # "idle", UNCHANGED spec, NEW code, Fails(code),
               TerminalAWSError(code) => Refused(desired.body)
        PROVE  TerminalInv'
    <2>1. ~edited => desired.body = spec
      BY <1>4 DEF CopyInv
    <2>2. \E o \in {"terminal", "recoverable"} :
            Finish(o) /\ (o = "terminal" => TerminalAWSError(code))
      BY <1>4 DEF Fails
    <2> QED
      BY <1>4, <2>1, <2>2, TerminalEnd
  <1>5. ~TerminalAWSError("Throttling") /\ ~TerminalAWSError("ResourceNotFound")
    BY DEF TerminalAWSError
  <1>6. ASSUME NEW o \in {"synced", "recoverable", "unmanaged"}, Finish(o), pc # "idle",
               UNCHANGED spec
        PROVE  TerminalInv'
    BY <1>6, TerminalEnd
  <1>7. CASE GetDashboard
    BY <1>3, <1>4, <1>5, <1>6, <1>7 DEF GetDashboard, Goto
  <1>8. CASE Manage
    BY <1>3, <1>6, <1>8 DEF Manage, Goto
  <1>9. CASE Create
    <2>1. pc # "idle" /\ UNCHANGED spec
      BY <1>9 DEF Create
    <2>2. \/ UNCHANGED <<outcome, halted>> \/ Fails("Throttling")
          \/ Refused(desired.body) /\ Fails("InvalidParameterInput")
      BY <1>9 DEF Create, Answered, CreateFails
    <2> QED
      BY <1>3, <1>4, <1>5, <2>1, <2>2
  <1>10. CASE Update
    <2>1. pc # "idle" /\ UNCHANGED spec
      BY <1>10 DEF Update
    <2>2. \/ UNCHANGED <<outcome, halted>> \/ Fails("Throttling")
          \/ Refused(desired.body) /\ Fails("InvalidParameterInput")
      BY <1>10 DEF Update, Answered
    <2> QED
      BY <1>3, <1>4, <1>5, <2>1, <2>2
  <1>11. CASE PatchStatus \/ Unmanage
    BY <1>6, <1>11 DEF PatchStatus, Unmanage
  <1>12. CASE Delete
    BY <1>3, <1>4, <1>5, <1>12 DEF Delete, Goto
  <1>13. CASE UNCHANGED vars
    BY <1>13 DEF vars, TerminalInv, TerminalIsCurrent
  <1> QED
    BY <1>1, <1>2, <1>7, <1>8, <1>9, <1>10, <1>11, <1>12, <1>13 DEF Next, Worker

(* The controller never leaves alone, with a terminal error, a CR whose    *)
(* body has been corrected, whenever the correction comes.                 *)
THEOREM TerminalBodiesAreCurrent == Spec => []TerminalIsCurrent
  <1>1. Init => CopyInv /\ TerminalInv
    BY DEF Init, CopyInv, TerminalInv, TerminalIsCurrent
  <1>2. TerminalInv => TerminalIsCurrent
    BY DEF TerminalInv
  <1> QED
    BY <1>1, <1>2, CopyNext, TerminalNext, Typed, PTL DEF Spec

LEMMA SettledByRound ==
  ASSUME TypeInv, DutyInv, CopyInv, SuccessMeansApplied, PatchStatus, ~edited, ~interfered
  PROVE  Settled'
  <1>1. pc' = "idle" /\ UNCHANGED <<cr, dashboard>>
    BY DEF PatchStatus, Finish, cr
  <1>2. /\ pc = "patch" /\ path = "sync" /\ finalizer
        /\ crState = "live" /\ desired.body = spec
        /\ dashboard # None /\ dashboard.doc = desired.body.doc
    BY DEF PatchStatus, TypeInv, WorkerInv, DutyInv, CopyInv, SuccessMeansApplied
  <1> QED
    BY <1>1, <1>2 DEF Settled, cr

LEMMA SettledByWorker ==
  ASSUME TypeInv, Worker, Settled
  PROVE  Settled' /\ UNCHANGED <<cr, dashboard>>
  <1> USE DEF Settled, cr
  <1>1. CASE Begin
    BY <1>1 DEF Begin
  <1>2. CASE GetDashboard
    <2>1. pc = "get" /\ path = "sync" /\ UNCHANGED <<cr, dashboard>>
      BY <1>2 DEF GetDashboard
    <2>2. desired \in Held /\ dashboard \in Stored /\ spec \in Bodies
      BY <2>1 DEF TypeInv, StoreInv, WorkerInv
    <2>3. ~Delta(desired, [desired EXCEPT !.body = dashboard])
      BY <2>1, <2>2 DEF Delta, Held, Stored
    <2> QED
      BY <1>2, <2>1, <2>3 DEF GetDashboard, Finish, Fails
  <1>3. CASE PatchStatus
    BY <1>3 DEF PatchStatus, Finish
  <1>4. CASE Manage \/ Create \/ Update \/ Delete \/ Unmanage
    BY <1>4 DEF Manage, Create, Update, Delete, Unmanage
  <1> QED
    BY <1>1, <1>2, <1>3, <1>4 DEF Worker

(* The safety half of EventuallyConverges and EventuallyQuiet: nothing that*)
(* the worker itself does ends what they say.                              *)
THEOREM DashboardStaysSettled == Spec => StaysSettled
  <1>1. Init => CopyInv
    BY DEF Init, CopyInv
  <1>2. TypeInv /\ DutyInv /\ CopyInv /\ SuccessMeansApplied /\ [Next]_vars =>
          [/\ PatchStatus /\ ~edited /\ ~interfered => Settled'
           /\ Worker /\ Settled => Settled' /\ UNCHANGED dashboard]_vars
    BY SettledByRound, SettledByWorker
  <1> QED
    BY <1>1, <1>2, CopyNext, Typed, OnDuty, DashboardSuccessIsApplied, PTL
    DEF Spec, StaysSettled

-----------------------------------------------------------------------------
(* Where the messages stand at each call.  `unreported` is taken back only *)
(* by a patch that carries the messages of what is in CloudWatch; the rest *)
(* says that a patch which carries those of ReadOne changes nothing.       *)
NothingUnreported == dashboard = None \/ unreported

MessagesInv ==
    /\ interfered => unreported
    /\ NothingUnreported \/ (finalizer /\ messages = Warnings(dashboard))
    /\ pc \in {"manage", "create", "unmanage"} => NothingUnreported
    /\ pc = "get" /\ finalizer => desired.messages = messages
    /\ latest # None => latest.messages = messages
    /\ pc = "patch" /\ (latest = None \/ Delta(desired, latest)) =>
          desired.messages = Warnings(desired.body)
    /\ pc # "idle" => outcome = "none" /\ (~edited => desired.body = spec)

FullInv == TypeInv /\ DutyInv /\ SuccessMeansApplied /\ MessagesInv /\ MessagesAreOfTheBody

(* A round that ends in an error and leaves the status.                    *)
LEMMA ErrorMessages ==
  ASSUME FullInv, NEW o \in {"recoverable", "terminal", "unmanaged"}, Finish(o), pc # "idle",
         UNCHANGED <<messages, interfered>>, unreported' \in {unreported, TRUE},
         \/ UNCHANGED dashboard \/ dashboard' = None \/ unreported',
         finalizer' = finalizer \/ NothingUnreported
  PROVE  MessagesInv' /\ MessagesAreOfTheBody'
  <1>1. NothingUnreported => NothingUnreported'
    BY DEF NothingUnreported, FullInv, TypeInv, StoreInv
  <1>2. unreported' = TRUE => NothingUnreported'
    BY DEF NothingUnreported
  <1>3. pc' = "idle" /\ latest' = None /\ outcome' # "synced"
    BY DEF FullInv, MessagesInv, Finish
  <1>4. NothingUnreported' \/ (finalizer' /\ messages' = Warnings(dashboard'))
    BY <1>1, <1>2 DEF NothingUnreported, FullInv, MessagesInv, Warnings
  <1> QED
    BY <1>3, <1>4 DEF FullInv, MessagesInv, MessagesAreOfTheBody, TypeInv, StoreInv

LEMMA MessagesEnvironment ==
  ASSUME FullInv, Environment PROVE MessagesInv' /\ MessagesAreOfTheBody'
  <1> USE DEF cr, worker, FullInv
  <1>1. ASSUME NEW b \in Bodies, CreateCR(b) PROVE MessagesInv' /\ MessagesAreOfTheBody'
    BY <1>1 DEF CreateCR, DutyInv, MessagesInv, MessagesAreOfTheBody, NothingUnreported, Warnings, Delta
  <1>2. ASSUME NEW b \in Bodies, EditSpec(b) PROVE MessagesInv' /\ MessagesAreOfTheBody'
    BY <1>2 DEF EditSpec, MessagesInv, MessagesAreOfTheBody, NothingUnreported, Warnings, Delta
  <1>3. ASSUME DeleteCR PROVE MessagesInv' /\ MessagesAreOfTheBody'
    BY <1>3 DEF DeleteCR, MessagesInv, MessagesAreOfTheBody, NothingUnreported, Warnings, Delta
  <1>4. ASSUME NEW b \in Stored \cup {None}, OutsideChange(b)
        PROVE  MessagesInv' /\ MessagesAreOfTheBody'
    BY <1>4 DEF OutsideChange, MessagesInv, MessagesAreOfTheBody, NothingUnreported, Delta, Warnings
  <1>5. ASSUME Crash PROVE MessagesInv' /\ MessagesAreOfTheBody'
    <2>1. pc # "idle" => outcome' = "none"
      BY <1>5 DEF Crash, MessagesInv
    <2>2. MessagesAreOfTheBody'
      BY <1>5, <2>1 DEF Crash, MessagesAreOfTheBody, Warnings
    <2> QED
      BY <1>5, <2>2 DEF Crash, MessagesInv, NothingUnreported, Warnings
  <1> QED
    BY <1>1, <1>2, <1>3, <1>4, <1>5 DEF Environment

LEMMA MessagesWorker ==
  ASSUME FullInv, Worker PROVE MessagesInv' /\ MessagesAreOfTheBody'
  <1> USE DEF cr, worker, FullInv
  <1>0. /\ unreported \in BOOLEAN /\ interfered \in BOOLEAN
        /\ pc # "idle" => desired \in Held
    BY DEF TypeInv, StoreInv, WorkerInv
  <1>1. CASE Begin
    BY <1>1 DEF Begin, TypeInv, WorkerInv, MessagesInv, MessagesAreOfTheBody,
                NothingUnreported, Warnings
  <1>2. CASE GetDashboard
    <2>1. ASSUME NEW o \in {"recoverable", "terminal", "unmanaged"}, Finish(o)
          PROVE  MessagesInv' /\ MessagesAreOfTheBody'
      BY <1>0, <1>2, <2>1, ErrorMessages DEF GetDashboard
    <2>2. CASE Fails("Throttling")
      BY <2>1, <2>2 DEF Fails
    <2>3. CASE dashboard = None /\ Goto(IF path = "delete" THEN "unmanage" ELSE "manage")
      BY <1>2, <2>3 DEF GetDashboard, Goto, MessagesInv, MessagesAreOfTheBody,
                        NothingUnreported, TypeInv, WorkerInv
    <2>4. CASE /\ dashboard # None /\ finalizer
               /\ latest' = [desired EXCEPT !.body = dashboard]
               /\ pc' = CASE path = "delete" -> "delete"
                          [] path = "sync" -> IF Delta(desired, latest') THEN "put" ELSE "patch"
               /\ UNCHANGED <<path, desired, outcome, halted>>
      <3>1. path \in {"sync", "delete"} /\ desired \in Held /\ pc = "get"
        BY <1>2, <2>4 DEF TypeInv, WorkerInv, GetDashboard
      <3>2. latest'.messages = messages
        BY <2>4, <3>1 DEF MessagesInv, Held
      <3>3. pc' \in {"put", "patch", "delete"} /\ (pc' = "patch" => ~Delta(desired, latest'))
        BY <2>4, <3>1
      <3>4. latest' # None
        <4>1. dashboard \in Bodies
          BY <2>4, Constants DEF TypeInv, StoreInv
        <4>2. latest' \in Held
          BY <2>4, <3>1, <4>1 DEF Held
        <4> QED
          BY <4>2, Constants
      <3>5. Delta(desired, latest)' = Delta(desired', latest')
        BY DEF Delta
      <3> QED
        BY <1>2, <2>4, <3>1, <3>2, <3>3, <3>4, <3>5
           DEF GetDashboard, MessagesInv, MessagesAreOfTheBody, NothingUnreported, Warnings
    <2> QED
      BY <1>2, <2>1, <2>2, <2>3, <2>4 DEF GetDashboard
  <1>3. CASE Manage
    <2>1. CASE Finish("recoverable")
      BY <1>0, <1>3, <2>1, ErrorMessages DEF Manage, MessagesInv
    <2>2. CASE Goto("create") /\ finalizer'
      BY <1>3, <2>2 DEF Manage, Goto, MessagesInv, MessagesAreOfTheBody, NothingUnreported,
                        TypeInv, WorkerInv, Warnings
    <2> QED
      BY <1>3, <2>1, <2>2 DEF Manage
  <1>4. ASSUME Answered, pc \in {"create", "put"}, UNCHANGED <<crState, spec, messages, edited, interfered>>,
               UNCHANGED finalizer
        PROVE  MessagesInv' /\ MessagesAreOfTheBody'
    <2>1. desired \in Held
      BY <1>0, <1>4
    <2>2. desired'.body = desired.body /\ desired'.messages = Warnings(desired'.body)
      BY <1>4, <2>1, AnswerEffect DEF Answered
    <2>3. unreported' = TRUE /\ pc' = "patch" /\ latest' = latest /\ outcome' = outcome
      BY <1>4 DEF Answered, Applied
    <2> QED
      BY <1>4, <2>2, <2>3 DEF MessagesInv, MessagesAreOfTheBody, NothingUnreported, Warnings
  <1>5. CASE Create
    <2>1. ASSUME NEW code, CreateFails(code), UNCHANGED <<dashboard, unreported>> \/ Applied
          PROVE  MessagesInv' /\ MessagesAreOfTheBody'
      <3>1. \E o \in {"recoverable", "terminal", "unmanaged"} : Finish(o)
        BY <2>1 DEF CreateFails, Fails
      <3>2. NothingUnreported
        BY <1>5 DEF Create, MessagesInv
      <3> QED
        BY <1>0, <1>5, <2>1, <3>1, <3>2, ErrorMessages DEF Create, Applied
    <2> QED
      BY <1>4, <1>5, <2>1 DEF Create
  <1>6. CASE Update
    <2>1. ASSUME NEW code, Fails(code), UNCHANGED <<dashboard, unreported>> \/ Applied
          PROVE  MessagesInv' /\ MessagesAreOfTheBody'
      <3>1. \E o \in {"recoverable", "terminal", "unmanaged"} : Finish(o)
        BY <2>1 DEF Fails
      <3> QED
        BY <1>0, <1>6, <2>1, <3>1, ErrorMessages DEF Update, Applied
    <2> QED
      BY <1>4, <1>6, <2>1 DEF Update
  <1>7. CASE PatchStatus
    <2>1. CASE Finish("recoverable") /\ UNCHANGED <<messages, unreported>>
      BY <1>0, <1>7, <2>1, ErrorMessages DEF PatchStatus
    <2>2. CASE /\ Finish("synced") /\ (latest = None \/ Delta(desired, latest))
               /\ messages' = desired.messages /\ unreported' = interfered
      <3>1. /\ messages' = Warnings(desired.body) /\ unreported' = interfered
            /\ UNCHANGED <<cr, dashboard, edited, interfered>>
        BY <1>7, <2>2 DEF PatchStatus, Finish, MessagesInv
      <3>2. ~interfered => Warnings(dashboard) = Warnings(desired.body)
        BY <1>7 DEF PatchStatus, SuccessMeansApplied, Warnings
      <3>3. ~edited => desired.body = spec
        BY <1>7 DEF PatchStatus, MessagesInv
      <3>4. finalizer
        BY <1>7 DEF PatchStatus, DutyInv
      <3>5. pc' = "idle" /\ latest' = None
        BY <2>2 DEF Finish
      <3>6. MessagesInv'
        BY <1>0, <3>1, <3>2, <3>4, <3>5 DEF MessagesInv, NothingUnreported, Warnings
      <3>7. MessagesAreOfTheBody'
        BY <3>1, <3>3 DEF MessagesAreOfTheBody, Warnings
      <3> QED
        BY <3>6, <3>7
    <2>3. CASE /\ Finish("synced") /\ ~(latest = None \/ Delta(desired, latest))
               /\ messages' = latest.messages /\ UNCHANGED unreported
      <3>1. /\ messages' = messages /\ unreported' = unreported
            /\ UNCHANGED <<cr, dashboard, edited, interfered>>
        BY <1>7, <2>3 DEF PatchStatus, Finish, MessagesInv
      <3>2. ~interfered => dashboard # None /\ Warnings(dashboard) = Warnings(desired.body)
        BY <1>7 DEF PatchStatus, SuccessMeansApplied, Warnings
      <3>3. ~edited => desired.body = spec
        BY <1>7 DEF PatchStatus, MessagesInv
      <3>4. pc' = "idle" /\ latest' = None
        BY <2>3 DEF Finish
      <3>5. MessagesInv'
        BY <3>1, <3>4 DEF MessagesInv, NothingUnreported, Warnings
      <3>6. ~edited /\ ~unreported => messages = Warnings(spec)
        BY <3>2, <3>3 DEF MessagesInv, NothingUnreported
      <3>7. MessagesAreOfTheBody'
        BY <3>1, <3>6 DEF MessagesAreOfTheBody, Warnings
      <3> QED
        BY <3>5, <3>7
    <2> QED
      BY <1>7, <2>1, <2>2, <2>3 DEF PatchStatus
  <1>8. CASE Delete
    <2>1. ASSUME NEW code, Fails(code) PROVE MessagesInv' /\ MessagesAreOfTheBody'
      <3>1. \E o \in {"recoverable", "terminal", "unmanaged"} : Finish(o)
        BY <2>1 DEF Fails
      <3> QED
        BY <1>0, <1>8, <3>1, ErrorMessages DEF Delete
    <2>2. CASE dashboard' = None /\ Goto("unmanage")
      BY <1>8, <2>2 DEF Delete, Goto, MessagesInv, MessagesAreOfTheBody, NothingUnreported
    <2> QED
      BY <1>8, <2>1, <2>2 DEF Delete
  <1>9. CASE Unmanage
    <2>1. CASE Finish("recoverable") /\ UNCHANGED <<crState, finalizer>>
      BY <1>0, <1>9, <2>1, ErrorMessages DEF Unmanage
    <2>2. crState = "deleting"
      BY <1>9 DEF Unmanage, DutyInv, TypeInv, WorkerInv
    <2>3. CASE Finish("synced") /\ crState' = "absent"
      BY <1>9, <2>3 DEF Unmanage, Finish, MessagesInv, MessagesAreOfTheBody, NothingUnreported
    <2> QED
      BY <1>9, <2>1, <2>2, <2>3 DEF Unmanage
  <1> QED
    BY <1>1, <1>2, <1>3, <1>5, <1>6, <1>7, <1>8, <1>9 DEF Worker

LEMMA MessagesNext == FullInv /\ [Next]_vars => MessagesInv' /\ MessagesAreOfTheBody'
  <1>1. FullInv /\ UNCHANGED vars => MessagesInv' /\ MessagesAreOfTheBody'
    BY DEF vars, cr, worker, FullInv, MessagesInv, MessagesAreOfTheBody, NothingUnreported,
           Delta, Warnings
  <1> QED
    BY <1>1, MessagesEnvironment, MessagesWorker DEF Next

(* A CR that was reconciled shows the messages about its own body, unless  *)
(* an answer or a patch was lost, or others wrote the dashboard.           *)
THEOREM MessagesMatch == Spec => []MessagesAreOfTheBody
  <1>1. Init => MessagesInv /\ MessagesAreOfTheBody
    BY DEF Init, MessagesInv, MessagesAreOfTheBody, NothingUnreported
  <1> QED
    BY <1>1, MessagesNext, Typed, OnDuty, DashboardSuccessIsApplied, PTL DEF Spec, FullInv

-----------------------------------------------------------------------------
(* Dashboard implements ManagedResource.  The mapped variables at each     *)
(* call; the invariant says what is in hand there.                         *)
LEMMA PhaseAt ==
  /\ pc = "idle" => Phase = "idle"
  /\ pc = "get" => Phase = "asked"
  /\ pc \in {"manage", "create", "unmanage"} => Phase = "absent"
  /\ pc \in {"put", "delete"} => Phase = "present"
  /\ pc = "patch" => Phase = "done"
  BY DEF Phase

LEMMA PhaseAtNext ==
  /\ pc' = "idle" => Phase' = "idle"
  /\ pc' = "get" => Phase' = "asked"
  /\ pc' \in {"manage", "create", "unmanage"} => Phase' = "absent"
  /\ pc' \in {"put", "delete"} => Phase' = "present"
  /\ pc' = "patch" => Phase' = "done"
  BY DEF Phase

LEMMA MappedTypes ==
  ASSUME TypeInv
  PROVE  /\ Claim \in Docs \cup {None}
         /\ Actual \in Docs \cup {None}
         /\ Actual = None <=> dashboard = None
  <1>1. desired # None => desired.body \in Bodies
    BY DEF TypeInv, WorkerInv, Held
  <1>2. Claim \in Docs \cup {None}
    BY <1>1, Constants DEF Claim, Refused
  <1>3. dashboard # None => dashboard.doc \in Docs
    BY Constants DEF TypeInv, StoreInv
  <1> QED
    BY <1>2, <1>3, Constants DEF Actual

(* A round that ends: the resource as it was, the CR as it was or the      *)
(* finalizer released.                                                     *)
LEMMA FinishMaps ==
  ASSUME NEW o, Finish(o) PROVE Managed!Stop
  <1>1. pc' = "idle" /\ desired' = None /\ latest' = None
    BY DEF Finish
  <1> QED
    BY <1>1, PhaseAtNext DEF Claim, Seen, Managed!Stop

LEMMA EnvironmentMaps ==
  ASSUME TypeInv, TypeInv', DutyInv, Environment
  PROVE  [Managed!Next]_(Managed!vars)
  <1> USE DEF cr, worker, Managed!cr, Managed!vars
  <1>0. ASSUME UNCHANGED <<pc, path, desired, latest>>
        PROVE  UNCHANGED <<Phase, Claim, Seen>>
    BY <1>0 DEF Phase, Claim, Seen, Refused
  <1>1. ASSUME NEW b \in Bodies, CreateCR(b) PROVE Managed!CreateCR
    BY <1>0, <1>1 DEF CreateCR, Actual, Managed!CreateCR
  <1>2. ASSUME NEW b \in Bodies, EditSpec(b) PROVE UNCHANGED Managed!vars
    BY <1>0, <1>2 DEF EditSpec, Actual
  <1>3. ASSUME DeleteCR PROVE Managed!DeleteCR
    BY <1>0, <1>3 DEF DeleteCR, Actual, Managed!DeleteCR
  <1>4. ASSUME NEW b \in Stored \cup {None}, OutsideChange(b) PROVE Managed!OutsideChange
    <2>1. Actual' \in Docs \cup {None}
      BY <1>4, Constants DEF OutsideChange, Actual
    <2> QED
      BY <1>0, <1>4, <2>1 DEF OutsideChange, Managed!OutsideChange
  <1>5. ASSUME Crash PROVE Managed!GiveUp
    <2>1. Managed!Stop
      BY <1>5, PhaseAtNext DEF Crash, Claim, Seen, Managed!Stop
    <2> QED
      BY <1>5, <2>1 DEF Crash, Actual, Managed!GiveUp
  <1> QED
    BY <1>1, <1>2, <1>3, <1>4, <1>5 DEF Environment, Managed!Next

(* A PutDashboard that is applied, answered or not.                        *)
LEMMA AppliedMaps ==
  ASSUME TypeInv, pc \in {"create", "put"}, Applied
  PROVE  Claim # None /\ Actual' = Claim
  <1>1. desired \in Held /\ path = "sync" /\ desired # None
    BY Constants DEF TypeInv, WorkerInv
  <1>2. Claim = desired.body.doc /\ desired.body.doc \in Docs
    BY <1>1, Constants DEF Applied, Claim, Refused, Held
  <1>3. dashboard' \in Stored /\ dashboard'.doc = desired.body.doc
    BY DEF Applied
  <1> QED
    BY <1>2, <1>3, Constants DEF Actual, Stored

LEMMA AnsweredMaps ==
  ASSUME TypeInv, DutyInv, pc \in {"create", "put"}, Answered, UNCHANGED <<crState, finalizer>>
  PROVE  Managed!Write
  <1>1. desired \in Held /\ pc' = "patch" /\ UNCHANGED <<path, latest>>
    BY DEF TypeInv, WorkerInv, Answered
  <1>2. desired'.body = desired.body /\ desired # None /\ desired' # None
    <2>1. desired' \in Held
      <3>1. desired.body \in Bodies
        BY <1>1 DEF Held
      <3> QED
        BY <1>1, <3>1, WarningsType DEF Answered, AnswerMessages, Held
    <2> QED
      BY <1>1, <2>1, AnswerEffect, Constants DEF Answered
  <1>3. Claim' = Claim /\ Seen' = Seen
    BY <1>1, <1>2 DEF Claim, Seen, Refused
  <1>4. Claim # None /\ Actual' = Claim
    BY AppliedMaps DEF Answered
  <1>5. finalizer
    BY DEF DutyInv
  <1> QED
    BY <1>1, <1>3, <1>4, <1>5, PhaseAt, PhaseAtNext DEF Managed!Write, Managed!cr

LEMMA GetDashboardMaps ==
  ASSUME TypeInv, TypeInv', DutyInv, GetDashboard
  PROVE  Managed!Next
  <1> USE DEF cr, worker, Managed!cr
  <1>1. pc = "get" /\ Phase = "asked" /\ UNCHANGED <<crState, finalizer, dashboard, Actual>>
    BY PhaseAt DEF GetDashboard, Actual
  <1>2. ASSUME NEW o, Finish(o) PROVE Managed!GiveUp
    BY <1>1, <1>2, FinishMaps DEF Managed!GiveUp
  <1>3. CASE dashboard = None /\ Goto(IF path = "delete" THEN "unmanage" ELSE "manage")
    <2>1. latest = None /\ pc' \in {"unmanage", "manage"} /\ UNCHANGED <<path, desired, latest>>
      BY <1>1, <1>3 DEF TypeInv, WorkerInv, Goto
    <2>2. Seen' = None /\ Claim' = Claim /\ Actual = None
      BY <1>3, <2>1 DEF Seen, Claim, Refused, Actual
    <2> QED
      BY <1>1, <2>1, <2>2, PhaseAtNext DEF Managed!Look, Managed!Next
  <1>4. CASE /\ dashboard # None /\ finalizer
             /\ latest' = [desired EXCEPT !.body = dashboard]
             /\ pc' = CASE path = "delete" -> "delete"
                        [] path = "sync" -> IF Delta(desired, latest') THEN "put" ELSE "patch"
             /\ UNCHANGED <<path, desired, outcome, halted>>
    <2>1. desired \in Held /\ dashboard \in Stored /\ path \in {"sync", "delete"}
          /\ desired # None /\ dashboard \in Bodies
      BY <1>1, <1>4, Constants DEF TypeInv, StoreInv, WorkerInv
    <2>2. latest' \in Held /\ latest'.body = dashboard /\ latest' # None
      <3>1. latest' \in Held /\ latest'.body = dashboard
        BY <1>4, <2>1 DEF Held
      <3> QED
        BY <3>1, Constants
    <2>3. pc' \in {"put", "patch", "delete"}
          /\ (pc' = "patch" => path = "sync" /\ ~Delta(desired, latest'))
      BY <1>4, <2>1
    <2>4. Seen' = Actual /\ Claim' = Claim /\ Actual # None
      BY <1>4, <2>1, <2>2, <2>3, MappedTypes DEF Seen, Claim, Refused, Actual
    <2>5. pc' = "patch" => Actual = Claim
      <3> SUFFICES ASSUME pc' = "patch" PROVE Actual = Claim
        OBVIOUS
      <3>1. desired.body.doc = dashboard.doc
        BY <2>1, <2>2, <2>3, EqualDocs
      <3> QED
        BY <1>4, <2>1, <2>3, <3>1, Constants DEF Actual, Claim, Refused
    <2> QED
      BY <1>1, <2>3, <2>4, <2>5, PhaseAtNext DEF Managed!Look, Managed!Next
  <1> QED
    BY <1>2, <1>3, <1>4 DEF GetDashboard, Fails, Managed!Next

LEMMA WorkerMaps ==
  ASSUME TypeInv, TypeInv', DutyInv, Worker
  PROVE  [Managed!Next]_(Managed!vars)
  <1> USE DEF cr, worker, Managed!cr
  <1>1. ASSUME NEW o, Finish(o), UNCHANGED dashboard,
               \/ UNCHANGED <<crState, finalizer>>
               \/ Phase = "absent" /\ Managed!Release
        PROVE  Managed!GiveUp
    BY <1>1, FinishMaps DEF Managed!GiveUp, Actual
  <1>2. CASE Begin
    <2>1. pc = "idle" /\ pc' = "get" /\ UNCHANGED <<crState, finalizer, dashboard, latest>>
      BY <1>2 DEF Begin
    <2>2. Seen' = Seen /\ Actual' = Actual /\ Claim' \in Docs \cup {None}
      <3>1. Claim' \in Docs \cup {None}
        <4>1. desired' # None => desired'.body \in Bodies
          BY DEF TypeInv, WorkerInv, Held
        <4> QED
          BY <4>1, Constants DEF Claim, Refused
      <3> QED
        BY <2>1, <3>1 DEF Seen, Actual
    <2> QED
      BY <2>1, <2>2, PhaseAt, PhaseAtNext DEF Managed!Take, Managed!Next
  <1>3. CASE GetDashboard
    BY <1>3, GetDashboardMaps
  <1>4. CASE Manage
    <2>1. ASSUME NEW o, Finish(o), UNCHANGED finalizer PROVE Managed!GiveUp
      BY <1>1, <1>4, <2>1 DEF Manage
    <2>2. CASE crState # "absent" /\ finalizer' = TRUE /\ Goto("create")
      <3>1. pc = "manage" /\ pc' = "create" /\ UNCHANGED <<crState, path, desired, latest, dashboard>>
        BY <1>4, <2>2 DEF Manage, Goto
      <3>2. UNCHANGED <<Claim, Seen, Actual>>
        BY <3>1 DEF Claim, Seen, Refused, Actual
      <3> QED
        BY <2>2, <3>1, <3>2, PhaseAt, PhaseAtNext DEF Managed!Manage, Managed!Next
    <2> QED
      BY <1>4, <2>1, <2>2 DEF Manage, Managed!Next
  <1>5. CASE Create
    <2>1. pc = "create" /\ finalizer /\ Phase = "absent"
      BY <1>5, PhaseAt DEF Create, DutyInv
    <2>2. ASSUME NEW code, CreateFails(code) PROVE
             Managed!Stop /\ (UNCHANGED <<crState, finalizer>> \/ Managed!Release)
      BY <2>1, <2>2, FinishMaps DEF CreateFails, Fails, Managed!Release
    <2>3. ASSUME NEW code, CreateFails(code), UNCHANGED dashboard PROVE Managed!GiveUp
      BY <2>2, <2>3 DEF Actual, Managed!GiveUp
    <2>4. ASSUME NEW code, CreateFails(code), Applied PROVE Managed!Write
      BY <2>1, <2>2, <2>4, AppliedMaps DEF Managed!Write
    <2>5. CASE Answered /\ UNCHANGED <<crState, finalizer>>
      BY <2>1, <2>5, AnsweredMaps DEF Managed!Next
    <2> QED
      BY <1>5, <2>3, <2>4, <2>5 DEF Create, Managed!Next
  <1>6. CASE Update
    <2>1. pc = "put" /\ finalizer /\ Phase = "present" /\ UNCHANGED <<crState, finalizer>>
      BY <1>6, PhaseAt DEF Update, DutyInv
    <2>2. ASSUME NEW code, Fails(code), UNCHANGED dashboard PROVE Managed!GiveUp
      BY <1>1, <2>1, <2>2 DEF Fails
    <2>3. ASSUME NEW code, Fails(code), Applied PROVE Managed!Write
      BY <2>1, <2>3, AppliedMaps, FinishMaps DEF Fails, Managed!Write
    <2>4. CASE Answered
      BY <2>1, <2>4, AnsweredMaps DEF Managed!Next
    <2> QED
      BY <1>6, <2>2, <2>3, <2>4 DEF Update, Managed!Next
  <1>7. CASE PatchStatus
    <2>1. UNCHANGED <<crState, finalizer, dashboard>> /\ \E o \in {"synced", "recoverable"} : Finish(o)
      BY <1>7 DEF PatchStatus
    <2> QED
      BY <1>1, <2>1 DEF Managed!Next
  <1>8. CASE Delete
    <2>1. pc = "delete" /\ path = "delete" /\ Phase = "present" /\ crState = "deleting"
          /\ finalizer /\ UNCHANGED <<crState, finalizer>>
      BY <1>8, PhaseAt DEF Delete, DutyInv, TypeInv, WorkerInv
    <2>2. CASE dashboard' = None /\ Goto("unmanage")
      <3>1. Seen' = None /\ Claim' = Claim /\ Actual' = None /\ pc' = "unmanage"
        BY <2>2 DEF Seen, Claim, Refused, Actual, Goto
      <3> QED
        BY <2>1, <3>1, PhaseAtNext DEF Managed!Remove, Managed!Next
    <2>3. ASSUME NEW code, Fails(code), dashboard' = None PROVE Managed!Remove
      BY <2>1, <2>3, FinishMaps DEF Fails, Actual, Managed!Remove
    <2>4. ASSUME NEW code, Fails(code), UNCHANGED dashboard PROVE Managed!GiveUp
      BY <1>1, <2>1, <2>4 DEF Fails
    <2> QED
      BY <1>8, <2>2, <2>3, <2>4 DEF Delete, Managed!Next
  <1>9. CASE Unmanage
    <2>1. /\ Phase = "absent" /\ UNCHANGED dashboard /\ crState = "deleting"
          /\ \E o \in {"synced", "recoverable"} : Finish(o)
          /\ UNCHANGED <<crState, finalizer>> \/ Managed!Release
      BY <1>9, PhaseAt DEF Unmanage, DutyInv, TypeInv, WorkerInv, Managed!Release
    <2> QED
      BY <1>1, <2>1 DEF Managed!Next
  <1> QED
    BY <1>2, <1>3, <1>4, <1>5, <1>6, <1>7, <1>8, <1>9 DEF Worker

LEMMA ManagedStep ==
  TypeInv /\ TypeInv' /\ DutyInv /\ [Next]_vars => [Managed!Next]_(Managed!vars)
  <1>1. UNCHANGED vars => UNCHANGED Managed!vars
    BY DEF vars, cr, worker, Phase, Claim, Seen, Actual, Refused, Managed!vars, Managed!cr
  <1> QED
    BY <1>1, EnvironmentMaps, WorkerMaps DEF Next

(* The controller's Dashboards are managed resources, whatever the bodies: *)
(* the finalizer comes before the dashboard, only what the CR asks for is  *)
(* written, and only a CR that is being deleted takes its dashboard along. *)
THEOREM DashboardIsManaged == Spec => ImplementsManagedResource
  <1>1. Init => Managed!Init
    BY DEF Init, Phase, Claim, Seen, Actual, Managed!Init
  <1> QED
    BY <1>1, ManagedStep, Typed, OnDuty, PTL DEF Spec, ImplementsManagedResource, Managed!Spec
=============================================================================
