--------------------------- MODULE ReplicasProofs ----------------------------
(* Proofs about Replicas, for every set of texts, documents and bodies and *)
(* without the bounds mattering.  What DashboardProofs proves of a worker  *)
(* is used of either worker here, on the CR and dashboard they share.      *)
EXTENDS Replicas, TLAPS

P1 == INSTANCE DashboardProofs WITH
    pc <- pc1, path <- path1, desired <- desired1, latest <- latest1,
    halted <- halted1, edited <- edited1, interfered <- interfered1

P2 == INSTANCE DashboardProofs WITH
    pc <- pc2, path <- path2, desired <- desired2, latest <- latest2,
    halted <- halted2, edited <- edited2, interfered <- interfered2

(* Its premises, and the lemmas it is used by.                             *)
LEMMA Premises ==
  /\ Bodies \subseteq P1!Body /\ None \notin P1!Body
  /\ None \notin [body : P1!Body, messages : Docs \cup {None}]
  /\ Bodies \subseteq P2!Body /\ None \notin P2!Body
  /\ None \notin [body : P2!Body, messages : Docs \cup {None}]
  BY BodiesAssumption, NoneAssumption DEF P1!Body, P2!Body, One!Body, One!Object

LEMMA TypeOfOne == P1!TypeInv /\ [P1!Next]_(P1!vars) => P1!TypeInv'
  BY P1!TypeNext, Premises, TextsAssumption, DocsAssumption

LEMMA TypeOfTwo == P2!TypeInv /\ [P2!Next]_(P2!vars) => P2!TypeInv'
  BY P2!TypeNext, Premises, TextsAssumption, DocsAssumption

LEMMA DutyOfOne == P1!TypeInv /\ P1!DutyInv /\ [P1!Next]_(P1!vars) => P1!DutyInv'
  BY P1!DutyNext, Premises, TextsAssumption, DocsAssumption

LEMMA DutyOfTwo == P2!TypeInv /\ P2!DutyInv /\ [P2!Next]_(P2!vars) => P2!DutyInv'
  BY P2!DutyNext, Premises, TextsAssumption, DocsAssumption

LEMMA SuccessOfOne ==
  P1!TypeInv /\ P1!SuccessMeansApplied /\ [P1!Next]_(P1!vars) => P1!SuccessMeansApplied'
  BY P1!SuccessNext, Premises, TextsAssumption, DocsAssumption

LEMMA SuccessOfTwo ==
  P2!TypeInv /\ P2!SuccessMeansApplied /\ [P2!Next]_(P2!vars) => P2!SuccessMeansApplied'
  BY P2!SuccessNext, Premises, TextsAssumption, DocsAssumption

LEMMA OneIsManaged ==
  P1!TypeInv /\ P1!TypeInv' /\ P1!DutyInv /\ [P1!Next]_(P1!vars)
    => [P1!Managed!Next]_(P1!Managed!vars)
  BY P1!ManagedStep, Premises, TextsAssumption, DocsAssumption

LEMMA TwoIsManaged ==
  P2!TypeInv /\ P2!TypeInv' /\ P2!DutyInv /\ [P2!Next]_(P2!vars)
    => [P2!Managed!Next]_(P2!Managed!vars)
  BY P2!ManagedStep, Premises, TextsAssumption, DocsAssumption

(* What One and Two name of Dashboard, P1 and P2 name again.               *)
LEMMA SameOne ==
  /\ One!Worker => P1!Worker
  /\ \A b \in Bodies : One!CreateCR(b) \/ One!EditSpec(b) => P1!Environment
  /\ One!DeleteCR \/ One!Crash => P1!Environment
  /\ One!Init => P1!Init
  /\ One!Phase = P1!Phase /\ One!Claim = P1!Claim
  /\ One!Seen = P1!Seen /\ One!Actual = P1!Actual
  <1> USE DEF One!cr, P1!cr, One!worker, P1!worker, One!Use, P1!Use, One!Failing,
            P1!Failing, One!Finish, P1!Finish, One!Fails, P1!Fails, One!Goto, P1!Goto
  <1>1. One!Worker => P1!Worker
    BY DEF One!Worker, P1!Worker, One!Begin, P1!Begin, One!GetDashboard,
         P1!GetDashboard, One!Manage, P1!Manage, One!Create, P1!Create, One!Update,
         P1!Update, One!PatchStatus, P1!PatchStatus, One!Delete, P1!Delete,
         One!Unmanage, P1!Unmanage, One!CreateFails, P1!CreateFails, One!Answered,
         P1!Answered, One!Applied, P1!Applied, One!Refused, P1!Refused, One!Stored,
         P1!Stored, One!AnswerMessages, P1!AnswerMessages, One!Warnings,
         P1!Warnings, One!Delta, P1!Delta, One!TerminalAWSError,
         P1!TerminalAWSError, One!Halts, P1!Halts
  <1>2. /\ \A b \in Bodies : One!CreateCR(b) \/ One!EditSpec(b) => P1!Environment
        /\ One!DeleteCR \/ One!Crash => P1!Environment
    BY DEF P1!Environment, One!CreateCR, P1!CreateCR, One!EditSpec, P1!EditSpec, One!DeleteCR,
         P1!DeleteCR, One!Crash, P1!Crash
  <1>3. One!Init => P1!Init
    BY DEF One!Init, P1!Init
  <1>4. /\ One!Phase = P1!Phase /\ One!Claim = P1!Claim
        /\ One!Seen = P1!Seen /\ One!Actual = P1!Actual
    BY DEF One!Phase, P1!Phase, One!Claim, P1!Claim, One!Seen, P1!Seen, One!Actual,
         P1!Actual, One!Refused, P1!Refused
  <1> QED
    BY <1>1, <1>2, <1>3, <1>4

LEMMA SameTwo ==
  /\ Two!Worker => P2!Worker
  /\ \A b \in Bodies : Two!CreateCR(b) \/ Two!EditSpec(b) => P2!Environment
  /\ Two!DeleteCR \/ Two!Crash => P2!Environment
  /\ Two!Init => P2!Init
  /\ Two!Phase = P2!Phase /\ Two!Claim = P2!Claim
  /\ Two!Seen = P2!Seen /\ Two!Actual = P2!Actual
  <1> USE DEF Two!cr, P2!cr, Two!worker, P2!worker, Two!Use, P2!Use, Two!Failing,
            P2!Failing, Two!Finish, P2!Finish, Two!Fails, P2!Fails, Two!Goto, P2!Goto
  <1>1. Two!Worker => P2!Worker
    BY DEF Two!Worker, P2!Worker, Two!Begin, P2!Begin, Two!GetDashboard,
         P2!GetDashboard, Two!Manage, P2!Manage, Two!Create, P2!Create, Two!Update,
         P2!Update, Two!PatchStatus, P2!PatchStatus, Two!Delete, P2!Delete,
         Two!Unmanage, P2!Unmanage, Two!CreateFails, P2!CreateFails, Two!Answered,
         P2!Answered, Two!Applied, P2!Applied, Two!Refused, P2!Refused, Two!Stored,
         P2!Stored, Two!AnswerMessages, P2!AnswerMessages, Two!Warnings,
         P2!Warnings, Two!Delta, P2!Delta, Two!TerminalAWSError,
         P2!TerminalAWSError, Two!Halts, P2!Halts
  <1>2. /\ \A b \in Bodies : Two!CreateCR(b) \/ Two!EditSpec(b) => P2!Environment
        /\ Two!DeleteCR \/ Two!Crash => P2!Environment
    BY DEF P2!Environment, Two!CreateCR, P2!CreateCR, Two!EditSpec, P2!EditSpec, Two!DeleteCR,
         P2!DeleteCR, Two!Crash, P2!Crash
  <1>3. Two!Init => P2!Init
    BY DEF Two!Init, P2!Init
  <1>4. /\ Two!Phase = P2!Phase /\ Two!Claim = P2!Claim
        /\ Two!Seen = P2!Seen /\ Two!Actual = P2!Actual
    BY DEF Two!Phase, P2!Phase, Two!Claim, P2!Claim, Two!Seen, P2!Seen, Two!Actual,
         P2!Actual, Two!Refused, P2!Refused
  <1> QED
    BY <1>1, <1>2, <1>3, <1>4

-----------------------------------------------------------------------------
(* Types.  Both workers keep theirs, whichever of them acts.               *)
Processes == {"down", "waiting", "reconciling"}

TypeInv ==
    /\ P1!TypeInv /\ P2!TypeInv
    /\ election \in BOOLEAN
    /\ process \in [1..2 -> Processes]

LEMMA TypeInit == Init => TypeInv
  <1> SUFFICES ASSUME Init PROVE TypeInv
    OBVIOUS
  <1>1. P1!Init /\ P2!Init
    BY SameOne, SameTwo DEF Init
  <1>2. P1!TypeInv /\ P2!TypeInv
    BY <1>1, P1!TypeInit, P2!TypeInit, Premises, TextsAssumption, DocsAssumption
  <1> QED
    BY <1>2 DEF Init, TypeInv, Processes

(* A step of one worker leaves the other as it was, up to its flags.       *)
LEMMA StepOneTypes == ASSUME TypeInv, Step1 PROVE P1!TypeInv' /\ P2!TypeInv'
  <1>1. P1!TypeInv'
    BY SameOne, TypeOfOne DEF TypeInv, Step1, P1!Next
  <1>2. edited2' \in BOOLEAN /\ halted2' \in BOOLEAN /\ interfered2' \in BOOLEAN
    BY DEF Step1, TypeInv, P2!TypeInv, P2!StoreInv, P2!WorkerInv
  <1>3. P2!StoreInv'
    BY <1>1, <1>2 DEF P1!TypeInv, P1!StoreInv, P2!StoreInv, P1!Stored, P2!Stored
  <1>4. P2!WorkerInv'
    BY <1>1, <1>2 DEF Step1, TypeInv, P1!TypeInv, P1!WorkerInv, P2!TypeInv, P2!WorkerInv,
                      P2!Calls, P2!Held
  <1> QED
    BY <1>1, <1>3, <1>4 DEF P2!TypeInv

LEMMA StepTwoTypes == ASSUME TypeInv, Step2 PROVE P1!TypeInv' /\ P2!TypeInv'
  <1>1. P2!TypeInv'
    BY SameTwo, TypeOfTwo DEF TypeInv, Step2, P2!Next
  <1>2. edited1' \in BOOLEAN /\ halted1' \in BOOLEAN /\ interfered1' \in BOOLEAN
    BY DEF Step2, TypeInv, P1!TypeInv, P1!StoreInv, P1!WorkerInv
  <1>3. P1!StoreInv'
    BY <1>1, <1>2 DEF P2!TypeInv, P2!StoreInv, P1!StoreInv, P1!Stored, P2!Stored
  <1>4. P1!WorkerInv'
    BY <1>1, <1>2 DEF Step2, TypeInv, P2!TypeInv, P2!WorkerInv, P1!TypeInv, P1!WorkerInv,
                      P1!Calls, P1!Held
  <1> QED
    BY <1>1, <1>3, <1>4 DEF P1!TypeInv

(* What users do is done before the eyes of both.                          *)
LEMMA UsersMap == Users => P1!Environment /\ P2!Environment
  BY SameOne, SameTwo DEF Users

(* A process that stops forgets its round, and leaves the rest.            *)
Empty1 == pc1 = "idle" /\ desired1 = None /\ latest1 = None
Empty2 == pc2 = "idle" /\ desired2 = None /\ latest2 = None

LEMMA CrashEmpties ==
  /\ One!Crash => Empty1' /\ UNCHANGED <<crState, finalizer, dashboard>>
  /\ Two!Crash => Empty2' /\ UNCHANGED <<crState, finalizer, dashboard>>
  BY DEF One!Crash, Two!Crash, One!cr, Two!cr, Empty1, Empty2

LEMMA CrashOneTypes ==
  ASSUME TypeInv, One!Crash, UNCHANGED worker2 PROVE P1!TypeInv' /\ P2!TypeInv'
  <1>1. P1!TypeInv'
    BY SameOne, TypeOfOne DEF TypeInv, P1!Next
  <1>2. UNCHANGED <<crState, finalizer, spec, messages, outcome, dashboard, unreported>>
    BY DEF One!Crash, One!cr
  <1>3. P2!StoreInv'
    BY <1>1, <1>2 DEF TypeInv, P1!TypeInv, P1!StoreInv, P2!TypeInv, P2!StoreInv, worker2
  <1>4. P2!WorkerInv'
    BY <1>2 DEF TypeInv, P2!TypeInv, P2!WorkerInv, worker2
  <1> QED
    BY <1>1, <1>3, <1>4 DEF P2!TypeInv

LEMMA CrashTwoTypes ==
  ASSUME TypeInv, Two!Crash, UNCHANGED worker1 PROVE P1!TypeInv' /\ P2!TypeInv'
  <1>1. P2!TypeInv'
    BY SameTwo, TypeOfTwo DEF TypeInv, P2!Next
  <1>2. UNCHANGED <<crState, finalizer, spec, messages, outcome, dashboard, unreported>>
    BY DEF Two!Crash, Two!cr
  <1>3. P1!StoreInv'
    BY <1>1, <1>2 DEF TypeInv, P2!TypeInv, P2!StoreInv, P1!TypeInv, P1!StoreInv, worker1
  <1>4. P1!WorkerInv'
    BY <1>2 DEF TypeInv, P1!TypeInv, P1!WorkerInv, worker1
  <1> QED
    BY <1>1, <1>3, <1>4 DEF P1!TypeInv

LEMMA TypeNext == TypeInv /\ [Next]_vars => TypeInv'
  <1> SUFFICES ASSUME TypeInv, [Next]_vars PROVE TypeInv'
    OBVIOUS
  <1>1. ASSUME UNCHANGED <<shared, worker1, worker2>> PROVE P1!TypeInv' /\ P2!TypeInv'
    BY <1>1 DEF shared, cr, worker1, worker2, TypeInv, P1!TypeInv, P1!StoreInv, P1!WorkerInv,
                P2!TypeInv, P2!StoreInv, P2!WorkerInv
  <1>2. CASE Step1
    BY <1>2, StepOneTypes DEF Step1, TypeInv
  <1>3. CASE Step2
    BY <1>3, StepTwoTypes DEF Step2, TypeInv
  <1>4. CASE Users
    <2>1. P1!TypeInv' /\ P2!TypeInv'
      BY <1>4, UsersMap, TypeOfOne, TypeOfTwo DEF TypeInv, P1!Next, P2!Next
    <2> QED
      BY <1>4, <2>1 DEF Users, TypeInv
  <1>5. ASSUME NEW p \in 1..2, Start(p) \/ Elect(p) PROVE TypeInv'
    BY <1>1, <1>5 DEF Start, Elect, TypeInv, Processes
  <1>6. ASSUME NEW p \in 1..2, Exit(p) PROVE TypeInv'
    <2>1. P1!TypeInv' /\ P2!TypeInv'
      BY <1>6, CrashOneTypes, CrashTwoTypes DEF Exit
    <2> QED
      BY <1>6, <2>1 DEF Exit, TypeInv, Processes
  <1>7. CASE UNCHANGED vars
    BY <1>1, <1>7 DEF vars, TypeInv
  <1> QED
    BY <1>2, <1>3, <1>4, <1>5, <1>6, <1>7 DEF Next

LEMMA Typed == Spec => []TypeInv
  BY TypeInit, TypeNext, PTL DEF Spec

(* Two workers on one CR and one dashboard never leave the types, with or  *)
(* without an election: in particular each may find the other's effects at *)
(* any call.                                                               *)
THEOREM ReplicasTypeCorrect == Spec => []TypeOK
  <1>1. TypeInv => TypeOK
    <2> SUFFICES ASSUME TypeInv PROVE TypeOK
      OBVIOUS
    <2>1. Bodies \subseteq One!Body /\ Bodies \subseteq Two!Body
      BY BodiesAssumption DEF One!Body, Two!Body
    <2>2. One!TypeOK
      BY <2>1 DEF TypeInv, P1!TypeInv, P1!StoreInv, P1!WorkerInv, One!TypeOK, P1!Held,
                  P1!Stored, P1!Calls, One!Calls, One!Object
    <2>3. Two!TypeOK
      BY <2>1 DEF TypeInv, P2!TypeInv, P2!StoreInv, P2!WorkerInv, Two!TypeOK, P2!Held,
                  P2!Stored, P2!Calls, Two!Calls, Two!Object
    <2> QED
      BY <2>2, <2>3 DEF TypeInv, TypeOK, Processes
  <1> QED
    BY <1>1, Typed, PTL

-----------------------------------------------------------------------------
(* What the other does meanwhile either leaves the dashboard alone or      *)
(* takes back what this worker is about to report.                         *)
SuccessInv == P1!SuccessMeansApplied /\ P2!SuccessMeansApplied

LEMMA SuccessNext ==
  ASSUME TypeInv, SuccessInv, [Next]_vars PROVE SuccessInv'
  <1>1. ASSUME UNCHANGED <<pc1, desired1, dashboard, interfered1>> PROVE P1!SuccessMeansApplied'
    BY <1>1 DEF SuccessInv, P1!SuccessMeansApplied
  <1>2. ASSUME UNCHANGED <<pc2, desired2, dashboard, interfered2>> PROVE P2!SuccessMeansApplied'
    BY <1>2 DEF SuccessInv, P2!SuccessMeansApplied
  <1>3. CASE Step1
    <2>1. P1!SuccessMeansApplied'
      BY <1>3, SameOne, SuccessOfOne DEF Step1, TypeInv, SuccessInv, P1!Next
    <2>2. P2!SuccessMeansApplied'
      BY <1>3 DEF Step1, SuccessInv, P2!SuccessMeansApplied
    <2> QED
      BY <2>1, <2>2 DEF SuccessInv
  <1>4. CASE Step2
    <2>1. P2!SuccessMeansApplied'
      BY <1>4, SameTwo, SuccessOfTwo DEF Step2, TypeInv, SuccessInv, P2!Next
    <2>2. P1!SuccessMeansApplied'
      BY <1>4 DEF Step2, SuccessInv, P1!SuccessMeansApplied
    <2> QED
      BY <2>1, <2>2 DEF SuccessInv
  <1>5. CASE Users
    BY <1>5, UsersMap, SuccessOfOne, SuccessOfTwo DEF TypeInv, SuccessInv, P1!Next, P2!Next
  <1>6. ASSUME NEW p \in 1..2, Start(p) \/ Elect(p) PROVE SuccessInv'
    BY <1>1, <1>2, <1>6 DEF Start, Elect, shared, worker1, worker2, SuccessInv
  <1>7. ASSUME NEW p \in 1..2, Exit(p) PROVE SuccessInv'
    <2>1. CASE One!Crash /\ UNCHANGED worker2
      BY <1>2, <2>1, CrashEmpties
         DEF Empty1, worker2, SuccessInv, P1!SuccessMeansApplied
    <2>2. CASE Two!Crash /\ UNCHANGED worker1
      BY <1>1, <2>2, CrashEmpties
         DEF Empty2, worker1, SuccessInv, P2!SuccessMeansApplied
    <2> QED
      BY <1>7, <2>1, <2>2 DEF Exit
  <1>8. CASE UNCHANGED vars
    BY <1>1, <1>2, <1>8 DEF vars, shared, worker1, worker2, SuccessInv
  <1> QED
    BY <1>3, <1>4, <1>5, <1>6, <1>7, <1>8 DEF Next

(* Of two controllers at once, neither reports a dashboard as applied that *)
(* it did not see or make as its CR asks, unless the other changed it.     *)
THEOREM ReplicasSuccessIsApplied == Spec => []SuccessMeansApplied
  <1>1. Init => SuccessInv
    BY DEF Init, One!Init, Two!Init, SuccessInv, P1!SuccessMeansApplied, P2!SuccessMeansApplied
  <1>2. SuccessInv => SuccessMeansApplied
    BY DEF SuccessInv, SuccessMeansApplied, P1!SuccessMeansApplied, P2!SuccessMeansApplied,
           One!SuccessMeansApplied, Two!SuccessMeansApplied
  <1> QED
    BY <1>1, <1>2, SuccessNext, Typed, PTL DEF Spec

-----------------------------------------------------------------------------
(* With an election at most one process reconciles; the other has nothing  *)
(* in hand, so that the finalizer stands for what it stands for alone.     *)
ElectedInv ==
    /\ ~(Reconciling(1) /\ Reconciling(2))
    /\ ~Reconciling(1) => Empty1
    /\ ~Reconciling(2) => Empty2
    /\ P1!DutyInv /\ P2!DutyInv

ReplicasInv == TypeInv /\ (election => ElectedInv)

(* A worker with nothing in hand does what the finalizer asks as well as   *)
(* the other.                                                              *)
LEMMA EmptyDuty ==
  /\ P1!DutyInv /\ Empty2 => P2!DutyInv
  /\ P2!DutyInv /\ Empty1 => P1!DutyInv
  BY DEF Empty1, Empty2, P1!DutyInv, P2!DutyInv

LEMMA EmptyDutyNext ==
  /\ P1!DutyInv' /\ Empty2' => P2!DutyInv'
  /\ P2!DutyInv' /\ Empty1' => P1!DutyInv'
  BY DEF Empty1, Empty2, P1!DutyInv, P2!DutyInv

LEMMA ElectedNext ==
  ASSUME TypeInv, TypeInv', ElectedInv, election, [Next]_vars PROVE ElectedInv'
  <1> USE DEF Reconciling
  <1>0. \A p \in 1..2 : p = 1 \/ p = 2
    OBVIOUS
  <1>1. CASE Step1
    <2>1. P1!DutyInv'
      BY <1>1, SameOne, DutyOfOne DEF Step1, TypeInv, ElectedInv, P1!Next
    <2>2. Empty2 /\ Empty2'
      BY <1>1 DEF Step1, ElectedInv, Empty2
    <2> QED
      BY <1>1, <2>1, <2>2, EmptyDutyNext DEF Step1, ElectedInv
  <1>2. CASE Step2
    <2>1. P2!DutyInv'
      BY <1>2, SameTwo, DutyOfTwo DEF Step2, TypeInv, ElectedInv, P2!Next
    <2>2. Empty1 /\ Empty1'
      BY <1>2 DEF Step2, ElectedInv, Empty1
    <2> QED
      BY <1>2, <2>1, <2>2, EmptyDutyNext DEF Step2, ElectedInv
  <1>3. CASE Users
    <2>1. P1!DutyInv' /\ P2!DutyInv'
      BY <1>3, UsersMap, DutyOfOne, DutyOfTwo DEF TypeInv, ElectedInv, P1!Next, P2!Next
    <2>2. UNCHANGED <<process, pc1, desired1, latest1, pc2, desired2, latest2>>
      BY <1>3 DEF Users, One!CreateCR, Two!CreateCR, One!EditSpec, Two!EditSpec,
                  One!DeleteCR, Two!DeleteCR, One!worker, Two!worker
    <2> QED
      BY <2>1, <2>2 DEF ElectedInv, Empty1, Empty2
  <1>4. ASSUME UNCHANGED <<shared, worker1, worker2>>
        PROVE  P1!DutyInv' /\ P2!DutyInv' /\ (Empty1 => Empty1') /\ (Empty2 => Empty2')
    BY <1>4 DEF ElectedInv, shared, cr, worker1, worker2, P1!DutyInv, P2!DutyInv, Empty1, Empty2
  <1>5. ASSUME NEW p \in 1..2, Start(p) PROVE ElectedInv'
    BY <1>0, <1>4, <1>5 DEF Start, ElectedInv, TypeInv
  <1>6. ASSUME NEW p \in 1..2, Elect(p) PROVE ElectedInv'
    BY <1>0, <1>4, <1>6 DEF Elect, ElectedInv, TypeInv
  <1>7. ASSUME Exit(1) PROVE ElectedInv'
    <2>1. One!Crash /\ UNCHANGED worker2 /\ process' = [process EXCEPT ![1] = "down"]
      BY <1>7 DEF Exit
    <2>2. P1!DutyInv' /\ Empty1'
      BY <2>1, SameOne, CrashEmpties, DutyOfOne DEF TypeInv, ElectedInv, P1!Next
    <2>3. P2!DutyInv'
      BY <2>1, CrashEmpties DEF ElectedInv, P2!DutyInv, worker2
    <2> QED
      BY <2>1, <2>2, <2>3 DEF ElectedInv, TypeInv, Empty2, worker2
  <1>8. ASSUME Exit(2) PROVE ElectedInv'
    <2>1. Two!Crash /\ UNCHANGED worker1 /\ process' = [process EXCEPT ![2] = "down"]
      BY <1>8 DEF Exit
    <2>2. P2!DutyInv' /\ Empty2'
      BY <2>1, SameTwo, CrashEmpties, DutyOfTwo DEF TypeInv, ElectedInv, P2!Next
    <2>3. P1!DutyInv'
      BY <2>1, CrashEmpties DEF ElectedInv, P1!DutyInv, worker1
    <2> QED
      BY <2>1, <2>2, <2>3 DEF ElectedInv, TypeInv, Empty1, worker1
  <1>9. CASE UNCHANGED vars
    BY <1>4, <1>9 DEF vars, ElectedInv
  <1> QED
    BY <1>0, <1>1, <1>2, <1>3, <1>5, <1>6, <1>7, <1>8, <1>9 DEF Next

LEMMA InvNext == ReplicasInv /\ [Next]_vars => ReplicasInv'
  <1>1. [Next]_vars => election' = election
    BY DEF Next, Step1, Step2, Users, Start, Elect, Exit, vars
  <1> QED
    BY <1>1, TypeNext, ElectedNext DEF ReplicasInv

LEMMA InvInit == Init => ReplicasInv
  BY TypeInit DEF Init, One!Init, Two!Init, ReplicasInv, ElectedInv, Reconciling,
                  Empty1, Empty2, P1!DutyInv, P2!DutyInv

LEMMA Invariance == Spec => []ReplicasInv
  BY InvInit, InvNext, PTL DEF Spec

-----------------------------------------------------------------------------
(* With an election the processes are one ManagedResource.  Its variables  *)
(* are those of the worker that reconciles, and of either if none does.    *)
MPhase == OfLeader(One!Phase, Two!Phase, "idle")
MClaim == OfLeader(One!Claim, Two!Claim, None)
MSeen  == OfLeader(One!Seen, Two!Seen, None)

AsOne == /\ MPhase = P1!Phase /\ MClaim = P1!Claim /\ MSeen = P1!Seen
         /\ One!Actual = P1!Actual
AsTwo == /\ MPhase = P2!Phase /\ MClaim = P2!Claim /\ MSeen = P2!Seen
         /\ One!Actual = P2!Actual

LEMMA EmptyIsIdle ==
  /\ Empty1 => P1!Phase = "idle" /\ P1!Claim = None /\ P1!Seen = None
  /\ Empty2 => P2!Phase = "idle" /\ P2!Claim = None /\ P2!Seen = None
  BY DEF Empty1, Empty2, P1!Phase, P1!Claim, P1!Seen, P2!Phase, P2!Claim, P2!Seen

LEMMA Leader ==
  ASSUME ElectedInv
  PROVE  /\ ~Reconciling(2) => AsOne
         /\ ~Reconciling(1) => AsTwo
  <1>1. One!Actual = P1!Actual /\ One!Actual = P2!Actual
    BY DEF One!Actual, P1!Actual, P2!Actual
  <1> QED
    BY <1>1, SameOne, SameTwo, EmptyIsIdle
       DEF ElectedInv, AsOne, AsTwo, MPhase, MClaim, MSeen, OfLeader

LEMMA LeaderNext ==
  ASSUME ElectedInv'
  PROVE  /\ ~Reconciling(2)' => AsOne'
         /\ ~Reconciling(1)' => AsTwo'
  BY Leader, PTL

(* A step of ManagedResource under the variables of one worker is one      *)
(* under those of the leader.                                              *)
LEMMA StepAsOne ==
  ASSUME AsOne, AsOne', [P1!Managed!Next]_(P1!Managed!vars)
  PROVE  [Managed!Next]_(Managed!vars)
  BY DEF AsOne, MPhase, MClaim, MSeen,
         P1!Managed!Next, P1!Managed!CreateCR, P1!Managed!DeleteCR,
         P1!Managed!OutsideChange, P1!Managed!Take, P1!Managed!Look, P1!Managed!Agree,
         P1!Managed!Manage, P1!Managed!GiveUp, P1!Managed!Write, P1!Managed!Remove,
         P1!Managed!Release, P1!Managed!Stop, P1!Managed!cr, P1!Managed!vars,
         Managed!Next, Managed!CreateCR, Managed!DeleteCR, Managed!OutsideChange,
         Managed!Take, Managed!Look, Managed!Agree, Managed!Manage, Managed!GiveUp,
         Managed!Write, Managed!Remove, Managed!Release, Managed!Stop, Managed!cr,
         Managed!vars

LEMMA StepAsTwo ==
  ASSUME AsTwo, AsTwo', [P2!Managed!Next]_(P2!Managed!vars)
  PROVE  [Managed!Next]_(Managed!vars)
  BY DEF AsTwo, MPhase, MClaim, MSeen,
         P2!Managed!Next, P2!Managed!CreateCR, P2!Managed!DeleteCR,
         P2!Managed!OutsideChange, P2!Managed!Take, P2!Managed!Look, P2!Managed!Agree,
         P2!Managed!Manage, P2!Managed!GiveUp, P2!Managed!Write, P2!Managed!Remove,
         P2!Managed!Release, P2!Managed!Stop, P2!Managed!cr, P2!Managed!vars,
         Managed!Next, Managed!CreateCR, Managed!DeleteCR, Managed!OutsideChange,
         Managed!Take, Managed!Look, Managed!Agree, Managed!Manage, Managed!GiveUp,
         Managed!Write, Managed!Remove, Managed!Release, Managed!Stop, Managed!cr,
         Managed!vars

LEMMA ElectedStep ==
  ASSUME ReplicasInv, ReplicasInv', election, election', [Next]_vars
  PROVE  [Managed!Next]_(Managed!vars)
  <1>0. /\ TypeInv /\ TypeInv' /\ ElectedInv /\ ElectedInv'
        /\ \A p \in 1..2 : p = 1 \/ p = 2
    BY DEF ReplicasInv
  <1>1. ASSUME ~Reconciling(2), ~Reconciling(2)', [P1!Next]_(P1!vars)
        PROVE  [Managed!Next]_(Managed!vars)
    BY <1>0, <1>1, Leader, LeaderNext, OneIsManaged, StepAsOne DEF TypeInv, ElectedInv
  <1>2. ASSUME ~Reconciling(1), ~Reconciling(1)', [P2!Next]_(P2!vars)
        PROVE  [Managed!Next]_(Managed!vars)
    BY <1>0, <1>2, Leader, LeaderNext, TwoIsManaged, StepAsTwo DEF TypeInv, ElectedInv
  <1>3. CASE Step1
    <2>1. Reconciling(1) /\ P1!Next /\ (Reconciling(2)' = Reconciling(2))
      BY <1>3, SameOne DEF Step1, P1!Next, Reconciling
    <2> QED
      BY <1>0, <1>1, <2>1 DEF ElectedInv
  <1>4. CASE Step2
    <2>1. Reconciling(2) /\ P2!Next /\ (Reconciling(1)' = Reconciling(1))
      BY <1>4, SameTwo DEF Step2, P2!Next, Reconciling
    <2> QED
      BY <1>0, <1>2, <2>1 DEF ElectedInv
  <1>5. CASE Users
    <2>1. P1!Next /\ P2!Next /\ process' = process
      BY <1>5, UsersMap DEF Users, P1!Next, P2!Next
    <2>2. Reconciling(1)' = Reconciling(1) /\ Reconciling(2)' = Reconciling(2)
      BY <2>1 DEF Reconciling
    <2> QED
      BY <1>0, <1>1, <1>2, <2>1, <2>2 DEF ElectedInv
  <1>6. ASSUME UNCHANGED <<shared, worker1, worker2>>
        PROVE  UNCHANGED <<P1!vars, P2!vars>>
    BY <1>6 DEF shared, cr, worker1, worker2, P1!vars, P1!cr, P1!worker, P2!vars, P2!cr, P2!worker
  <1>7. ASSUME NEW p \in 1..2, Start(p) PROVE [Managed!Next]_(Managed!vars)
    <2>1. Reconciling(1)' = Reconciling(1) /\ Reconciling(2)' = Reconciling(2)
      BY <1>0, <1>7 DEF Start, Reconciling, TypeInv
    <2> QED
      BY <1>0, <1>1, <1>2, <1>6, <1>7, <2>1 DEF Start, ElectedInv
  <1>8. ASSUME Elect(1) PROVE [Managed!Next]_(Managed!vars)
    <2>1. ~Reconciling(2) /\ ~Reconciling(2)'
      BY <1>0, <1>8 DEF Elect, Reconciling, TypeInv
    <2> QED
      BY <1>1, <1>6, <1>8, <2>1 DEF Elect
  <1>9. ASSUME Elect(2) PROVE [Managed!Next]_(Managed!vars)
    <2>1. ~Reconciling(1) /\ ~Reconciling(1)'
      BY <1>0, <1>9 DEF Elect, Reconciling, TypeInv
    <2> QED
      BY <1>2, <1>6, <1>9, <2>1 DEF Elect
  <1>10. ASSUME Exit(1) PROVE [Managed!Next]_(Managed!vars)
    <2>1. /\ One!Crash /\ UNCHANGED worker2
          /\ ~Reconciling(1)' /\ Reconciling(2)' = Reconciling(2)
      BY <1>0, <1>10 DEF Exit, Reconciling, TypeInv
    <2>2. P1!Next
      BY <2>1, SameOne DEF P1!Next
    <2>3. CASE ~Reconciling(2)
      BY <1>1, <2>1, <2>2, <2>3
    <2>4. CASE Reconciling(2)
      <3>1. AsTwo /\ AsTwo'
        BY <1>0, <2>1, <2>4, Leader, LeaderNext DEF ElectedInv
      <3>2. UNCHANGED <<crState, finalizer, P2!Phase, P2!Claim, P2!Seen, P2!Actual>>
        BY <2>1, CrashEmpties DEF worker2, P2!Phase, P2!Claim, P2!Seen, P2!Actual, P2!Refused
      <3> QED
        BY <3>1, <3>2 DEF AsTwo, MPhase, MClaim, MSeen, Managed!vars, Managed!cr
    <2> QED
      BY <2>3, <2>4
  <1>11. ASSUME Exit(2) PROVE [Managed!Next]_(Managed!vars)
    <2>1. /\ Two!Crash /\ UNCHANGED worker1
          /\ ~Reconciling(2)' /\ Reconciling(1)' = Reconciling(1)
      BY <1>0, <1>11 DEF Exit, Reconciling, TypeInv
    <2>2. P2!Next
      BY <2>1, SameTwo DEF P2!Next
    <2>3. CASE ~Reconciling(1)
      BY <1>2, <2>1, <2>2, <2>3
    <2>4. CASE Reconciling(1)
      <3>1. AsOne /\ AsOne'
        BY <1>0, <2>1, <2>4, Leader, LeaderNext DEF ElectedInv
      <3>2. UNCHANGED <<crState, finalizer, P1!Phase, P1!Claim, P1!Seen, P1!Actual>>
        BY <2>1, CrashEmpties DEF worker1, P1!Phase, P1!Claim, P1!Seen, P1!Actual, P1!Refused
      <3> QED
        BY <3>1, <3>2 DEF AsOne, MPhase, MClaim, MSeen, Managed!vars, Managed!cr
    <2> QED
      BY <2>3, <2>4
  <1>12. CASE UNCHANGED vars
    <2>1. process' = process /\ UNCHANGED <<shared, worker1, worker2>>
      BY <1>12 DEF vars
    <2>2. Reconciling(1)' = Reconciling(1) /\ Reconciling(2)' = Reconciling(2)
      BY <2>1 DEF Reconciling
    <2> QED
      BY <1>0, <1>1, <1>2, <1>6, <2>1, <2>2 DEF ElectedInv
  <1> QED
    BY <1>0, <1>3, <1>4, <1>5, <1>7, <1>8, <1>9, <1>10, <1>11, <1>12 DEF Next

(* With leader election two processes reconcile as one: whatever call one  *)
(* was at when it stopped, the other's rounds keep the promises of         *)
(* ManagedResource to the CR and the dashboard the first has left.         *)
THEOREM ElectedReplicasAreOne == Spec => ElectedIsAlone
  <1>1. ReplicasInv /\ ReplicasInv' /\ [Next]_vars
          => [election => Managed!Next]_(Managed!vars)
    <2>1. [Next]_vars => election' = election
      BY DEF Next, Step1, Step2, Users, Start, Elect, Exit, vars
    <2> QED
      BY <2>1, ElectedStep
  <1> QED
    BY <1>1, Invariance, PTL DEF Spec, ElectedIsAlone
-----------------------------------------------------------------------------
(* Once both workers agree with the CR, and the dashboard shows its        *)
(* document.                                                               *)
LEMMA SameSettled ==
  /\ One!Settled <=> P1!Settled
  /\ Two!Settled <=> P2!Settled
  BY DEF One!Settled, P1!Settled, Two!Settled, P2!Settled

LEMMA SameSettledNext ==
  /\ One!Settled' <=> P1!Settled'
  /\ Two!Settled' <=> P2!Settled'
  BY DEF One!Settled, P1!Settled, Two!Settled, P2!Settled

LEMMA WorkersStaySettled ==
  /\ P1!TypeInv /\ P1!Worker /\ P1!Settled => P1!Settled' /\ UNCHANGED <<cr, dashboard>>
  /\ P2!TypeInv /\ P2!Worker /\ P2!Settled => P2!Settled' /\ UNCHANGED <<cr, dashboard>>
  BY P1!SettledByWorker, P2!SettledByWorker, Premises, TextsAssumption, DocsAssumption
  DEF cr, P1!cr, P2!cr

LEMMA CrashLeaves ==
  /\ One!Crash => pc1' = "idle" /\ UNCHANGED <<cr, dashboard>>
  /\ Two!Crash => pc2' = "idle" /\ UNCHANGED <<cr, dashboard>>
  BY DEF One!Crash, Two!Crash, One!cr, Two!cr, cr

(* As long as the CR and the dashboard are as they were, a worker that     *)
(* does not move stays settled, and so does one that forgets its round.    *)
LEMMA SettledKept ==
  ASSUME Agreed, UNCHANGED <<cr, dashboard>>
  PROVE  /\ UNCHANGED <<pc1, path1, desired1>> \/ pc1' = "idle" => One!Settled'
         /\ UNCHANGED <<pc2, path2, desired2>> \/ pc2' = "idle" => Two!Settled'
  BY DEF Agreed, One!Settled, Two!Settled, cr

LEMMA AgreementKept ==
  ASSUME TypeInv, Agreed, [Next]_vars, ~Users
  PROVE  Agreed' /\ UNCHANGED dashboard
  <1>0. \A p \in 1..2 : p = 1 \/ p = 2
    OBVIOUS
  <1>1. CASE Step1
    <2>1. One!Settled' /\ UNCHANGED <<cr, dashboard>>
      BY <1>1, SameOne, SameSettled, SameSettledNext, WorkersStaySettled
      DEF Step1, TypeInv, Agreed
    <2> QED
      BY <1>1, <2>1, SettledKept DEF Step1, Agreed
  <1>2. CASE Step2
    <2>1. Two!Settled' /\ UNCHANGED <<cr, dashboard>>
      BY <1>2, SameTwo, SameSettled, SameSettledNext, WorkersStaySettled
      DEF Step2, TypeInv, Agreed
    <2> QED
      BY <1>2, <2>1, SettledKept DEF Step2, Agreed
  <1>3. ASSUME UNCHANGED <<shared, worker1, worker2>>
        PROVE  Agreed' /\ UNCHANGED dashboard
    BY <1>3, SettledKept DEF shared, worker1, worker2, Agreed
  <1>4. ASSUME NEW p \in 1..2, Start(p) \/ Elect(p)
        PROVE  Agreed' /\ UNCHANGED dashboard
    BY <1>3, <1>4 DEF Start, Elect
  <1>5. ASSUME Exit(1) PROVE Agreed' /\ UNCHANGED dashboard
    BY <1>5, CrashLeaves, SettledKept DEF Exit, worker2, Agreed
  <1>6. ASSUME Exit(2) PROVE Agreed' /\ UNCHANGED dashboard
    BY <1>6, CrashLeaves, SettledKept DEF Exit, worker1, Agreed
  <1>7. CASE UNCHANGED vars
    BY <1>3, <1>7 DEF vars
  <1> QED
    BY <1>0, <1>1, <1>2, <1>4, <1>5, <1>6, <1>7 DEF Next

(* The safety half of EventuallyConverges and EventuallyQuiet, for two     *)
(* processes that may reconcile at the same time: once they agree, neither *)
(* undoes it for the other, nor do restarts and elections.                 *)
THEOREM ReplicasAgreementLasts == Spec => AgreementLasts
  <1>1. TypeInv /\ [Next]_vars => [Agreed => Users \/ (Agreed' /\ UNCHANGED dashboard)]_vars
    BY AgreementKept
  <1> QED
    BY <1>1, Typed, PTL DEF Spec, AgreementLasts
=============================================================================
