------------------------------ MODULE Replicas -------------------------------
(***************************************************************************)
(* Two controller processes, as during every rollout of the Deployment     *)
(* (one replica, the default strategy) or with more replicas: each is      *)
(* cmd/controller/main.go with a worker of Dashboard in it, and both act   *)
(* on one CR and one dashboard.  Whether main starts the manager with      *)
(* leader election is chosen at first; the chart's default is without.     *)
(* The lease itself, and that a process gives it up no earlier than it     *)
(* stops reconciling, is of controller-runtime.                            *)
(***************************************************************************)
EXTENDS Naturals

CONSTANTS Texts, Docs, NotJson, Warned, Bodies, None,
          MaxEdits, MaxOutside, MaxFailures, MaxCrashes   \* as in Dashboard

VARIABLES
    crState, finalizer, spec, messages, outcome, dashboard, unreported, used,
    pc1, path1, desired1, latest1, halted1, edited1, interfered1,
    pc2, path2, desired2, latest2, halted2, edited2, interfered2,
    election,     \* ackCfg.EnableLeaderElection
    process       \* how far main has come: "down", "waiting", "reconciling"

One == INSTANCE Dashboard WITH
    pc <- pc1, path <- path1, desired <- desired1, latest <- latest1,
    halted <- halted1, edited <- edited1, interfered <- interfered1

Two == INSTANCE Dashboard WITH
    pc <- pc2, path <- path2, desired <- desired2, latest <- latest2,
    halted <- halted2, edited <- edited2, interfered <- interfered2

(* The assumptions of Dashboard.                                           *)
ASSUME BodiesAssumption == Bodies \subseteq One!Body
ASSUME TextsAssumption == \A b, c \in Bodies : b.text = c.text => b.doc = c.doc
ASSUME DocsAssumption == NotJson \notin Docs /\ None \notin Docs /\ Warned \subseteq Docs
ASSUME NoneAssumption == None \notin One!Body /\ None \notin One!Object

cr      == <<crState, finalizer, spec>>
shared  == <<cr, messages, outcome, dashboard, unreported, used>>
worker1 == <<pc1, path1, desired1, latest1, halted1, edited1, interfered1>>
worker2 == <<pc2, path2, desired2, latest2, halted2, edited2, interfered2>>
vars    == <<shared, worker1, worker2, election, process>>

TypeOK ==
    /\ One!TypeOK /\ Two!TypeOK
    /\ election \in BOOLEAN
    /\ process \in [1..2 -> {"down", "waiting", "reconciling"}]

Init ==
    /\ One!Init /\ Two!Init
    /\ election \in BOOLEAN
    /\ process = [p \in 1..2 |-> "down"]

-----------------------------------------------------------------------------
(* The processes.                                                          *)

(* main up to mgr.Start; an error before that ends it, which is as if it   *)
(* had not begun.                                                          *)
Start(p) ==
    /\ process[p] = "down" /\ process' = [process EXCEPT ![p] = "waiting"]
    /\ UNCHANGED <<shared, worker1, worker2, election>>

(* Wrong: the reconcilers do not wait for the election.                    *)
ElectAtOnce(p) ==
    /\ process[p] = "waiting" /\ process' = [process EXCEPT ![p] = "reconciling"]
    /\ UNCHANGED <<shared, worker1, worker2, election>>

(* mgr.Start runs the reconcilers, of the elected process only if there is *)
(* an election.                                                            *)
Elect(p) ==
    /\ process[p] = "waiting"
    /\ election => \A q \in 1..2 : process[q] # "reconciling"
    /\ process' = [process EXCEPT ![p] = "reconciling"]
    /\ UNCHANGED <<shared, worker1, worker2, election>>

(* mgr.Start returns, for a signal, a lease that is lost or an error, or   *)
(* the pod is killed.                                                      *)
Exit(p) ==
    /\ process[p] # "down" /\ process' = [process EXCEPT ![p] = "down"]
    /\ IF p = 1 THEN One!Crash /\ UNCHANGED worker2 ELSE Two!Crash /\ UNCHANGED worker1
    /\ UNCHANGED election

-----------------------------------------------------------------------------
(* The workers, each of which finds the CR and the dashboard as the other  *)
(* leaves them.  An event of the CR brings back one that a terminal error  *)
(* has halted; what the finalizer does to the CR is no such event.         *)

Step1 ==
    /\ process[1] = "reconciling" /\ One!Worker
    /\ edited2' = (edited2 \/ <<crState, spec>>' # <<crState, spec>>)
    /\ halted2' = (halted2 /\ <<crState, spec>>' = <<crState, spec>>)
    /\ interfered2' = (interfered2 \/ dashboard' # dashboard)
    /\ UNCHANGED <<pc2, path2, desired2, latest2, election, process>>

Step2 ==
    /\ process[2] = "reconciling" /\ Two!Worker
    /\ edited1' = (edited1 \/ <<crState, spec>>' # <<crState, spec>>)
    /\ halted1' = (halted1 /\ <<crState, spec>>' = <<crState, spec>>)
    /\ interfered1' = (interfered1 \/ dashboard' # dashboard)
    /\ UNCHANGED <<pc1, path1, desired1, latest1, election, process>>

(* The CR's users; other writers of the dashboard are left to Dashboard.   *)
Users ==
    /\ \/ \E b \in Bodies : \/ One!CreateCR(b) /\ Two!CreateCR(b)
                            \/ One!EditSpec(b) /\ Two!EditSpec(b)
       \/ One!DeleteCR /\ Two!DeleteCR
    /\ UNCHANGED <<election, process>>

Next == \/ Step1 \/ Step2
        \/ Users
        \/ \E p \in 1..2 : Start(p) \/ Elect(p) \/ Exit(p)

(* The kubelet starts a process again that has ended, an election ends     *)
(* with a leader, and each process schedules its worker.                   *)
Fairness ==
    /\ WF_vars(Step1) /\ WF_vars(Step2)
    /\ \A p \in 1..2 : WF_vars(Start(p)) /\ WF_vars(Elect(p))

Spec == Init /\ [][Next]_vars /\ Fairness

-----------------------------------------------------------------------------
(* With or without an election, a process that is about to report success  *)
(* has left the document it was asked for in CloudWatch, unless the other  *)
(* changed the dashboard after this round began (interfered).              *)
SuccessMeansApplied == One!SuccessMeansApplied /\ Two!SuccessMeansApplied

(* With an election, the two processes are one ManagedResource: whatever   *)
(* round one of them was in when it stopped, the other goes on as if it    *)
(* were alone.                                                             *)
Reconciling(p) == process[p] = "reconciling"

OfLeader(one, two, none) ==
    IF Reconciling(1) THEN one ELSE IF Reconciling(2) THEN two ELSE none

Managed == INSTANCE ManagedResource WITH
    Things <- Docs, phase <- OfLeader(One!Phase, Two!Phase, "idle"),
    claim <- OfLeader(One!Claim, Two!Claim, None),
    seen <- OfLeader(One!Seen, Two!Seen, None), actual <- One!Actual

ElectedIsAlone == [][election => Managed!Next]_(Managed!vars)

(* With or without it, the processes agree in the end: the dashboard shows *)
(* the document of the CR, also if a process that read an older one wrote  *)
(* last ...                                                                *)
EventuallyConverges == <>[](One!Acceptable => dashboard # None /\ dashboard.doc = spec.doc)

(* ... and neither overwrites the other for ever.                          *)
EventuallyQuiet == <>[](pc1 \notin {"create", "put"} /\ pc2 \notin {"create", "put"})

(* Both workers are through with what the CR asks, or about to find that   *)
(* they are.                                                               *)
Agreed == One!Settled /\ Two!Settled

(* From then on neither writes anything, whatever it reads, fails or       *)
(* retries and whichever process stops, starts or is elected, until a user *)
(* changes the CR: with or without an election.                            *)
AgreementLasts == [][Agreed => Users \/ (Agreed' /\ UNCHANGED dashboard)]_vars
=============================================================================
