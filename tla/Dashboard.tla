----------------------------- MODULE Dashboard ------------------------------
(***************************************************************************)
(* One Dashboard CR, the dashboard it names and the worker that reconciles *)
(* them.  A body is a text and the JSON document the text stands for; many *)
(* texts stand for one document, and the service may hand back another     *)
(* than it was given.  Unlike the other kinds a dashboard has terminal     *)
(* error codes, after which the CR is left alone until it changes, and the *)
(* validation messages of PutDashboard are shown in the CR's status.       *)
(***************************************************************************)
EXTENDS Naturals

CONSTANTS
    Texts, Docs,          \* texts of bodies, JSON documents
    NotJson,              \* what a text stands for that does not parse
    Warned,               \* documents that PutDashboard warns about
    Bodies,               \* the bodies that occur
    None,                 \* no dashboard, no message, no object in hand
    MaxEdits, MaxOutside, MaxFailures, MaxCrashes   \* bounds of the checks

Body == [text : Texts, doc : Docs \cup {NotJson}]

ASSUME BodiesAssumption == Bodies \subseteq Body
(* Parsing is a function of the text.                                      *)
ASSUME TextsAssumption == \A b, c \in Bodies : b.text = c.text => b.doc = c.doc
ASSUME DocsAssumption == NotJson \notin Docs /\ None \notin Docs /\ Warned \subseteq Docs
ASSUME NoneAssumption == None \notin Body /\ None \notin [body : Body, messages : Docs \cup {None}]

Stored == {b \in Bodies : b.doc # NotJson}

Object == [body : Body, messages : Docs \cup {None}]

VARIABLES
    crState,      \* "absent", "live", or "deleting" (deletionTimestamp set)
    finalizer,    \* the CR carries FinalizerString
    spec,         \* Spec.DashboardBody of the CR
    messages,     \* Status.DashboardValidationMessages, as the document they
                  \* are about, or None
    outcome,      \* how the last reconciliation ended, "none" if it did not
    dashboard,    \* the body in CloudWatch, or None
    pc,           \* the worker's next call
    path,         \* "sync" or "delete"
    desired,      \* the worker's copy of the CR
    latest,       \* what ReadOne observed
    halted,       \* it was given up: there is no retry until the CR changes
    edited,       \* the CR changed since the worker read it
    interfered,   \* others changed the dashboard since the worker began
    unreported,   \* the dashboard may be what a PutDashboard made it whose
                  \* messages have not reached the CR
    used          \* how much of each bound is used up

cr      == <<crState, finalizer, spec>>
worker  == <<pc, path, desired, latest>>
vars    == <<cr, messages, outcome, dashboard, worker, halted, edited,
             interfered, unreported, used>>

Calls == {"get", "manage", "create", "put", "patch", "delete", "unmanage"}

TypeOK ==
    /\ crState \in {"absent", "live", "deleting"}
    /\ finalizer \in BOOLEAN
    /\ spec \in Body
    /\ messages \in Docs \cup {None}
    /\ outcome \in {"none", "synced", "recoverable", "terminal", "unmanaged"}
    /\ dashboard \in Body \cup {None}
    /\ pc \in Calls \cup {"idle"}
    /\ path \in {"sync", "delete"}
    /\ desired \in Object \cup {None}
    /\ latest \in Object \cup {None}
    /\ halted \in BOOLEAN /\ edited \in BOOLEAN
    /\ interfered \in BOOLEAN /\ unreported \in BOOLEAN
    /\ used \in [{"edits", "outside", "failures", "crashes"} -> Nat]

Init ==
    /\ crState = "absent" /\ finalizer = FALSE
    /\ spec \in Bodies /\ messages = None /\ outcome = "none"
    /\ dashboard = None
    /\ pc = "idle" /\ path = "sync" /\ desired = None /\ latest = None
    /\ halted = FALSE /\ edited = FALSE /\ interfered = FALSE /\ unreported = FALSE
    /\ used = [b \in {"edits", "outside", "failures", "crashes"} |-> 0]

-----------------------------------------------------------------------------
(* Users of the CR and of CloudWatch, failures and crashes.  An event of   *)
(* the CR and a restart of the controller bring a halted CR back.          *)

Use(bound) == used' = [used EXCEPT ![bound] = @ + 1]

CreateCR(b) ==
    /\ crState = "absent" /\ used["edits"] < MaxEdits /\ Use("edits")
    /\ crState' = "live" /\ finalizer' = FALSE /\ spec' = b
    /\ messages' = None /\ outcome' = "none"
    /\ halted' = FALSE /\ edited' = TRUE
    /\ UNCHANGED <<dashboard, worker, interfered, unreported>>

EditSpec(b) ==
    /\ crState # "absent" /\ used["edits"] < MaxEdits /\ Use("edits")
    /\ spec' = b /\ halted' = FALSE /\ edited' = TRUE
    /\ UNCHANGED <<crState, finalizer, messages, outcome, dashboard, worker,
                   interfered, unreported>>

DeleteCR ==
    /\ crState = "live"
    /\ crState' = IF finalizer THEN "deleting" ELSE "absent"
    /\ halted' = FALSE /\ edited' = TRUE
    /\ UNCHANGED <<finalizer, spec, messages, outcome, dashboard, worker,
                   interfered, unreported, used>>

OutsideChange(b) ==
    /\ used["outside"] < MaxOutside /\ Use("outside")
    /\ dashboard' = b /\ interfered' = TRUE /\ unreported' = TRUE
    /\ UNCHANGED <<cr, messages, outcome, worker, halted, edited>>

Crash ==
    /\ used["crashes"] < MaxCrashes /\ Use("crashes")
    /\ pc' = "idle" /\ desired' = None /\ latest' = None /\ halted' = FALSE
    /\ UNCHANGED <<cr, messages, outcome, dashboard, path, edited, interfered,
                   unreported>>

-----------------------------------------------------------------------------
(* The worker.                                                             *)

(* Wrong: every code is terminal; so is ResourceNotFound.                  *)
TerminalAlways(code) == TRUE
TerminalNotFound(code) ==
    code \in {"InvalidParameterValueException", "InvalidParameterInput", "ResourceNotFound"}

(* terminalAWSError                                                        *)
TerminalAWSError(code) ==
    code \in {"InvalidParameterValueException", "InvalidParameterInput"}

(* Whether a round that ends so is the last until the CR changes: onError  *)
(* answers ackerr.Terminal for a terminal error and no other, and whether  *)
(* the runtime gives up an unmanaged resource, too, is left open.  A CR    *)
(* that changed meanwhile is queued again, whatever the error.             *)
Halts(o) == {h \in BOOLEAN : /\ h => ~edited /\ o \in {"terminal", "unmanaged"}
                             /\ ~edited /\ o = "terminal" => h}

Finish(o) ==
    /\ pc' = "idle" /\ desired' = None /\ latest' = None
    /\ outcome' = IF crState = "absent" THEN outcome ELSE o
    /\ halted' \in Halts(o)
    /\ UNCHANGED path

Fails(code) == Finish(IF TerminalAWSError(code) THEN "terminal" ELSE "recoverable")

(* A remote call that fails: it returns an error, applied or not.          *)
Failing == used["failures"] < MaxFailures /\ Use("failures")

Goto(next) == pc' = next /\ UNCHANGED <<path, desired, latest, outcome, halted>>

Begin ==
    /\ pc = "idle" /\ crState # "absent" /\ ~halted
    /\ pc' = "get"
    /\ path' = IF crState = "deleting" THEN "delete" ELSE "sync"
    /\ desired' = [body |-> spec, messages |-> messages]
    /\ outcome' = "none" /\ edited' = FALSE /\ interfered' = FALSE
    /\ UNCHANGED <<cr, messages, dashboard, latest, halted, unreported, used>>

(* Wrong: the body left out; texts compared; an error of the comparison    *)
(* taken for equality.                                                     *)
DeltaWithoutBody(a, b) == FALSE
DeltaOfTexts(a, b) == a.body.text # b.body.text
DeltaOfParsed(a, b) ==
    NotJson \notin {a.body.doc, b.body.doc} /\ a.body.doc # b.body.doc

(* newResourceDelta: DocumentEqual of the runtime compares documents, and  *)
(* texts when there is no document (delta_test.go).                        *)
Delta(a, b) ==
    IF NotJson \in {a.body.doc, b.body.doc}
    THEN a.body.text # b.body.text
    ELSE a.body.doc # b.body.doc

(* ReadOne: sdkFind overwrites the body in a copy of the CR, so the        *)
(* messages are those the CR has.  A dashboard that is there although the  *)
(* CR is not managed is left alone by the reconciler.                      *)
GetDashboard ==
    /\ pc = "get"
    /\ \/ /\ dashboard # None /\ finalizer
          /\ latest' = [desired EXCEPT !.body = dashboard]
          /\ pc' = CASE path = "delete" -> "delete"
                     [] path = "sync" -> IF Delta(desired, latest') THEN "put" ELSE "patch"
          /\ UNCHANGED <<path, desired, outcome, halted, used>>
       \/ dashboard # None /\ ~finalizer /\ Finish("unmanaged") /\ UNCHANGED used
       \/ /\ dashboard = None /\ UNCHANGED used
          /\ Goto(IF path = "delete" THEN "unmanage" ELSE "manage")
       \/ Failing /\ Fails("Throttling")
    /\ UNCHANGED <<cr, messages, dashboard, edited, interfered, unreported>>

Manage ==
    /\ pc = "manage"
    /\ \/ /\ crState # "absent" /\ finalizer' = TRUE
          /\ Goto("create") /\ UNCHANGED used
       \/ crState = "absent" /\ Finish("recoverable") /\ UNCHANGED <<finalizer, used>>
       \/ Failing /\ Finish("recoverable") /\ UNCHANGED finalizer
    /\ UNCHANGED <<crState, spec, messages, dashboard, edited, interfered, unreported>>

(* PutDashboard: a body that does not parse is refused, any other stored   *)
(* as some text of the same document.                                      *)
Refused(b) == b.doc = NotJson

Applied ==
    /\ ~Refused(desired.body)
    /\ dashboard' \in {b \in Stored : b.doc = desired.body.doc}
    /\ unreported' = TRUE

Warnings(b) == IF b.doc \in Warned THEN b.doc ELSE None

(* Wrong: no messages in the response, none taken over.                    *)
AnswerMessagesKept(o) ==
    [o EXCEPT !.messages = IF Warnings(o.body) = None THEN @ ELSE Warnings(o.body)]

(* What sdkCreate and sdkUpdate return: the messages of the response, or   *)
(* nil if it has none.                                                     *)
AnswerMessages(o) == [o EXCEPT !.messages = Warnings(o.body)]

Answered ==
    /\ Applied /\ desired' = AnswerMessages(desired) /\ pc' = "patch"
    /\ UNCHANGED <<path, latest, outcome, halted>>

CreateFails(code) ==
    /\ Fails(code)
    /\ \/ UNCHANGED <<crState, finalizer>>
       \/ /\ finalizer' = FALSE
          /\ crState' = IF crState = "deleting" THEN "absent" ELSE crState

Create ==
    /\ pc = "create"
    /\ \/ Answered /\ UNCHANGED <<crState, finalizer, used>>
       \/ /\ Refused(desired.body) /\ CreateFails("InvalidParameterInput")
          /\ UNCHANGED <<dashboard, unreported, used>>
       \/ Failing /\ CreateFails("Throttling") /\ UNCHANGED <<dashboard, unreported>>
       \/ Failing /\ CreateFails("Throttling") /\ Applied
    /\ UNCHANGED <<spec, messages, edited, interfered>>

Update ==
    /\ pc = "put"
    /\ \/ Answered /\ UNCHANGED used
       \/ /\ Refused(desired.body) /\ Fails("InvalidParameterInput")
          /\ UNCHANGED <<dashboard, unreported, used>>
       \/ Failing /\ Fails("Throttling") /\ UNCHANGED <<dashboard, unreported>>
       \/ Failing /\ Fails("Throttling") /\ Applied
    /\ UNCHANGED <<cr, messages, edited, interfered>>

(* The status is patched with what Create, Update or else ReadOne returned.*)
PatchStatus ==
    /\ pc = "patch"
    /\ \/ /\ Finish("synced") /\ UNCHANGED used
          /\ IF latest = None \/ Delta(desired, latest)
             THEN messages' = desired.messages /\ unreported' = interfered
             ELSE messages' = latest.messages /\ UNCHANGED unreported
       \/ Failing /\ Finish("recoverable") /\ UNCHANGED <<messages, unreported>>
    /\ UNCHANGED <<cr, dashboard, edited, interfered>>

(* Wrong: the error of DeleteDashboards ignored.                           *)
DeleteUnchecked ==
    /\ pc = "delete" /\ Goto("unmanage")
    /\ \/ dashboard' = None /\ UNCHANGED used
       \/ Failing /\ UNCHANGED dashboard
    /\ UNCHANGED <<cr, messages, edited, interfered, unreported>>

(* sdkDelete: the service's error is returned as it is.                    *)
Delete ==
    /\ pc = "delete"
    /\ \/ dashboard # None /\ dashboard' = None /\ Goto("unmanage") /\ UNCHANGED used
       \/ dashboard = None /\ Fails("ResourceNotFound") /\ UNCHANGED <<dashboard, used>>
       \/ Failing /\ Fails("Throttling") /\ dashboard' \in {dashboard, None}
    /\ UNCHANGED <<cr, messages, edited, interfered, unreported>>

(* MarkUnmanaged: Kubernetes then lets a CR that is being deleted go.      *)
Unmanage ==
    /\ pc = "unmanage"
    /\ \/ /\ finalizer' = FALSE
          /\ crState' = IF crState = "deleting" THEN "absent" ELSE crState
          /\ Finish("synced") /\ UNCHANGED used
       \/ Failing /\ Finish("recoverable") /\ UNCHANGED <<crState, finalizer>>
    /\ UNCHANGED <<spec, messages, dashboard, edited, interfered, unreported>>

Worker == \/ Begin
          \/ GetDashboard
          \/ Manage \/ Create
          \/ Update
          \/ PatchStatus
          \/ Delete \/ Unmanage

Environment == \/ \E b \in Bodies : CreateCR(b) \/ EditSpec(b)
               \/ DeleteCR
               \/ \E b \in Stored \cup {None} : OutsideChange(b)
               \/ Crash

Next == Worker \/ Environment

Spec == Init /\ [][Next]_vars

(* The worker is scheduled as long as it is not halted.                    *)
FairSpec == Spec /\ WF_vars(Worker)

-----------------------------------------------------------------------------
(* Unless others touched the dashboard meanwhile, a reconciliation about   *)
(* to report success left in CloudWatch the document asked for.            *)
SuccessMeansApplied ==
    pc = "patch" /\ ~interfered => dashboard # None /\ dashboard.doc = desired.body.doc

(* A CR that was reconciled shows the messages for its body, of no earlier *)
(* body and of no earlier dashboard, unless the dashboard was written by   *)
(* others or an answer or the patch of the status was lost on the way.     *)
MessagesAreOfTheBody ==
    outcome = "synced" /\ crState = "live" /\ pc = "idle" /\ ~edited /\ ~unreported =>
        messages = Warnings(spec)

(* A CR that was given up with a terminal error still has a body that is   *)
(* refused: one corrected while the error was on its way is tried again.   *)
TerminalIsCurrent == halted /\ outcome = "terminal" => Refused(spec)

(* Unless others touched it meanwhile, there is no dashboard when the      *)
(* worker creates one, puts its finalizer on the CR or takes it off: a     *)
(* create replaces none, and no CR is let go of while one is left, but by  *)
(* a create that fails after it was applied.                               *)
FinalizerGoesLast ==
    [][(Worker /\ finalizer' # finalizer) \/ Create => interfered \/ dashboard = None]_vars

(* A round is one of ManagedResource, the documents being what it is       *)
(* about: see there.  A body that does not parse claims nothing.           *)
Phase == CASE pc = "idle" -> "idle"
           [] pc = "get" -> "asked"
           [] pc \in {"manage", "create", "unmanage"} -> "absent"
           [] pc \in {"put", "delete"} -> "present"
           [] pc = "patch" -> "done"

Claim == IF desired = None \/ path = "delete" THEN None
         ELSE IF Refused(desired.body) THEN None ELSE desired.body.doc

Seen == IF latest = None \/ pc = "unmanage" THEN None ELSE latest.body.doc

Actual == IF dashboard = None THEN None ELSE dashboard.doc

Managed == INSTANCE ManagedResource WITH
    Things <- Docs, phase <- Phase, claim <- Claim, seen <- Seen, actual <- Actual

ImplementsManagedResource == Managed!Spec

(* What an undisturbed round leaves behind: the dashboard is right, and    *)
(* the worker has nothing in hand but what the CR says.                    *)
Settled ==
    /\ crState = "live" /\ finalizer
    /\ dashboard # None /\ dashboard.doc = spec.doc
    /\ pc # "idle" => pc \in {"get", "patch"} /\ path = "sync" /\ desired.body = spec

(* From a round without disturbance on the worker writes nothing more,     *)
(* whatever it reads, fails or retries, until somebody else acts.          *)
StaysSettled ==
    [][/\ PatchStatus /\ ~edited /\ ~interfered => Settled'
       /\ Worker /\ Settled => Settled' /\ UNCHANGED dashboard]_vars

(* A CR whose body the service can take, not barred by a dashboard that    *)
(* exists without being managed, nor given up because of one.              *)
Acceptable ==
    /\ crState = "live" /\ ~Refused(spec)
    /\ finalizer \/ (dashboard = None /\ ~(halted /\ outcome = "unmanaged"))

(* Once disturbances stop the dashboard shows the document of the CR, also *)
(* if an earlier body ended the retries with a terminal error.             *)
EventuallyConverges ==
    <>[](Acceptable => dashboard # None /\ dashboard.doc = spec.doc)

(* ... and the controller stops writing, be it that the service formats    *)
(* the body in its own way or that it refuses it.                          *)
EventuallyQuiet == <>[](pc \notin {"create", "put"})

(* A deleted CR goes, also if a terminal error has halted it.              *)
DeletionCompletes == crState = "deleting" ~> crState = "absent"

(* The CRD's comment on DashboardValidationMessages (dashboard.go:55-56):  *)
(* "If the input for PutDashboard was correct and the dashboard was        *)
(* successfully created or modified, this result is empty."                *)
CorrectInputHasNoMessages ==
    outcome = "synced" /\ crState = "live" /\ pc = "idle" /\ ~edited
    /\ Warnings(spec) = None => messages = None
=============================================================================
