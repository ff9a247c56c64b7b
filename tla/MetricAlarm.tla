---------------------------- MODULE MetricAlarm ----------------------------
(***************************************************************************)
(* One MetricAlarm custom resource (CR), the CloudWatch alarm it names and *)
(* the worker that reconciles them.  A step of the worker is what lies     *)
(* between two remote calls of ReadOne, Create, Update or Delete, so that  *)
(* users of the CR, users of CloudWatch, failures and crashes come in      *)
(* between.  The order in which the runtime's reconciler calls the         *)
(* resource manager is external (the runtime is a library).                *)
(***************************************************************************)
EXTENDS AckTags, AlarmConfig

CONSTANTS
    DefaultTags,          \* the tags of --resource-tags, a tag map
    Specs,                \* the specs users give the CR
    OutsideAlarms,        \* the alarms others put in CloudWatch
    None,                 \* no alarm, no resource in hand
    MaxEdits, MaxOutside, MaxFailures, MaxCrashes   \* bounds of the checks

Resource == [config : AlarmSpec, tags : TagMap]

ASSUME DefaultTagsAssumption == DefaultTags \in TagMap
ASSUME SpecsAssumption == Specs \subseteq Resource /\ OutsideAlarms \subseteq Resource
(* The service never leaves a field that it defaults unset, and keeps only *)
(* what a request to it can express: no window without a member.           *)
ASSUME OutsideAlarmsAssumption ==
    \A a \in OutsideAlarms :
        /\ a.config.ActionsEnabled # Nil /\ a.config.EvaluationWindow # {}
        /\ PayloadError(a.config) = "none"
ASSUME NoneAssumption == None \notin Resource /\ None \notin AlarmSpec
ASSUME BoundsAssumption == {MaxEdits, MaxOutside, MaxFailures, MaxCrashes} \subseteq Nat

VARIABLES
    crState,      \* "absent", "live", or "deleting" (deletionTimestamp set)
    finalizer,    \* the CR carries FinalizerString
    spec,         \* the CR's spec
    outcome,      \* how the last reconciliation of the CR ended
    halted,       \* it was given up: there is no retry until the CR changes
    alarm,        \* the alarm in CloudWatch, or None
    ours,         \* the controller's own PutMetricAlarm made it
    pc,           \* the worker's next call
    path,         \* "sync" or "delete"
    desired,      \* the worker's copy of the CR
    latest,       \* what ReadOne observed
    edited,       \* the CR's spec was edited since the worker read it
    interfered,   \* others changed the alarm since the worker began
    lostCreate,   \* the alarm's creating Put was reported as an error, and no
                  \* managed read has seen the alarm since
    used          \* how much of each bound is used up

cr      == <<crState, finalizer, spec>>
aws     == <<alarm, ours>>
worker  == <<pc, path, desired, latest>>
history == <<edited, interfered, lostCreate>>
vars    == <<cr, outcome, halted, aws, worker, history, used>>

Calls == {"describe", "listTags", "manage", "create", "tag", "untag", "put",
          "patch", "delete", "unmanage"}

TypeOK ==
    /\ crState \in {"absent", "live", "deleting"}
    /\ finalizer \in BOOLEAN
    /\ spec \in Resource
    /\ outcome \in {"none", "synced", "recoverable", "terminal", "unmanaged"}
    /\ halted \in BOOLEAN
    /\ alarm \in Resource \cup {None}
    /\ ours \in BOOLEAN
    /\ pc \in Calls \cup {"idle"}
    /\ path \in {"sync", "delete"}
    /\ desired \in Resource \cup {None}
    /\ latest \in Resource \cup {None}
    /\ edited \in BOOLEAN /\ interfered \in BOOLEAN /\ lostCreate \in BOOLEAN
    /\ used \in [edits : Nat, outside : Nat, failures : Nat, crashes : Nat]

Init ==
    /\ crState = "absent" /\ finalizer = FALSE
    /\ spec \in Specs
    /\ outcome = "none" /\ halted = FALSE
    /\ alarm = None /\ ours = FALSE
    /\ pc = "idle" /\ path = "sync" /\ desired = None /\ latest = None
    /\ edited = FALSE /\ interfered = FALSE /\ lostCreate = FALSE
    /\ used = [edits |-> 0, outside |-> 0, failures |-> 0, crashes |-> 0]

-----------------------------------------------------------------------------
(* The users of the CR and of CloudWatch, failures and crashes.  A change  *)
(* of the CR and a restart bring back one that was given up.               *)

Use(bound) == used' = [used EXCEPT ![bound] = @ + 1]

CreateCR(s) ==
    /\ crState = "absent" /\ used.edits < MaxEdits /\ Use("edits")
    /\ crState' = "live" /\ finalizer' = FALSE /\ spec' = s
    /\ outcome' = "none" /\ halted' = FALSE /\ edited' = TRUE
    /\ UNCHANGED <<aws, worker, interfered, lostCreate>>

EditSpec(s) ==
    /\ crState # "absent" /\ used.edits < MaxEdits /\ Use("edits")
    /\ spec' = s /\ halted' = FALSE /\ edited' = TRUE
    /\ UNCHANGED <<crState, finalizer, outcome, aws, worker, interfered, lostCreate>>

(* Kubernetes keeps a deleted object for as long as it has a finalizer.    *)
DeleteCR ==
    /\ crState = "live"
    /\ crState' = IF finalizer THEN "deleting" ELSE "absent"
    /\ halted' = FALSE
    /\ UNCHANGED <<finalizer, spec, outcome, aws, worker, history, used>>

Gone == alarm' = None /\ ours' = FALSE /\ lostCreate' = FALSE

OutsidePut(a) ==
    /\ used.outside < MaxOutside /\ Use("outside")
    /\ alarm' = a /\ interfered' = TRUE
    /\ UNCHANGED <<cr, outcome, halted, ours, worker, edited, lostCreate>>

OutsideDelete ==
    /\ alarm # None /\ used.outside < MaxOutside /\ Use("outside")
    /\ Gone /\ interfered' = TRUE
    /\ UNCHANGED <<cr, outcome, halted, worker, edited>>

(* The process stops between two calls; what it held in memory is gone.    *)
Crash ==
    /\ pc # "idle" \/ halted
    /\ used.crashes < MaxCrashes /\ Use("crashes")
    /\ pc' = "idle" /\ desired' = None /\ latest' = None /\ halted' = FALSE
    /\ UNCHANGED <<cr, outcome, aws, path, history>>

-----------------------------------------------------------------------------
(* The worker.                                                             *)

SystemTags == KeysOf(DefaultTags)

(* The CR is no longer as the worker read it, and so is queued again.      *)
Changed == edited \/ crState # (IF path = "delete" THEN "deleting" ELSE "live")

(* Whether a round that ends so is the last until the CR changes: onError  *)
(* answers ackerr.Terminal for a terminal error and no other, and whether  *)
(* the runtime gives up an unmanaged resource, too, is left open.          *)
Halts(o) == {h \in BOOLEAN : /\ h => ~Changed /\ o \in {"terminal", "unmanaged"}
                             /\ ~Changed /\ o = "terminal" => h}

Finish(o) ==
    /\ pc' = "idle" /\ desired' = None /\ latest' = None
    /\ outcome' = IF crState = "absent" THEN outcome ELSE o
    /\ halted' \in Halts(o)
    /\ UNCHANGED path

(* A remote call that fails: it returns an error, applied or not.          *)
Failing == used.failures < MaxFailures /\ Use("failures")

Goto(next) == pc' = next /\ UNCHANGED <<path, desired, latest, outcome, halted>>

Begin ==
    /\ pc = "idle" /\ crState # "absent" /\ ~halted
    /\ pc' = "describe"
    /\ path' = IF crState = "deleting" THEN "delete" ELSE "sync"
    /\ desired' = IF crState = "deleting" THEN spec
                  ELSE [spec EXCEPT !.tags = EnsureTags(@, DefaultTags)]
    /\ edited' = FALSE /\ interfered' = FALSE
    /\ UNCHANGED <<cr, outcome, halted, aws, latest, lostCreate, used>>

(* sdkFind, first call: an empty list and the error code UNKNOWN are both  *)
(* NotFound; the tags of `latest` are still those of the desired resource. *)
DescribeAlarms ==
    /\ pc = "describe"
    /\ \/ /\ alarm # None
          /\ latest' = [config |-> alarm.config, tags |-> desired.tags]
          /\ pc' = "listTags"
          /\ UNCHANGED <<path, desired, outcome, halted, used>>
       \/ /\ alarm = None
          /\ Goto(IF path = "delete" THEN "unmanage" ELSE "manage")
          /\ UNCHANGED used
       \/ Failing /\ Finish("recoverable")
    /\ UNCHANGED <<cr, aws, history>>

(* Wrong: the fields' delta overlooked.                                    *)
AfterTagsDone(d, l) == "patch"

(* sdkUpdate, as the call that comes next: syncTags when the delta is at   *)
(* Spec.Tags, then PutMetricAlarm when it is anywhere else.                *)
AfterTags(d, l) == IF Delta(d.config, l.config) # {} THEN "put" ELSE "patch"

AfterAdd(d, l) ==
    IF TagsToRemove(d.tags, l.tags) # {} THEN "untag" ELSE AfterTags(d, l)

AfterDelta(d, l) ==
    IF KeysOf(TagsToAdd(d.tags, l.tags)) # {} THEN "tag" ELSE AfterAdd(d, l)

(* sdkFind, second call, and the mirrorAWSTags of ReadOne.  An alarm that  *)
(* went away since is an error here, not NotFound.  The reconciler does    *)
(* not update a resource that is not IsManaged.                            *)
ListTagsForResource ==
    /\ pc = "listTags"
    /\ \/ /\ alarm # None /\ finalizer
          /\ latest' = [latest EXCEPT !.tags = alarm.tags]
          /\ desired' = [desired EXCEPT !.tags = MirrorAWSTags(@, alarm.tags)]
          /\ pc' = IF path = "delete" THEN "delete" ELSE AfterDelta(desired', latest')
          /\ lostCreate' = FALSE
          /\ UNCHANGED <<path, outcome, halted, used>>
       \/ /\ alarm # None /\ ~finalizer
          /\ Finish("unmanaged") /\ UNCHANGED <<lostCreate, used>>
       \/ alarm = None /\ Finish("recoverable") /\ UNCHANGED <<lostCreate, used>>
       \/ Failing /\ Finish("recoverable") /\ UNCHANGED lostCreate
    /\ UNCHANGED <<cr, aws, edited, interfered>>

(* MarkManaged, patched into the CR before Create is called.               *)
Manage ==
    /\ pc = "manage"
    /\ \/ /\ crState # "absent" /\ finalizer' = TRUE
          /\ Goto("create") /\ UNCHANGED used
       \/ /\ crState = "absent" /\ Finish("recoverable")
          /\ UNCHANGED <<finalizer, used>>
       \/ Failing /\ Finish("recoverable") /\ UNCHANGED finalizer
    /\ UNCHANGED <<crState, spec, aws, history>>

(* PutMetricAlarm: the Tags of the request count only when it creates, and *)
(* aws: tags are then refused.                                             *)
Puts(r) ==
    alarm' = [config |-> WithDefaults(RequestPayload(r.config)),
              tags   |-> IF alarm = None THEN r.tags ELSE alarm.tags]

PutRefused(r) == alarm = None /\ KeysOf(r.tags) \cap AwsKeys # {}

(* sdkCreate's errors carry no post-create mark, so the reconciler may     *)
(* take the finalizer back.                                                *)
CreateFails(o) ==
    /\ Finish(o)
    /\ \/ UNCHANGED <<crState, finalizer>>
       \/ /\ finalizer' = FALSE
          /\ crState' = IF crState = "deleting" THEN "absent" ELSE crState

Create ==
    /\ pc = "create"
    /\ \/ /\ PayloadError(desired.config) # "none"
          /\ CreateFails(PayloadError(desired.config))
          /\ UNCHANGED <<aws, lostCreate, used>>
       \/ /\ PayloadError(desired.config) = "none"
          /\ \/ /\ ~PutRefused(desired) /\ Puts(desired) /\ Goto("patch")
                /\ ours' = (ours \/ alarm = None)
                /\ UNCHANGED <<crState, finalizer, lostCreate, used>>
             \/ /\ PutRefused(desired) /\ CreateFails("recoverable")
                /\ UNCHANGED <<aws, lostCreate, used>>
             \/ /\ Failing /\ CreateFails("recoverable")
                /\ UNCHANGED <<aws, lostCreate>>
             \/ /\ Failing /\ CreateFails("recoverable")      \* applied, but
                /\ ~PutRefused(desired) /\ Puts(desired)      \* not answered
                /\ ours' = (ours \/ alarm = None)
                /\ lostCreate' = (lostCreate \/ alarm = None)
    /\ UNCHANGED <<spec, edited, interfered>>

(* syncTags: TagResource first; the service refuses aws: keys.             *)
TagResourceCall ==
    /\ pc = "tag"
    /\ LET add == TagsToAdd(desired.tags, latest.tags)
           refused == alarm = None \/ KeysOf(add) \cap AwsKeys # {}
           applied == ~refused /\ alarm' = [alarm EXCEPT !.tags = TagResource(@, add)]
       IN  \/ applied /\ Goto(AfterAdd(desired, latest)) /\ UNCHANGED used
           \/ refused /\ Finish("recoverable") /\ UNCHANGED <<alarm, used>>
           \/ Failing /\ Finish("recoverable") /\ (applied \/ UNCHANGED alarm)
    /\ UNCHANGED <<cr, ours, history>>

(* ... then UntagResource.                                                 *)
UntagResourceCall ==
    /\ pc = "untag"
    /\ LET remove == TagsToRemove(desired.tags, latest.tags)
           refused == alarm = None \/ remove \cap AwsKeys # {}
           applied == ~refused /\ alarm' = [alarm EXCEPT !.tags = UntagResource(@, remove)]
       IN  \/ applied /\ Goto(AfterTags(desired, latest)) /\ UNCHANGED used
           \/ refused /\ Finish("recoverable") /\ UNCHANGED <<alarm, used>>
           \/ Failing /\ Finish("recoverable") /\ (applied \/ UNCHANGED alarm)
    /\ UNCHANGED <<cr, ours, history>>

(* Wrong: the error of newUpdateRequestPayload ignored.                    *)
UpdateUnchecked ==
    /\ pc = "put" /\ Puts(desired) /\ Goto("patch")
    /\ ours' = (ours \/ alarm = None)
    /\ UNCHANGED <<cr, history, used>>

(* The PutMetricAlarm of sdkUpdate; it makes the alarm anew if it is gone. *)
Update ==
    /\ pc = "put"
    /\ \/ /\ PayloadError(desired.config) # "none"
          /\ Finish(PayloadError(desired.config))
          /\ UNCHANGED <<aws, used>>
       \/ /\ PayloadError(desired.config) = "none"
          /\ \/ /\ ~PutRefused(desired) /\ Puts(desired) /\ Goto("patch")
                /\ ours' = (ours \/ alarm = None)
                /\ UNCHANGED used
             \/ /\ PutRefused(desired) /\ Finish("recoverable")
                /\ UNCHANGED <<aws, used>>
             \/ Failing /\ Finish("recoverable") /\ UNCHANGED aws
             \/ /\ Failing /\ Finish("recoverable")
                /\ ~PutRefused(desired) /\ Puts(desired)
                /\ ours' = (ours \/ alarm = None)
    /\ UNCHANGED <<cr, history>>

(* Create or Update was called; otherwise ReadOne's result is kept.        *)
Written(d, l) == l = None \/ Delta(d.config, l.config) # {} \/ d.tags # l.tags

LateInitialize(r) == r

(* The reconciler patches the CR with what Create or Update returned, the  *)
(* system tags filtered out; a CR edited meanwhile keeps its spec.         *)
PatchCR ==
    /\ pc = "patch"
    /\ \/ /\ Finish("synced") /\ UNCHANGED used
          /\ spec' = IF Written(desired, latest) /\ ~edited
                     THEN [LateInitialize(desired) EXCEPT
                              !.tags = FilterSystemTags(@, SystemTags)]
                     ELSE spec
       \/ Failing /\ Finish("recoverable") /\ UNCHANGED spec
    /\ UNCHANGED <<crState, finalizer, aws, history>>

(* Wrong: the error of DeleteAlarms ignored.                               *)
DeleteUnchecked ==
    /\ pc = "delete" /\ Goto("unmanage")
    /\ \/ alarm # None /\ Gone /\ UNCHANGED used
       \/ Failing /\ UNCHANGED <<aws, lostCreate>>
    /\ UNCHANGED <<cr, edited, interfered>>

(* Wrong: a spec that could not be created cannot be deleted either.       *)
DeleteValidating ==
    /\ pc = "delete"
    /\ IF PayloadError(desired.config) = "none" /\ alarm # None
       THEN Gone /\ Goto("unmanage")
       ELSE Finish("recoverable") /\ UNCHANGED <<aws, lostCreate>>
    /\ UNCHANGED <<cr, edited, interfered, used>>

(* sdkDelete: the service's error is returned as it is.                    *)
Delete ==
    /\ pc = "delete"
    /\ \/ alarm # None /\ Gone /\ Goto("unmanage") /\ UNCHANGED used
       \/ alarm = None /\ Finish("recoverable") /\ UNCHANGED <<aws, lostCreate, used>>
       \/ Failing /\ Finish("recoverable") /\ (Gone \/ UNCHANGED <<aws, lostCreate>>)
    /\ UNCHANGED <<cr, edited, interfered>>

(* MarkUnmanaged: Kubernetes then lets the CR go.                          *)
Unmanage ==
    /\ pc = "unmanage"
    /\ \/ /\ finalizer' = FALSE /\ crState' = "absent"
          /\ Finish("synced") /\ UNCHANGED used
       \/ Failing /\ Finish("recoverable") /\ UNCHANGED <<crState, finalizer>>
    /\ UNCHANGED <<spec, aws, history>>

Worker == \/ Begin \/ DescribeAlarms \/ ListTagsForResource
          \/ Manage \/ Create
          \/ TagResourceCall \/ UntagResourceCall \/ Update
          \/ PatchCR
          \/ Delete \/ Unmanage

Environment == \/ \E s \in Specs : CreateCR(s) \/ EditSpec(s)
               \/ DeleteCR
               \/ \E a \in OutsideAlarms : OutsidePut(a)
               \/ OutsideDelete
               \/ Crash

Next == Worker \/ Environment

Spec == Init /\ [][Next]_vars

(* The worker is scheduled (retries and the periodic resync bring every CR *)
(* that was not given up back to it); users, failures and crashes need not *)
(* happen.                                                                 *)
FairSpec == Spec /\ WF_vars(Worker)

-----------------------------------------------------------------------------
(* Safety.                                                                 *)

(* An alarm the controller made always has a CR that still holds ACK's     *)
(* finalizer, so deleting the CR deletes the alarm; the one exception is a *)
(* create whose answer was lost (sdk.go:400-404 returns it unmarked).      *)
NoOrphan == ours => finalizer \/ lostCreate

(* Unless others touched the alarm meanwhile, a reconciliation that is     *)
(* about to report success left in CloudWatch exactly the fields and the   *)
(* tags asked for: nothing truncated, no tag missing, none too many.       *)
Target(r) == [config |-> WithDefaults(r.config), tags |-> r.tags]

SuccessMeansApplied ==
    pc = "patch" /\ ~interfered => alarm = Target(desired)

(* What syncTags is about to send never removes an aws: tag, and sets one  *)
(* only if the CR names it and the alarm lacks it.                         *)
NeverModifiesAwsTags ==
    pc \in {"tag", "untag"} =>
        \A k \in AwsKeys : desired.tags[k] # latest.tags[k] =>
            latest.tags[k] = Absent /\ desired.tags[k] # Absent

(* sdkUpdate settles the tags before the other fields: when PutMetricAlarm *)
(* is sent, both tag calls took effect, whichever of them was needed.      *)
TagsBeforeConfig ==
    pc = "put" /\ ~interfered => alarm # None /\ alarm.tags = desired.tags

(* A spec the payload builder rejects never creates, removes or changes an *)
(* alarm (its tags, synced before the payload is built, may change).       *)
InvalidSpecKeepsConfig ==
    [][Worker /\ desired # None /\ path = "sync" /\ PayloadError(desired.config) # "none"
       => /\ alarm' = None <=> alarm = None
          /\ alarm # None => alarm'.config = alarm.config]_vars

(* A CR that was given up with a terminal error still has a spec that is   *)
(* refused so: one corrected while the error was on its way is tried again.*)
TerminalIsCurrent ==
    halted /\ outcome = "terminal" => PayloadError(spec.config) = "terminal"

(* The controller never writes a tag or a field into the CR's spec: at     *)
(* most it takes system tags out of it (FilterSystemTags).                 *)
SpecStaysUsers ==
    [][Worker => /\ spec'.config = spec.config
                 /\ \A k \in Keys : spec'.tags[k] # spec.tags[k] =>
                       spec'.tags[k] = Absent /\ k \in AwsKeys \cup SystemTags]_vars

(* What a round has done and may do, and what became of it, is what        *)
(* ManagedResource allows: nothing is written or removed without the       *)
(* finalizer, a payload that is refused is never written, and the          *)
(* finalizer goes only when the alarm was not there or has been deleted.   *)
Phase == CASE pc = "idle" -> "idle"
           [] pc = "describe" -> "asked"
           [] pc \in {"manage", "create", "unmanage"} -> "absent"
           [] pc \in {"listTags", "tag", "untag", "put", "delete"} -> "present"
           [] pc = "patch" -> "done"

Claim == IF desired = None \/ path = "delete" THEN None
         ELSE IF PayloadError(desired.config) # "none" THEN None
         ELSE WithDefaults(RequestPayload(desired.config))

Seen == IF latest = None \/ pc = "unmanage" THEN None ELSE latest.config

Actual == IF alarm = None THEN None ELSE alarm.config

Managed == INSTANCE ManagedResource WITH
    Things <- AlarmSpec, phase <- Phase, claim <- Claim, seen <- Seen, actual <- Actual

ImplementsManagedResource == Managed!Spec

(* The tags the alarm should have, those of the service apart.  A spec that *)
(* overrides a default tag loses the override when it is patched.          *)
WantedTags == EnsureTags(spec.tags, DefaultTags)

NoOverrides ==
    \A k \in SystemTags \ AwsKeys : spec.tags[k] \in {Absent, DefaultTags[k]}

(* The alarm is what is asked for, and so is all that the worker may write.*)
Settled ==
    /\ crState = "live" /\ finalizer /\ NoOverrides
    /\ alarm # None /\ alarm.config = WithDefaults(spec.config)
    /\ \A k \in Keys \ AwsKeys : alarm.tags[k] = WantedTags[k]
    /\ pc # "idle" =>
          /\ path = "sync"
          /\ pc \in {"describe", "listTags", "tag", "untag", "put", "patch"}
          /\ desired.config = spec.config
          /\ \A k \in Keys \ AwsKeys : desired.tags[k] = WantedTags[k]

(* From a round without disturbance on, the worker leaves the alarm as it  *)
(* is, whatever it reads, sends again, fails or retries, until somebody    *)
(* else acts.                                                              *)
StaysSettled ==
    [][/\ PatchCR /\ crState = "live" /\ NoOverrides /\ ~edited /\ ~interfered => Settled'
       /\ Worker /\ Settled => Settled' /\ UNCHANGED aws]_vars

-----------------------------------------------------------------------------
(* Liveness.                                                               *)

(* A CR with a spec CloudWatch can take, not barred by an alarm that       *)
(* exists without being managed, nor given up because of one.  That an     *)
(* earlier spec was given up with a terminal error bars nothing.           *)
Acceptable ==
    /\ crState = "live"
    /\ PayloadError(spec.config) = "none"
    /\ KeysOf(spec.tags) \cap AwsKeys = {}
    /\ finalizer \/ (alarm = None /\ ~(halted /\ outcome = "unmanaged"))

(* Once users, others and failures leave it alone, the alarm gets the      *)
(* fields of the CR and, aws: tags apart, the CR's and the default tags.   *)
EventuallyConverges ==
    <>[](Acceptable =>
            /\ alarm # None
            /\ alarm.config = WithDefaults(spec.config)
            /\ \A k \in Keys \ AwsKeys :
                  alarm.tags[k] = EnsureTags(spec.tags, DefaultTags)[k])

(* ... and the controller stops writing to CloudWatch, if the spec leaves  *)
(* no field to a default of the service and no window empty.               *)
EventuallyQuiet ==
    <>[](/\ Acceptable
         /\ spec.config.ActionsEnabled # Nil /\ spec.config.EvaluationWindow # {}
         => pc \notin {"create", "tag", "untag", "put"})

(* A deleted CR goes, whatever state its alarm and its spec are in.        *)
DeletionCompletes == crState = "deleting" ~> crState = "absent"

(* LateInitialize (manager.go:206-210) "will initialize the optional       *)
(* fields which were not provided by the k8s user but were defaulted by    *)
(* the AWS service": after a successful reconciliation ActionsEnabled is   *)
(* no longer nil in the CR.                                                *)
DefaultsLateInitialized ==
    outcome = "synced" /\ crState = "live" /\ pc = "idle" /\ ~edited =>
        spec.config.ActionsEnabled # Nil
=============================================================================
