---------------------------- MODULE MetricStream ----------------------------
(***************************************************************************)
(* One MetricStream CR, the delivery stream and the role CRs it refers to, *)
(* the metric stream in CloudWatch and the worker that reconciles them.    *)
(* As in MetricAlarm, a step of the worker lies between two remote calls;  *)
(* here the reads of the two referenced CRs are among these.               *)
(***************************************************************************)
EXTENDS AckTags, References, Naturals

CONSTANTS
    DefaultTags,          \* the tags of --resource-tags, a tag map
    Rests,                \* the values of the fields copied as they are
    Specs,                \* the specs users give the CR
    OutsideStreams,       \* the streams others put in CloudWatch
    RefWorlds,            \* the states of the referenced CRs
    None,                 \* no stream, no object in hand
    MaxEdits, MaxOutside, MaxRefChanges, MaxFailures, MaxCrashes   \* bounds

Object == [ref : [Fields -> RefKinds], arn : [Fields -> Arns \cup {Nil}],
           rest : Rests, tags : TagMap]
Stream == [arn : [Fields -> Arns], rest : Rests, tags : TagMap]

ASSUME DefaultTagsAssumption == DefaultTags \in TagMap
ASSUME SpecsAssumption == Specs \subseteq Object /\ OutsideStreams \subseteq Stream
ASSUME RefWorldsAssumption == RefWorlds \subseteq RefStates
(* What a stream is about, its tags apart, which only its creation sets.   *)
Things == [arn : [Fields -> Arns], rest : Rests]

ASSUME NoneAssumption == None \notin Object \cup Stream /\ None \notin Things

VARIABLES
    crState,      \* "absent", "live", or "deleting" (deletionTimestamp set)
    finalizer,    \* the CR carries FinalizerString
    spec,         \* the CR's spec
    refs,         \* the referenced CRs
    stream,       \* the metric stream in CloudWatch, or None
    pc,           \* the worker's next call
    path,         \* "sync" or "delete"
    desired,      \* the worker's copy of the CR
    invalid,      \* what validateReferenceFields found in it
    latest,       \* what ReadOne returned
    seen,         \* the states of the referenced CRs since the worker began
    halted,       \* the CR was given up: there is no retry until it changes
    edited,       \* the CR's spec was edited since the worker read it
    interfered,   \* others changed the stream since the worker began
    used          \* how much of each bound is used up

cr      == <<crState, finalizer, spec>>
worker  == <<pc, path, desired, invalid, latest>>
history == <<seen, edited, interfered>>
vars    == <<cr, refs, stream, worker, halted, history, used>>

Calls == {"firehose", "role", "get", "manage", "create", "put", "patch",
          "delete", "unmanage"}

TypeOK ==
    /\ crState \in {"absent", "live", "deleting"}
    /\ finalizer \in BOOLEAN
    /\ spec \in Object
    /\ refs \in [Fields -> RefStates]
    /\ stream \in Stream \cup {None}
    /\ pc \in Calls \cup {"idle"}
    /\ path \in {"sync", "delete"}
    /\ desired \in Object \cup {None}
    /\ invalid \in BOOLEAN
    /\ latest \in Object \cup {None}
    /\ seen \in [Fields -> SUBSET RefStates]
    /\ halted \in BOOLEAN
    /\ edited \in BOOLEAN /\ interfered \in BOOLEAN
    /\ used \in [{"edits", "outside", "refs", "failures", "crashes"} -> Nat]

Init ==
    /\ crState = "absent" /\ finalizer = FALSE
    /\ spec \in Specs
    /\ refs \in [Fields -> RefWorlds]
    /\ stream = None
    /\ pc = "idle" /\ path = "sync" /\ desired = None
    /\ invalid = FALSE /\ latest = None
    /\ seen = [f \in Fields |-> {}]
    /\ halted = FALSE /\ edited = FALSE /\ interfered = FALSE
    /\ used = [b \in {"edits", "outside", "refs", "failures", "crashes"} |-> 0]

-----------------------------------------------------------------------------
(* Users, the controllers of the referenced CRs, failures and crashes.  A  *)
(* change of the CR and a restart bring back one that was given up.        *)

Use(bound) == used' = [used EXCEPT ![bound] = @ + 1]

CreateCR(s) ==
    /\ crState = "absent" /\ used["edits"] < MaxEdits /\ Use("edits")
    /\ crState' = "live" /\ finalizer' = FALSE /\ spec' = s
    /\ halted' = FALSE /\ edited' = TRUE
    /\ UNCHANGED <<refs, stream, worker, seen, interfered>>

EditSpec(s) ==
    /\ crState # "absent" /\ used["edits"] < MaxEdits /\ Use("edits")
    /\ spec' = s /\ halted' = FALSE /\ edited' = TRUE
    /\ UNCHANGED <<crState, finalizer, refs, stream, worker, seen, interfered>>

DeleteCR ==
    /\ crState = "live"
    /\ crState' = IF finalizer THEN "deleting" ELSE "absent"
    /\ halted' = FALSE
    /\ UNCHANGED <<finalizer, spec, refs, stream, worker, history, used>>

ChangeRef(f, s) ==
    /\ used["refs"] < MaxRefChanges /\ Use("refs")
    /\ refs' = [refs EXCEPT ![f] = s]
    /\ seen' = IF pc = "idle" THEN seen ELSE [seen EXCEPT ![f] = @ \cup {s}]
    /\ UNCHANGED <<cr, stream, worker, halted, edited, interfered>>

OutsideChange(a) ==
    /\ used["outside"] < MaxOutside /\ Use("outside")
    /\ stream' = a /\ interfered' = TRUE
    /\ UNCHANGED <<cr, refs, worker, halted, seen, edited>>

Idle ==
    /\ pc' = "idle" /\ desired' = None /\ latest' = None
    /\ invalid' = FALSE /\ seen' = [f \in Fields |-> {}]
    /\ UNCHANGED path

Stop == Idle /\ halted' = FALSE

Crash ==
    /\ pc # "idle" \/ halted
    /\ used["crashes"] < MaxCrashes /\ Use("crashes")
    /\ Stop
    /\ UNCHANGED <<cr, refs, stream, edited, interfered>>

-----------------------------------------------------------------------------
(* The worker.                                                             *)

SystemTags == KeysOf(DefaultTags)

Failing == used["failures"] < MaxFailures /\ Use("failures")

(* The CR is no longer as the worker read it, and so is queued again.      *)
Changed == edited \/ crState # (IF path = "delete" THEN "deleting" ELSE "live")

(* An unmanaged stream: whether the runtime gives the CR up until it       *)
(* changes, or comes back to it, is left open.  No other error ends the    *)
(* retries: terminalAWSError knows no terminal code.                       *)
StopUnmanaged == Idle /\ halted' \in {h \in BOOLEAN : h => ~Changed}

Goto(next) == pc' = next /\ UNCHANGED <<path, desired, invalid, latest, seen, halted>>

(* Wrong: the references are resolved for a deletion, too.                 *)
BeginResolving ==
    /\ pc = "idle" /\ crState # "absent" /\ ~halted /\ pc' = "firehose"
    /\ path' = IF crState = "deleting" THEN "delete" ELSE "sync"
    /\ invalid' = ValidationError(spec) /\ desired' = spec
    /\ seen' = [f \in Fields |-> {refs[f]}]
    /\ edited' = FALSE /\ interfered' = FALSE
    /\ UNCHANGED <<cr, refs, stream, latest, halted, used>>

(* The deletion uses the name only; what a resolution would yield for it   *)
(* changes nothing.                                                        *)
Begin ==
    /\ pc = "idle" /\ crState # "absent" /\ ~halted
    /\ IF crState = "deleting"
       THEN pc' = "get" /\ path' = "delete" /\ invalid' = FALSE
       ELSE pc' = "firehose" /\ path' = "sync" /\ invalid' = ValidationError(spec)
    /\ desired' = spec
    /\ seen' = [f \in Fields |-> {refs[f]}]
    /\ edited' = FALSE /\ interfered' = FALSE
    /\ UNCHANGED <<cr, refs, stream, latest, halted, used>>

(* resolveReferenceFor...: what one field becomes, and whether it may.     *)
ResolvedArn(f) == IF HasReference(desired, f) THEN refs[f].arn ELSE desired.arn[f]

Resolves(f) == HasReference(desired, f) => Resolvable(desired, f, refs[f])

ResolveFails(f) ==
    /\ \/ ~Resolves(f) /\ UNCHANGED used
       \/ HasReference(desired, f) /\ Failing      \* the read of the CR fails
    /\ Stop

(* `ko` is the object that was passed in, and is written to, whatever      *)
(* validateReferenceFields has found.                                      *)
ResolveFirehose ==
    /\ pc = "firehose"
    /\ \/ /\ Resolves("FirehoseARN")
          /\ desired' = [desired EXCEPT !.arn["FirehoseARN"] = ResolvedArn("FirehoseARN")]
          /\ pc' = "role" /\ UNCHANGED <<path, invalid, latest, seen, halted, used>>
       \/ ResolveFails("FirehoseARN")
    /\ UNCHANGED <<cr, refs, stream, edited, interfered>>

(* What follows once both are resolved: the tags, and ReadOne.             *)
RoleResolved ==
    /\ Resolves("RoleARN")
    /\ desired' = [desired EXCEPT !.arn["RoleARN"] = ResolvedArn("RoleARN"),
                                  !.tags = EnsureTags(@, DefaultTags)]
    /\ pc' = "get"
    /\ UNCHANGED <<path, invalid, latest, seen, halted, used>>

(* Wrong: the error of validateReferenceFields is lost.                    *)
ResolveRoleErrorLost ==
    /\ pc = "role"
    /\ RoleResolved \/ ResolveFails("RoleARN")
    /\ UNCHANGED <<cr, refs, stream, edited, interfered>>

(* The validation error is returned last, after both look-ups.             *)
ResolveRole ==
    /\ pc = "role"
    /\ \/ ~invalid /\ RoleResolved
       \/ invalid /\ Resolves("RoleARN") /\ Stop /\ UNCHANGED used
       \/ ResolveFails("RoleARN")
    /\ UNCHANGED <<cr, refs, stream, edited, interfered>>

(* Wrong: a delta that overlooks the ARNs.                                 *)
DeltaWithoutArns(a, b) == a.rest # b.rest \/ a.tags # b.tags

(* newResourceDelta                                                        *)
Delta(a, b) ==
    a.arn # b.arn \/ a.ref # b.ref \/ a.rest # b.rest \/ a.tags # b.tags

(* ReadOne: sdkFind copies the object it was given and overwrites what the *)
(* response holds.  GetMetricStream returns no tags: latest has those of   *)
(* the desired object, and mirrorAWSTags finds nothing new.                *)
GetMetricStream ==
    /\ pc = "get"
    /\ \/ /\ stream # None /\ finalizer
          /\ latest' = [desired EXCEPT !.arn = stream.arn, !.rest = stream.rest]
          /\ desired' = [desired EXCEPT !.tags = MirrorAWSTags(@, latest'.tags)]
          /\ pc' = CASE path = "delete" -> "delete"
                     [] path = "sync" ->
                          IF Delta(desired', latest') THEN "put" ELSE "patch"
          /\ UNCHANGED <<path, invalid, seen, halted, used>>
       \/ stream # None /\ ~finalizer /\ StopUnmanaged /\ UNCHANGED used
       \/ /\ stream = None /\ UNCHANGED used
          /\ Goto(IF path = "delete" THEN "unmanage" ELSE "manage")
       \/ Failing /\ Stop
    /\ UNCHANGED <<cr, refs, stream, edited, interfered>>

(* Wrong: the finalizer is put on the worker's copy only.                  *)
ManageInMemory ==
    /\ pc = "manage" /\ Goto("create")
    /\ UNCHANGED <<cr, refs, stream, edited, interfered, used>>

(* MarkManaged, patched into the CR before Create is called.               *)
Manage ==
    /\ pc = "manage"
    /\ \/ /\ crState # "absent" /\ finalizer' = TRUE
          /\ Goto("create") /\ UNCHANGED used
       \/ crState = "absent" /\ Stop /\ UNCHANGED <<finalizer, used>>
       \/ Failing /\ Stop /\ UNCHANGED finalizer
    /\ UNCHANGED <<crState, spec, refs, stream, edited, interfered>>

(* PutMetricStream wants both ARNs; Tags count only when it creates.       *)
PutRefused(r) ==
    \/ \E f \in Fields : r.arn[f] = Nil
    \/ stream = None /\ KeysOf(r.tags) \cap AwsKeys # {}

Puts(r) ==
    /\ ~PutRefused(r)
    /\ stream' = [arn |-> r.arn, rest |-> r.rest,
                  tags |-> IF stream = None THEN r.tags ELSE stream.tags]

(* An error of sdkCreate is not marked as post-create, so the finalizer    *)
(* may be taken back.                                                      *)
CreateFails ==
    /\ Stop
    /\ \/ UNCHANGED <<crState, finalizer>>
       \/ /\ finalizer' = FALSE
          /\ crState' = IF crState = "deleting" THEN "absent" ELSE crState

Create ==
    /\ pc = "create"
    /\ \/ /\ Puts(desired) /\ Goto("patch")
          /\ UNCHANGED <<crState, finalizer, used>>
       \/ PutRefused(desired) /\ CreateFails /\ UNCHANGED <<stream, used>>
       \/ Failing /\ CreateFails /\ UNCHANGED stream
       \/ Failing /\ CreateFails /\ Puts(desired)    \* applied, not answered
    /\ UNCHANGED <<spec, refs, edited, interfered>>

(* Wrong: the request is built from what was read.                         *)
UpdateFromLatest ==
    /\ pc = "put" /\ Puts(latest) /\ Goto("patch")
    /\ UNCHANGED <<cr, refs, edited, interfered, used>>

Update ==
    /\ pc = "put"
    /\ \/ Puts(desired) /\ Goto("patch") /\ UNCHANGED used
       \/ PutRefused(desired) /\ Stop /\ UNCHANGED <<stream, used>>
       \/ Failing /\ Stop /\ UNCHANGED stream
       \/ Failing /\ Stop /\ Puts(desired)
    /\ UNCHANGED <<cr, refs, edited, interfered>>

(* The patch of the CR, without resolved ARNs and system tags; a CR edited *)
(* meanwhile keeps its spec, and so does one that nothing was written for. *)
PatchCR ==
    /\ pc = "patch"
    /\ \/ /\ Stop /\ UNCHANGED used
          /\ spec' = IF ~edited /\ (latest = None \/ Delta(desired, latest))
                     THEN [ClearResolvedReferences(desired) EXCEPT
                              !.tags = FilterSystemTags(@, SystemTags)]
                     ELSE spec
       \/ Failing /\ Stop /\ UNCHANGED spec
    /\ UNCHANGED <<crState, finalizer, refs, stream, edited, interfered>>

(* sdkDelete.  Whether the service complains of a stream that is not there *)
(* is left open.                                                           *)
Delete ==
    /\ pc = "delete"
    /\ \/ stream' = None /\ Goto("unmanage") /\ UNCHANGED used
       \/ stream = None /\ Stop /\ UNCHANGED <<stream, used>>
       \/ Failing /\ Stop /\ stream' \in {stream, None}
    /\ UNCHANGED <<cr, refs, edited, interfered>>

Unmanage ==
    /\ pc = "unmanage"
    /\ \/ finalizer' = FALSE /\ crState' = "absent" /\ Stop /\ UNCHANGED used
       \/ Failing /\ Stop /\ UNCHANGED <<crState, finalizer>>
    /\ UNCHANGED <<spec, refs, stream, edited, interfered>>

Worker == \/ Begin
          \/ ResolveFirehose \/ ResolveRole
          \/ GetMetricStream
          \/ Manage \/ Create
          \/ Update
          \/ PatchCR
          \/ Delete \/ Unmanage

Environment == \/ \E s \in Specs : CreateCR(s) \/ EditSpec(s)
               \/ DeleteCR
               \/ \E f \in Fields, s \in RefWorlds : ChangeRef(f, s)
               \/ \E a \in OutsideStreams \cup {None} : OutsideChange(a)
               \/ Crash

Next == Worker \/ Environment

Spec == Init /\ [][Next]_vars

(* The worker is scheduled, as in MetricAlarm; nothing else has to happen. *)
FairSpec == Spec /\ WF_vars(Worker)

-----------------------------------------------------------------------------
(* Safety.                                                                 *)

(* An ARN that is about to be sent for a reference was, at some moment of  *)
(* this reconciliation, that of the CR it names, existing, synced and not  *)
(* terminal, although that CR and the spec may have changed since.         *)
ArnsWereOffered ==
    pc \in {"manage", "create", "put"} =>
        \A f \in Fields : desired.ref[f] = "named" =>
            \E s \in seen[f] :
                s.exists /\ s.synced /\ ~s.terminal /\ s.arn = desired.arn[f]

(* A spec with both a reference and an ARN for a field, or with neither,   *)
(* never creates or changes a stream, although the references are looked   *)
(* up, and written into the object, before the error is returned.          *)
RejectedSpecsAreInert ==
    [][Worker /\ path = "sync" /\ desired # None /\ ~edited /\ ValidationError(spec)
       => stream' = stream]_vars

(* The controller puts no resolved ARN, no field of the stream and no tag  *)
(* into the CR's spec; at most it takes system tags out of it.             *)
SpecStaysUsers ==
    [][Worker => /\ spec'.ref = spec.ref /\ spec'.arn = spec.arn
                 /\ spec'.rest = spec.rest
                 /\ \A k \in Keys : spec'.tags[k] # spec.tags[k] =>
                       spec'.tags[k] = Absent /\ k \in AwsKeys \cup SystemTags]_vars

(* Unless others touched the stream meanwhile, a reconciliation about to   *)
(* report success left it with the ARNs and fields asked for.              *)
SuccessMeansApplied ==
    pc = "patch" /\ ~interfered =>
        stream # None /\ stream.arn = desired.arn /\ stream.rest = desired.rest

(* Unless others touched it meanwhile, there is no stream when the worker  *)
(* creates one, puts its finalizer on the CR or takes it off: a create     *)
(* updates none, and no CR is let go of while one is left, but by a create *)
(* that fails after it was applied.                                        *)
FinalizerGoesLast ==
    [][(Worker /\ finalizer' # finalizer) \/ Create => interfered \/ stream = None]_vars

(* A round is one of ManagedResource, the ARNs and copied fields being     *)
(* what it is about: see there.  Nothing is claimed until both references  *)
(* are resolved.                                                           *)
Phase == CASE pc \in {"idle", "firehose", "role"} -> "idle"
           [] pc = "get" -> "asked"
           [] pc \in {"manage", "create", "unmanage"} -> "absent"
           [] pc \in {"put", "delete"} -> "present"
           [] pc = "patch" -> "done"

Thing(o) == [arn |-> o.arn, rest |-> o.rest]

Claim == IF path = "delete" \/ Phase = "idle" THEN None
         ELSE IF \E f \in Fields : desired.arn[f] = Nil THEN None ELSE Thing(desired)

Seen == IF latest = None \/ pc = "unmanage" THEN None ELSE Thing(latest)

Actual == IF stream = None THEN None ELSE Thing(stream)

Managed == INSTANCE ManagedResource WITH
    phase <- Phase, claim <- Claim, seen <- Seen, actual <- Actual

ImplementsManagedResource == Managed!Spec

(* The ARN that the CR, and the CRs it refers to, now ask for; and whether *)
(* the worker has got that far.                                            *)
WantedArn(f) == IF HasReference(spec, f) THEN refs[f].arn ELSE spec.arn[f]

Resolved(f) == pc # "firehose" /\ (pc = "role" => f = "FirehoseARN")

(* The stream is what is asked for, and so is all that the worker has.     *)
Settled ==
    /\ crState = "live" /\ finalizer
    /\ stream # None /\ stream.rest = spec.rest
    /\ \A f \in Fields : stream.arn[f] = WantedArn(f)
    /\ pc # "idle" =>
          /\ path = "sync" /\ pc \in {"firehose", "role", "get", "patch"}
          /\ desired.ref = spec.ref /\ desired.rest = spec.rest
          /\ \A f \in Fields : desired.arn[f] = IF Resolved(f) THEN WantedArn(f)
                                                ELSE spec.arn[f]

(* From a round without disturbance on, in which no referenced CR changed, *)
(* the worker leaves the stream alone, whatever it reads, fails or         *)
(* retries, until somebody else acts.                                      *)
StaysSettled ==
    [][/\ PatchCR /\ crState = "live" /\ ~edited /\ ~interfered
            /\ (\A f \in Fields : seen[f] = {refs[f]}) => Settled'
       /\ Worker /\ Settled => Settled' /\ UNCHANGED stream]_vars

-----------------------------------------------------------------------------
(* Liveness.                                                               *)

(* A CR whose spec can be carried out, not barred by a stream that exists  *)
(* without being managed, nor given up because of one.                     *)
Acceptable ==
    /\ crState = "live" /\ (finalizer \/ (stream = None /\ ~halted))
    /\ ~ValidationError(spec)
    /\ KeysOf(spec.tags) \cap AwsKeys = {}
    /\ \A f \in Fields : spec.ref[f] # Nil => Resolvable(spec, f, refs[f])

(* Once users, others and failures leave it alone, the stream follows the  *)
(* CR and the CRs it refers to, whatever ARNs these have had before.       *)
EventuallyConverges ==
    <>[](Acceptable =>
            /\ stream # None /\ stream.rest = spec.rest
            /\ \A f \in Fields :
                  stream.arn[f] = IF spec.ref[f] = Nil THEN spec.arn[f] ELSE refs[f].arn)

(* A deleted CR goes, whatever became of the CRs that it refers to.        *)
DeletionCompletes == crState = "deleting" ~> crState = "absent"

-----------------------------------------------------------------------------
(* What the comments say.                                                  *)

(* ReadOne (manager.go:95-96) "returns the currently-observed state of the *)
(* supplied AWSResource in the backend AWS service API".                   *)
ReadOneObserves ==
    latest # None /\ path = "sync" /\ ~interfered =>
        stream # None /\ latest.tags = stream.tags
=============================================================================
