# The CloudWatch controller in TLA+

This directory models the AWS Controllers for Kubernetes (ACK) controller for
CloudWatch. The controller watches three kinds of custom resources (CRs),
`MetricAlarm`, `MetricStream` and `Dashboard`, and makes CloudWatch agree with
them. The models are translated from the Go source, checked with TLC on small
instances, and the safety properties are proved with TLAPS for all values of
the constants.

## The system

### Components, state, operations

| Component | State | Operations | What makes it correct |
|---|---|---|---|
| Resource manager of a kind (`pkg/resource/<kind>/sdk.go`, `manager.go`, `hooks.go`) | none of its own: works on copies of the CR (`desired`) and of what it read (`latest`) | `ReadOne`, `Create`, `Update`, `Delete`, `LateInitialize`, `EnsureTags`, `FilterSystemTags`, `mirrorAWSTags`, `syncTags` | success means applied; nothing orphaned; converges; does not fight with AWS over tags; leaves the spec to its user |
| Tag glue (`tags.go`) | none | `convertToOrderedACKTags`, `fromACKTags`, `ignoreSystemTags`, `syncAWSTags` | no tag lost, doubled, leaked or reordered |
| Delta (`delta.go`) | none | `newResourceDelta` | a difference exists exactly when something must be written |
| Status conditions (`updateConditions`, `onError`, `onSuccess`) | the CR's `Status.Conditions` | one per result of a call | the conditions are true of the last call |
| Manager factory (`manager_factory.go`) | `rmCache`, guarded by an `RWMutex` | `ManagerFor` | no data race, no foreign manager, nobody blocked |
| Descriptor (`descriptor.go`) | the CR's finalizer | `MarkManaged`, `MarkUnmanaged`, `IsManaged`, `MarkAdopted` | the finalizer is there while an AWS resource is ours |
| References (`metric_stream/references.go`) | the resolved ARNs in the CR | `ResolveReferences`, `ClearResolvedReferences` | a stream never uses the ARN of an unsynced or missing target |
| Process (`cmd/controller/main.go`) | whether it waits, reconciles or has ended | start, election, exit | two processes do not undo each other's work for ever; with an election they act as one |
| Registry, API types, manifests, generator input, e2e tests | static | – | – |

### How they interact

The ACK runtime (a library, not in this repository) owns the loop. For a CR
from its work queue it calls, in this order: `ManagerFor`, `ResolveReferences`,
`EnsureTags`, `ReadOne`; on NotFound `MarkManaged` and `Create`,
otherwise `Delta` and `Update`; then `LateInitialize`, `FilterSystemTags`, and
patches of the CR's spec and status. For a CR with a deletion timestamp it
calls `ReadOne`, `Delete` and `MarkUnmanaged`. The work queue never runs two
reconciliations of one CR at the same time; those of different CRs share the
manager factory only. All this holds within one process. `main.go` starts the
runtime with leader election if it is asked to (the chart's default is not to);
without it, two processes, as in any rollout, reconcile the same CRs.

### What is hard

* `ReadOne` of an alarm is two remote calls, `Update` up to three, and others
  use CloudWatch meanwhile. `PutMetricAlarm` creates as well as updates.
* A call may fail without effect, or take effect and lose its answer; the
  process may stop between two calls. The only memory is the CR.
* Tags cross four owners: the user, the operator (`--resource-tags`), AWS
  (`aws:`), and the outsiders that edit the alarm.
* Tag lists hold nil and repeated keys; Go maps have a random order.
* The CR's integers are 64-bit, the API's 32-bit; unions may be over-filled.
* Conditions outlive the error that raised them.
* `ManagerFor` gives up its read lock between its look and its write.
* A stream takes its ARNs from two other CRs, read one after the other, which
  other controllers change meanwhile; the resolved ARNs must not stay in a CR.
* A body has many texts; the service may hand back another than it was given.
  A terminal error ends the retries until the CR changes.
* A CR that is deleted must go, although its references are gone, its last
  error was terminal or its AWS resource is no longer there.
* Two processes may be in the middle of a round of the same CR.

`PROJECT.json` lists each of these hazards at its line with the properties that
would catch it.

## The modules

    AckTags ---+--- TagFlow <== TagLists           (<== : is implemented by)
               |
               +--- MetricAlarm --- AlarmConfig
               |
               +--- MetricStream --- References

    ManagedResource <== MetricAlarm, MetricStream, Dashboard,
                        Replicas (each step, with an election)

    Replicas --- Dashboard (twice)      Conditions      ManagerFactory

### ManagedResource: what all kinds promise

The abstract specification has a CR with its finalizer, an AWS resource
(`actual`) and rounds that pass through five phases, but none of the remote
calls. A round takes a claim, looks, and only then acts: it writes what it
claims and nothing else, under the finalizer only; it removes the resource only
if the CR is being deleted and the round has seen the resource; it releases the
finalizer only if, for all it has seen, the resource is not there; it ends with
nothing done only if it saw what it claims. `ImplementsManagedResource`, in each
kind, is this specification under a refinement mapping:

| | `phase` | `actual`, `claim`, `seen` |
|---|---|---|
| `MetricAlarm` | from `pc`; the tag calls of `syncTags` are inside "present" | the fields without the tags, which `TagFlow` is about; an invalid spec claims nothing |
| `MetricStream` | from `pc`; during the look-ups of references it is still "idle" | ARNs and fields, claimed once the references are resolved |
| `Dashboard` | from `pc` | the document, whatever its text; a body that does not parse claims nothing |

### AckTags, TagFlow, TagLists: tags

`AckTags` holds the tag operators as functions from keys to values or `Absent`
(a Go map has no entry). `TagFlow` is the abstract specification: one action
for each of `EnsureTags`, the tag half of `ReadOne`, `syncTags` and the write
back through `FilterSystemTags`, repeated round after round, with AWS changing
its `aws:` tags at any moment (`Inject`). `TagLists` is the same on the data
the code really handles, the list of `*Tag` in `Spec.Tags`: keys and values may
be nil, keys repeat, the result of `fromACKTags` is any order the Go map may
give. `ImplementsTagFlow` states that the lists implement the maps; the
refinement mapping is `ConvertToACKTags`.

### AlarmConfig, MetricAlarm: one alarm and its reconciliation

`AlarmConfig` models `newCreateRequestPayload` and `newUpdateRequestPayload`
(their text is identical) and `newResourceDelta`. Five fields stand for the
twenty-five of `MetricAlarmSpec`, one for each shape of code: a field that the
service defaults, an integer checked before and one checked after the union, a
union, and the fields that are copied as they are. The union, `evaluationWindow`,
is nil or the set of its members that are given: `{}` is a struct without one,
which is sent as none, and two members are a terminal error. That each of the
other fields is in `sdkFind`, in the payload and in the delta was compared by hand.

`MetricAlarm` has one CR, one alarm and one worker. A worker's step is what
lies between two remote calls; `pc` is the call that comes next.

| Action | Code |
|---|---|
| `Begin` | the reconciler's copy of the CR, `EnsureTags` (`manager.go:284`) |
| `DescribeAlarms`, `ListTagsForResource` | the two calls of `sdkFind` (`sdk.go:58`); the second includes `mirrorAWSTags` and the choice of what follows |
| `Manage`, `Unmanage` | `MarkManaged`, `MarkUnmanaged` with the patch of the finalizer |
| `Create` | `sdkCreate`; `CreateFails` because its error is not marked as post-create |
| `TagResourceCall`, `UntagResourceCall` | the two calls of `syncTags` (`hooks.go:29`) |
| `Update` | the `PutMetricAlarm` of `sdkUpdate` |
| `PatchCR` | `LateInitialize`, `FilterSystemTags` and the patch |
| `Delete` | `sdkDelete` |
| `Finish(o)`, part of every action that ends a round | the result `o`; `Halts(o)`, what becomes of the CR after it: `onError` (`manager.go:386`) and the work queue |
| `CreateCR`, `EditSpec`, `DeleteCR`, `OutsidePut`, `OutsideDelete`, `Crash` | users of Kubernetes and CloudWatch, and the process |

`halted` is a CR that the runtime does not queue again until it changes (or the
process starts anew). After a terminal error, which `onError` answers with
`ackerr.Terminal`, that is so; after any other error it is not. What
the runtime does with a CR whose alarm is there but not managed is not in this
repository, so `Halts` allows both: that it is given up and that it is retried.
In neither case is a CR given up that changed while the round was on
(`Changed`), for the change is in the work queue by then.

`edited`, `interfered` and `lostCreate` are history variables: no guard of the
worker reads the last two, and `edited` stands for the conflict that keeps a
patch from overwriting a newer spec and for the event that a change leaves in
the queue.

### References, MetricStream: one stream and the CRs it refers to

`References` holds the operators of `references.go`: what
`validateReferenceFields` rejects, what `getReferencedResourceState` accepts,
and `ClearResolvedReferences`. A referenced CR is a record of what is looked at:
whether it exists, its Terminal and ResourceSynced conditions and its ARN.

`MetricStream` has the shape of `MetricAlarm`, with the reads of the two
referenced CRs among the worker's remote calls.

| Action | Code |
|---|---|
| `Begin` | the reconciler's copy of the CR; what `validateReferenceFields` (`references.go:75`) says of it |
| `ResolveFirehose`, `ResolveRole` | the two look-ups (`references.go:115`, `:203`), each writing into the object that was passed in; the verdict of the validation is returned after the second. `ResolveRole` includes `EnsureTags` |
| `GetMetricStream` | `sdkFind` (`sdk.go:57`), `mirrorAWSTags` and `newResourceDelta` |
| `Create`, `Update`, `Delete` | `sdkCreate`, `sdkUpdate`, `sdkDelete` |
| `PatchCR` | `ClearResolvedReferences`, `FilterSystemTags` and the patch |
| `Manage`, `Unmanage` | the finalizer |
| `ChangeRef` | the controllers of the referenced CRs |

No error of a stream is terminal but one of the runtime (`terminalAWSError`,
`sdk.go:632`, knows no code), so `halted` is here what `StopUnmanaged` leaves
open for a stream that is there but not managed, as for alarms.

`seen` holds the states each referenced CR has had since the round began; like
`edited` and `interfered` it is history. `ResolveReferences` writes into its
argument (`references.go:72`) although its comment promises a copy; the caller is
the runtime, so what the model keeps is that object only, and `SpecStaysUsers`
says that the ARNs do not reach the CR. Filters, output format and statistics are copied as
they are and stand together as `rest`. A deletion uses the name only, so its
resolution is left out.

### Dashboard: one dashboard and its document

A body is a text with the document that it stands for, or `NotJson`. The
service refuses a text that does not parse and stores any other as some text of
the same document. The comparison is that of `delta.go:47` and of its test. The
messages of `PutDashboard` are represented by the document they are about.
`halted` is, as for alarms, a CR that the runtime does not queue again because
its last error was terminal (`terminalAWSError`, `sdk.go:421`) or, possibly,
because the dashboard is there but not managed, and nothing changed since.
`Create`, `Update`, `GetDashboard`, `Delete`, `Manage` and `Unmanage` are the
calls of the same names; `PatchStatus` is the patch that makes messages visible.
`unreported` (history) says that the dashboard may stem from a `PutDashboard`
whose answer never reached the CR.

### Replicas: two processes on one dashboard

Two instances of `Dashboard`, with workers of their own and the CR, the
dashboard and the bounds in common. `Start` is `main` up to `mgr.Start`, `Elect`
what `mgr.Start` does before it runs the reconcilers (`main.go:149`), `Exit` its
return or the death of the process, which loses what the worker held. Each
step of one worker is, to the other, a change of the CR or of the dashboard
from outside. `election` is chosen at the beginning. The lease is
controller-runtime's: it is taken to be held by at most one process that
reconciles. `ElectedIsAlone` says that then the two processes together take
steps of one `ManagedResource`, that of the process that reconciles.

Without an election this is not so: a process that read the dashboard as
missing may create it after the other has deleted it and released the CR, and
leave it behind. The chart calls election required for several instances
(`helm/values.yaml:165-166`), so this is no disagreement; what still holds then
is `SuccessMeansApplied` for each process, `EventuallyConverges` and
`EventuallyQuiet`.

### Conditions

The wrappers `ReadOne`, `Create`, `Update` and `Delete` of `manager.go`, each
ending in `onError` or `onSuccess`, over the conditions of one CR, for any
sequence of results. Terminal errors are those of the runtime and the codes of
`terminalAWSError`, which only `Dashboard` has. Whether the runtime strips the
conditions before a round is left open (`Begin(strip)`).

### ManagerFactory

`ManagerFor` with concurrent goroutines, one action for each statement that
another goroutine can tell apart. `sync.RWMutex` is modelled by what it does: a
pending writer keeps new readers out and then waits for those inside.

### Wrong variants

Next to some definitions stands a wrong variant of it (`AfterTagsDone`,
`DeleteUnchecked`, ...), marked as such: a plausible bug. `PROJECT.json`
("mutants") names for every checked property one that violates it.

## What the runs check

| Run | Instance | Shows |
|---|---|---|
| `TagFlow` | 2 `aws:` keys, a default key, a user key, 2 values, all tag maps as CR tags | `SyncedTagsAreWanted`, `AwsTagsUntouched`, `WriteBackIsStable` |
| `TagLists` | 4 keys (one `aws:`, one default, two of users), 2 values (one the empty string), nil keys and values, lists of up to 3 entries | `ImplementsTagFlow`, `PayloadTagsWellFormed`, `UserOrderKept` |
| `MetricAlarm` | 3 keys, 4 specs (2 of them invalid), 2 foreign alarms; 2 edits, 2 outside changes, 2 failures, 1 crash | `NoOrphan`, `SuccessMeansApplied`, `NeverModifiesAwsTags`, `InvalidSpecKeepsConfig`, `SpecStaysUsers`, `ImplementsManagedResource`, `EventuallyConverges`, `EventuallyQuiet`, `DeletionCompletes` |
| `MetricAlarmLateInit` | no outsiders | `DefaultsLateInitialized` is violated (below) |
| `ManagerFactory` | 3 goroutines, 2 ids, calls repeated without bound | `NoMapRace`, `ManagerIsForItsId`, `NoDeadlock`, `CacheSettles`, `EveryCallReturns` |
| `ManagerFactoryRace` | 2 goroutines, 1 id | `OneManagerPerId` is violated (below) |
| `Conditions` | 4 errors: throttling, NotFound, a terminal error, a terminal code | `StatusTellsTheTruth`, `ReturnedMatchesStatus`, `NotFoundLeavesNoTrace` |
| `MetricStream` | 4 specs (references; one reference and one ARN; both for one field; unusable references), 4 states of a referenced CR; 2 edits, 1 each of outside changes, changes of referenced CRs, failures and crashes | `ArnsWereOffered`, `SuccessMeansApplied`, `RejectedSpecsAreInert`, `SpecStaysUsers`, `ImplementsManagedResource`, `EventuallyConverges`, `DeletionCompletes` |
| `MetricStreamTags` | no outsiders, no failures | `ReadOneObserves` is violated (below) |
| `Dashboard` | 2 documents (one warned about), one of them in 2 texts, 2 texts that do not parse; 3 edits, 1 outside change, 2 failures, 1 crash | `SuccessMeansApplied`, `MessagesAreOfTheBody`, `ImplementsManagedResource`, `EventuallyConverges`, `EventuallyQuiet`, `DeletionCompletes` |
| `Replicas` | 2 processes, with and without election; 2 documents, one of them in 2 texts, a text that does not parse; 2 edits, 1 exit | `SuccessMeansApplied`, `ElectedIsAlone`, `EventuallyConverges`, `EventuallyQuiet` |
| `DashboardMessages` | no outsiders, no crash | `CorrectInputHasNoMessages` is violated (below) |

Type correctness of every component is proved (below) and no run repeats it,
nor `TagsBeforeConfig` of `MetricAlarm`, `StaysSettled` of `MetricAlarm`,
`MetricStream` and `Dashboard`, `FinalizerGoesLast` of the last two, `TerminalIsCurrent` of `MetricAlarm` and `Dashboard` and
`AgreementLasts` of `Replicas`, which are theorems too (TLC agreed on these instances).

**Bounds.** In `MetricAlarm`, `MaxEdits`, `MaxOutside`, `MaxFailures` and
`MaxCrashes` bound the disturbances, not the work: any number of rounds happens
between them. Two edits give a creation and an update (or a deletion and a new
CR), two outside changes can fall between any two calls of a round, two
failures cover a failed retry. Integers are those of a 3-bit type (-4..3) and
the invalid spec has one more than the largest. Three list entries are enough
for a repeated key around another and for a nil entry (the theorems about lists
are for every length). Three goroutines give a
reader, a writer and a waiting one. In `MetricStream` one change of a referenced
CR can fall before, between or after the two look-ups, and two edits lead from
any spec to any other after a round; the four states of one are ready with either
of two ARNs, not synced, and gone (`SentArnsWereOffered` below is proved for all
states, terminal ones included). In `Replicas` the second process is the
disturbance: outside changes and failures are left to `Dashboard`, two edits give
the processes different bodies to work on, and an exit can end either of them at
any call. In `Dashboard` three edits give a body, a
refused one and its correction. The proofs below need none of these bounds.

**Deadlock.** Off for the runs of `MetricAlarm`, `MetricStream`, `Dashboard` and
`Replicas` only: once the CR is gone or halted and the bounds are used
up nothing is left to do.

**Fairness.** `FairSpec` of `MetricAlarm`, `MetricStream` and `Dashboard` is weak
fairness of the worker as a whole:
the runtime requeues a CR after an error with back-off and after a success at
its resync period, so a CR is always reconciled again; a halted one is not, since its
`Begin` is disabled. That is after a terminal error, and possibly after the
round found its AWS resource unmanaged: `EventuallyConverges` claims nothing of
a CR given up for that, and holds of all others whichever way the runtime goes.
Nothing is assumed of
users, outsiders, failures or crashes, which the bounds make finite: the
liveness properties are about what happens after the last of them.
`ManagerFactory!FairSpec` is weak fairness of each goroutine, and strong
fairness of its lock requests, because `sync.RWMutex` lets a blocked writer in
before new readers and, when it unlocks, the readers that wait before the next
writer. No fairness is put on the calls themselves.
`Replicas!Fairness` is weak fairness of each process's worker, of `Start` (the
kubelet restarts what has ended) and of `Elect` (an election ends with a leader).

## Disagreements with the documentation

* `DefaultsLateInitialized`. The comment of `LateInitialize` says that it sets
  the optional fields the service defaulted; `lateInitializeFieldNames` is
  empty (`manager.go:53`), so it never does. Since `newResourceDelta` counts a
  nil against a value as a difference, a CR that leaves `actionsEnabled` out is
  put again at each reconciliation. `EventuallyQuiet` therefore excludes it,
  and for the like reason an `evaluationWindow: {}`, which CloudWatch cannot
  store (`delta.go:137`; no document speaks of it).
* `OneManagerPerId`. The comment at `manager_factory.go:58-60` promises that
  the id avoids several managers for one account, region and role. Two
  goroutines that miss together make one each. `CacheSettles` and
  `ManagerIsForItsId` show that nothing worse follows.
* `ReadOneObserves`. The comment of `ReadOne` (`metric_stream/manager.go:95-96`)
  says that it returns "the currently-observed state" in AWS. `GetMetricStream`
  returns no tags and `sdkFind` starts from a copy of the CR, so the observed
  tags are always the CR's: a tag edit is never a difference and never reaches
  the stream. `EventuallyConverges` is therefore about ARNs and fields only.
* `CorrectInputHasNoMessages`. The CRD's comment (`dashboard.go:55-56`) says that
  the messages are empty if the input was correct. If the answer to the
  `PutDashboard` of a corrected body is lost, the messages about the old body
  stay. `MessagesAreOfTheBody` shows that this is the only way.

## What is proved

Everything holds for all constants, however large, under the named
assumptions of the modules (`AwsKeysAssumption`, `AbsentAssumption`,
`TagMapsAssumption`, `Int32Assumption`, `NilAssumption`, `NilIsNoBoolean`, `NilIsNoWindow`,
`SpecsAssumption`, `RefWorldsAssumption`, `NoneAssumption`, ...), which TLC
evaluates in every run. Those of `Dashboard` say that the text determines the
document (`TextsAssumption`) and that the sentinels are neither (`DocsAssumption`,
`NoneAssumption`); that of `MetricAlarm` on `OutsideAlarms` that others put
alarms that the service accepts and shows, without an empty window. Those of `TagLists` say that there are finitely
many keys (`KeysAssumption`: Go's maps are finite), that nil is neither a key nor a
value and the empty string a value (`NilAssumption`), and what lists users write
(`TagsAssumption`: any lists of pairs).

* Each module about tags starts with lemmas on the operators it uses. `SyncEffect`:
  the two tag calls make a key the desired one exactly where desired and latest
  differ, whatever the alarm holds by then. `MirrorEffect`, `UserTagsWin`,
  `TagMapsClosed`.
* `TagFlowProofs`: `FlowTypeCorrect`, `SyncedTags`, `AwsTagsSafe` (if no
  default tag is an `aws:` tag), `WriteBackStable`. The inductive invariant
  `FlowInv` says what `desired` is at each stage and that the alarm's other
  tags are, until synced, as they were read.
* `TagListsProofs`: the two loops of `tags.go`, for lists of every length, and what
  follows for the rounds. The prover has no induction over data, but the numbers of
  rounds are well-ordered: `LeastElement` gives `UpTo`, an induction whose property
  is membership in a set; `LoopExists` that a loop of typed rounds defines a
  function, so that the recursive function in `ConvertToACKTags` and in `UsedKeys`
  is what its equation says (`ConvertLoop`, `UsedLoop`). From an invariant of each
  loop come `LastEntryWins`, what the map of any list is, and `ListOfMap`, what any
  list made of a map is, whichever order Go chose: well-formed, its map the one it
  was made of, old keys in their order (`UsedAfter` is the invariant; that the rest
  comes complete is counting). `ListTypeCorrect`, `PayloadTagsCorrect` and
  `ListsImplementMaps` are then one citation for each action. `UserOrderIsKept`
  needs `ContentInv` (the user's tags on their way have the CR's values) and
  `OrderInv` (and, of a clean list, its order), and `SameOrder`: two lists of the
  same elements without repetitions are equal if the one keeps the order of the
  other.
* `MetricAlarmProofs`: `TypeCorrect`; its invariant adds `HandInv`, what the
  worker holds at each call. `NoOrphans`: `NoOrphan` is not inductive, for a
  finalizer is taken away by a step that does not look at the alarm; `OwnInv`
  adds what the earlier calls saw (no alarm of ours at `manage`, `create` and
  `unmanage`, a finalizer at every call that writes).
  `SuccessIsApplied` and `TagsAreFirst` follow from `AppliedInv`,
  how far the alarm has come at each call if others kept away, with the lemmas
  that an accepted integer survives the `int32` conversion (`InRangeUnchanged`)
  and what is sent for a window is stored as it is,
  and that an empty delta means equality; `AwsTagsAreLeft`; `SpecIsTheUsers`
  from `CopyInv` (the worker's copy is the user's spec but for system tags);
  `RejectedSpecsAreInert`. `TerminalSpecsAreCurrent`: a CR whose retries a
  terminal error ended still has a spec that is refused so, which is why halting does
  not stand in the way of `EventuallyConverges`; it follows from what the worker
  has in hand, the spec that is refused being the CR's unless it was `edited`.
* `ManagerFactoryProofs`: `FactoryTypeCorrect`, `LocksHeld` (who holds which
  lock where), and from it `MapRaceFree` and `NobodyDeadlocks`; `ManagersMatchIds`.
* `ConditionsProofs`: `ConditionsTypeCorrect`, `StatusIsTruthful`, `ReturnedIsStatus`,
  `NoTraceOfNotFound`.
* `MetricStreamProofs`: `StreamTypeCorrect`; from `ReconInv`,
  `SentArnsWereOffered`, `StreamSuccessIsApplied`, `RejectedReferencesAreInert`
  and `StreamSpecIsTheUsers`. `ReconInv` says which call is on which path
  (`PathInv`), that after the look-ups the validation was passed (`CheckInv`),
  that what has been resolved was offered (`OfferInv`) and that the worker's
  object is the spec but for resolved ARNs and system tags (`CopyInv`). That the
  patch restores the ARNs needs `CheckInv`: `ClearResolvedReferences` takes away
  the ARN beside a reference, which is the user's unless validation forbids it.
* `DashboardProofs`: `DashboardTypeCorrect`, whose invariant adds what the worker
  holds at each call; `DashboardSuccessIsApplied`; `TerminalBodiesAreCurrent`, the
  same as for alarms, of refused bodies; `MessagesMatch`. The last
  needs `DutyInv` (the finalizer is on the CR at every call that writes, and a
  deletion's round has a CR that is being deleted) and `MessagesInv`: the messages
  in hand are those of the CR or of the answer, and as long as nothing is
  `unreported` the CR's messages are those of the dashboard that is there.
* `ReplicasProofs`: two processes. Each worker is a `Dashboard`, so the proofs of
  `DashboardProofs` are instantiated twice (`P1`, `P2`) and its lemmas cited for the
  worker that moves. What they do not give is that a step of one worker keeps the
  invariant of the other, whose CR and dashboard it changes: that holds for
  `TypeInv` and, thanks to the flags, for what a success rests on
  (`ReplicasTypeCorrect`, `ReplicasSuccessIsApplied`), but not for `DutyInv`, which a
  second process breaks by releasing the finalizer. `ElectedReplicasAreOne`
  therefore adds `ElectedInv`: with an election at most one process reconciles, the
  other holds nothing, and `DutyInv` is that of the one. A hand-over is a stutter or
  an abandoned round of `ManagedResource`.
* **Refinement.** `AlarmIsManaged` (`MetricAlarmProofs`), `StreamIsManaged`
  (`MetricStreamProofs`) and `DashboardIsManaged` (`DashboardProofs`): each kind
  implements `ManagedResource`. For each action the proof names the abstract
  action it maps to, or that it stutters; the type and duty invariants say what
  the worker has in hand there, hence what the mapped variables are. The
  outsiders' steps need the assumptions that what they write is a thing.
  `ListsImplementMaps` is the refinement of `TagFlow` by `TagLists`,
  `ElectedReplicasAreOne` that of `ManagedResource` by two elected processes.

* **The finalizer's place** (`FinalizerGoesLast`): unless others act meanwhile, a
  create and every step that puts the finalizer on a CR or takes it off find no
  stream or dashboard (`StreamFinalizerGoesLast`, `DashboardFinalizerGoesLast`), from
  `AbsentInv`: what the round found missing stays so until its create. The
  refinement alone does not say it, as `ManagedResource` lets outsiders act at any
  time. For alarms `NoOrphan` says more, since its history variable `ours` tells whose
  the alarm is.

* **The safety half of convergence** (`StaysSettled`): an undisturbed round leaves
  the thing settled, and the worker alone never ends that, whatever it then reads,
  sends again, fails or retries: `AlarmStaysSettled`, `StreamStaysSettled`,
  `DashboardStaysSettled`. `Settled` is inductive for the worker's steps without a
  word on what was read. A stale tag difference of an alarm sets tags to what they
  are or is refused, and a `PutMetricAlarm` repeats the fields. What counts as
  undisturbed differs: for an alarm the spec must not override a default tag
  (`NoOverrides`), for the patch strips the override and the next round writes the
  default; for a stream no referenced CR may change while it runs, which is read off
  `seen`. `ReplicasAgreementLasts` is the same for two processes, elected or not: once
  both workers are settled (`Agreed`) no worker, exit, restart or election writes
  anything or unsettles either, until a user changes the CR. It cites
  `SettledByWorker` of `DashboardProofs` for the worker that moves, and needs that its
  step leaves the CR and the dashboard alone for the other one.

**Only model-checked.** The liveness properties (`EventuallyConverges`,
`EventuallyQuiet`, `DeletionCompletes`, `CacheSettles`, `EveryCallReturns`), since
fairness and ENABLED are beyond the prover; `StaysSettled` and `AgreementLasts` are what
remains without them. Every invariant, action property and
refinement that a passing run checks is also a theorem.

## Assumptions of the models

* A call fails without effect or takes effect and fails; one that was given up
  does not take effect later. Reads of CloudWatch are not stale.
* The spec that the worker reads is the current one.
* `TagResource`, `UntagResource` and a creating `PutMetricAlarm` refuse `aws:`
  keys; an updating `PutMetricAlarm` ignores tags (`hooks.go:27-28`).
* `ActionsEnabled` is the only field that the model's service defaults.
* `PutMetricStream` requires both ARNs and uses tags only when it creates;
  whether `DeleteMetricStream` complains of a missing stream is left open.
* `GetDashboard` returns a text of the document that was put.
* The reconciler's order of calls is that of the ACK runtime the repository
  requires (`go.mod`); those steps are marked external.

## Not modelled, and the plan

The order of the work was: tags (they cross every owner), `MetricAlarm` (the
largest kind, the only one with several calls per operation), the manager
factory, the conditions, then `MetricStream` and `Dashboard`, the abstract
`ManagedResource` that the three implement with the proofs that they do, and two
processes on one dashboard. What could still be added:

* `Conditions` composed with `MetricAlarm` and `Dashboard`. The condition that
  says "synced" is set by the runtime, so this needs more of it than the
  repository shows.

Left out, with the reason:

* Adoption (`MarkAdopted`, `PopulateResourceFromAnnotation`, `SetIdentifiers`) and
  field exports run in reconcilers of the runtime; here are only the accessors.
* The API types declare data; `zz_generated.deepcopy.go` copies it field by
  field, which in the models is a value.
* The tag lists inside `MetricStream`: its delta compares maps, and what `latest`
  shows as tags is the CR's own list, so the lists add nothing to `TagLists`.
* Flags, registration, webhooks, health checks, manifests, generator templates
  and e2e tests have no state that a later step reads.
* The factory under changing configuration: the repository does not say what a
  call with a known id and another configuration should yield.
