------------------------- MODULE MetricAlarmProofs -------------------------
(* Proofs about MetricAlarm, for every set of specs, of keys and of values *)
(* and without the bounds mattering: types; who owns an alarm; what a      *)
(* successful reconciliation left behind; whose tags and whose fields the  *)
(* worker may change; and that the worker is the ManagedResource.          *)
EXTENDS MetricAlarm, TLAPS

-----------------------------------------------------------------------------
(* The tag operators.                                                      *)

(* The operators take tag maps to tag maps.                                *)
LEMMA TagMapsClosed ==
  ASSUME NEW a \in TagMap, NEW b \in TagMap, NEW S
  PROVE  /\ Merge(a, b) \in TagMap
         /\ SyncAWSTags(a, b) \in TagMap
         /\ IgnoreSystemTags(a, S) \in TagMap
         /\ TagsToAdd(a, b) \in TagMap
         /\ UntagResource(a, S) \in TagMap
         /\ NoTags \in TagMap
  BY DEF TagMap, Merge, SyncAWSTags, IgnoreSystemTags, TagsToAdd, UntagResource, NoTags

(* What syncTags does to one key of the alarm: where the desired and the   *)
(* latest tags agree it leaves it alone, elsewhere it makes it the desired *)
(* one, whatever the alarm holds by now.                                   *)
LEMMA SyncEffect ==
  ASSUME NEW d \in TagMap, NEW l \in TagMap, NEW a \in TagMap, NEW k \in Keys
  PROVE  UntagResource(TagResource(a, TagsToAdd(d, l)), TagsToRemove(d, l))[k]
           = IF d[k] = l[k] THEN a[k] ELSE d[k]
  BY DEF UntagResource, TagResource, TagsToAdd, TagsToRemove, KeysOf, Merge, TagMap

(* EnsureTags never overrides a tag of the CR, whatever the defaults.      *)
LEMMA UserTagsWin ==
  ASSUME NEW t \in TagMap, NEW d \in TagMap, NEW k \in Keys
  PROVE  EnsureTags(t, d)[k] = IF t[k] # Absent THEN t[k] ELSE d[k]
  BY DEF EnsureTags, Merge

(* mirrorAWSTags changes aws: keys only, and makes each that the alarm has *)
(* the same in both.                                                       *)
LEMMA MirrorEffect ==
  ASSUME NEW d \in TagMap, NEW l \in TagMap, NEW k \in Keys
  PROVE  MirrorAWSTags(d, l)[k] =
           IF k \in AwsKeys /\ l[k] # Absent THEN l[k] ELSE d[k]
  BY DEF MirrorAWSTags, SyncAWSTags


-----------------------------------------------------------------------------
(* Types.                                                                  *)

(* int32(n) is a number again (or nil).                                    *)
LEMMA ToInt32Type ==
  ASSUME NEW n \in Int \cup {Nil} PROVE ToInt32(n) \in Int \cup {Nil}
  <1>1. CASE n = Nil
    BY <1>1 DEF ToInt32
  <1>2. CASE n # Nil
    <2>1. n - MinInt32 \in Int /\ MaxInt32 - MinInt32 + 1 \in Nat \ {0}
      BY <1>2, Int32Assumption
    <2>2. (n - MinInt32) % (MaxInt32 - MinInt32 + 1) \in Int
      BY <2>1
    <2> QED
      BY <1>2, <2>2, Int32Assumption DEF ToInt32
  <1> QED
    BY <1>1, <1>2

(* What the service makes of fields are fields again.                      *)
LEMMA DefaultsType ==
  ASSUME NEW s \in AlarmSpec PROVE WithDefaults(s) \in AlarmSpec
  <1>1. WindowSent(s.EvaluationWindow) \in (SUBSET Windows) \cup {Nil}
    BY DEF WindowSent, AlarmSpec
  <1> QED
    BY <1>1 DEF WithDefaults, AlarmSpec

(* What PutMetricAlarm stores for a spec is a spec.                        *)
LEMMA StoredConfigType ==
  ASSUME NEW s \in AlarmSpec PROVE WithDefaults(RequestPayload(s)) \in AlarmSpec
  <1>1. ToInt32(s.DatapointsToAlarm) \in Int \cup {Nil} /\ ToInt32(s.Period) \in Int \cup {Nil}
    BY ToInt32Type DEF AlarmSpec
  <1>2. WindowSent(s.EvaluationWindow) \in (SUBSET Windows) \cup {Nil}
    BY DEF WindowSent, AlarmSpec
  <1>3. RequestPayload(s) \in AlarmSpec
    BY <1>1, <1>2 DEF RequestPayload, AlarmSpec
  <1> QED
    BY <1>3, DefaultsType

(* The next call after the comparison is one of these.                     *)
LEMMA NextCall ==
  ASSUME NEW d, NEW l
  PROVE  /\ AfterTags(d, l) \in {"put", "patch"}
         /\ AfterAdd(d, l) \in {"untag", "put", "patch"}
         /\ AfterDelta(d, l) \in {"tag", "untag", "put", "patch"}
  BY DEF AfterTags, AfterAdd, AfterDelta

(* The payload builder fails plainly, terminally, or not at all.           *)
LEMMA PayloadErrors ==
  ASSUME NEW s PROVE PayloadError(s) \in {"none", "recoverable", "terminal"}
  <1>1. CASE OutOfRange(s.DatapointsToAlarm)
    BY <1>1 DEF PayloadError
  <1>2. CASE ~OutOfRange(s.DatapointsToAlarm) /\ s.EvaluationWindow = Windows
    BY <1>2 DEF PayloadError
  <1>3. CASE ~OutOfRange(s.DatapointsToAlarm) /\ s.EvaluationWindow # Windows
    BY <1>3 DEF PayloadError
  <1> QED
    BY <1>1, <1>2, <1>3

(* Replacing the tags of a resource, or building it, gives a resource.     *)
LEMMA ResourceType ==
  ASSUME NEW r \in Resource, NEW t \in TagMap
  PROVE  /\ [r EXCEPT !.tags = t] \in Resource
         /\ [config |-> r.config, tags |-> t] \in Resource
  BY DEF Resource

LEMMA FieldTypes ==
  ASSUME NEW r \in Resource
  PROVE  r.tags \in TagMap /\ r.config \in AlarmSpec
  BY DEF Resource

(* What PutMetricAlarm leaves in CloudWatch is an alarm.                   *)
LEMMA PutsType ==
  ASSUME NEW r \in Resource, alarm \in Resource \cup {None}, Puts(r)
  PROVE  alarm' \in Resource
  <1>1. WithDefaults(RequestPayload(r.config)) \in AlarmSpec
    BY StoredConfigType DEF Resource
  <1>2. (IF alarm = None THEN r.tags ELSE alarm.tags) \in TagMap
    BY DEF Resource
  <1> QED
    BY <1>1, <1>2 DEF Puts, Resource

(* The tag calls keep an alarm an alarm.                                   *)
LEMMA RetagType ==
  ASSUME NEW a \in Resource, NEW d \in Resource, NEW l \in Resource
  PROVE  /\ [a EXCEPT !.tags = TagResource(@, TagsToAdd(d.tags, l.tags))] \in Resource
         /\ [a EXCEPT !.tags = UntagResource(@, TagsToRemove(d.tags, l.tags))] \in Resource
  <1>1. a.tags \in TagMap /\ d.tags \in TagMap /\ l.tags \in TagMap
    BY FieldTypes
  <1>2. TagResource(a.tags, TagsToAdd(d.tags, l.tags)) \in TagMap
    BY <1>1, TagMapsClosed DEF TagResource
  <1>3. UntagResource(a.tags, TagsToRemove(d.tags, l.tags)) \in TagMap
    BY <1>1, TagMapsClosed
  <1> QED
    BY <1>2, <1>3, ResourceType

(* The worker holds the resources that its next call works on.             *)
HandInv ==
    /\ pc # "idle" => desired \in Resource
    /\ pc \in {"listTags", "tag", "untag", "put", "delete"} => latest \in Resource

TypeInv == TypeOK /\ HandInv

(* The worker's part of the invariant after a step that ends its work, and *)
(* after one that goes on to the next call with what it has in hand.       *)
WorkerTypeOK ==
    /\ outcome \in {"none", "synced", "recoverable", "terminal", "unmanaged"}
    /\ halted \in BOOLEAN
    /\ pc \in Calls \cup {"idle"}
    /\ path \in {"sync", "delete"}
    /\ desired \in Resource \cup {None}
    /\ latest \in Resource \cup {None}
    /\ HandInv

(* Only two outcomes may end the retries, and only of a CR that is as the  *)
(* worker read it.                                                         *)
LEMMA FinishHalts ==
  ASSUME NEW o, Finish(o)
  PROVE  /\ halted' \in BOOLEAN
         /\ halted' => ~Changed /\ o \in {"terminal", "unmanaged"}
  BY DEF Finish, Halts

LEMMA FinishType ==
  ASSUME TypeInv, NEW o \in {"synced", "recoverable", "terminal", "unmanaged"}, Finish(o)
  PROVE  WorkerTypeOK'
  <1>1. halted' \in BOOLEAN
    BY FinishHalts
  <1> QED
    BY <1>1 DEF TypeInv, TypeOK, HandInv, Finish, WorkerTypeOK

LEMMA UsedType ==
  ASSUME TypeInv, NEW b \in {"edits", "outside", "failures", "crashes"}, Use(b)
  PROVE  used' \in [edits : Nat, outside : Nat, failures : Nat, crashes : Nat]
  BY DEF TypeInv, TypeOK, Use

LEMMA FailingType ==
  ASSUME TypeInv, Failing
  PROVE  used' \in [edits : Nat, outside : Nat, failures : Nat, crashes : Nat]
  BY UsedType DEF Failing

(* The rest of the invariant.                                              *)
StoreTypeOK ==
    /\ crState \in {"absent", "live", "deleting"}
    /\ finalizer \in BOOLEAN
    /\ spec \in Resource
    /\ alarm \in Resource \cup {None}
    /\ ours \in BOOLEAN
    /\ edited \in BOOLEAN /\ interfered \in BOOLEAN /\ lostCreate \in BOOLEAN
    /\ used \in [edits : Nat, outside : Nat, failures : Nat, crashes : Nat]

LEMMA TypeParts == TypeInv <=> WorkerTypeOK /\ StoreTypeOK
  BY DEF TypeInv, TypeOK, WorkerTypeOK, StoreTypeOK

LEMMA TypePartsNext == TypeInv' <=> WorkerTypeOK' /\ StoreTypeOK'
  BY DEF TypeInv, TypeOK, WorkerTypeOK, StoreTypeOK, HandInv

LEMMA TypeInit == Init => TypeInv
  <1> SUFFICES ASSUME Init PROVE WorkerTypeOK /\ StoreTypeOK
    BY TypeParts
  <1>1. used \in [edits : Nat, outside : Nat, failures : Nat, crashes : Nat]
    BY DEF Init
  <1>2. WorkerTypeOK
    BY DEF Init, WorkerTypeOK, HandInv
  <1>3. StoreTypeOK
    BY <1>1, SpecsAssumption DEF Init, StoreTypeOK
  <1> QED
    BY <1>2, <1>3

LEMMA TypeEnvironment ==
  ASSUME TypeInv, Environment PROVE TypeInv'
  <1> USE DEF cr, aws, worker, history
  <1>0. WorkerTypeOK /\ StoreTypeOK
    BY TypeParts
  <1>1. ASSUME NEW s \in Specs, CreateCR(s) \/ EditSpec(s) PROVE TypeInv'
    <2>1. used' \in [edits : Nat, outside : Nat, failures : Nat, crashes : Nat]
      BY <1>1, UsedType DEF CreateCR, EditSpec
    <2>2. s \in Resource
      BY SpecsAssumption
    <2>3. StoreTypeOK'
      BY <1>0, <1>1, <2>1, <2>2 DEF CreateCR, EditSpec, StoreTypeOK
    <2>4. WorkerTypeOK'
      BY <1>0, <1>1 DEF CreateCR, EditSpec, WorkerTypeOK, HandInv
    <2> QED
      BY <2>3, <2>4, TypePartsNext
  <1>2. ASSUME DeleteCR PROVE TypeInv'
    <2>1. StoreTypeOK'
      BY <1>0, <1>2 DEF DeleteCR, StoreTypeOK
    <2>2. WorkerTypeOK'
      BY <1>0, <1>2 DEF DeleteCR, WorkerTypeOK, HandInv
    <2> QED
      BY <2>1, <2>2, TypePartsNext
  <1>3. ASSUME NEW a \in OutsideAlarms, OutsidePut(a) PROVE TypeInv'
    <2>1. used' \in [edits : Nat, outside : Nat, failures : Nat, crashes : Nat]
      BY <1>3, UsedType DEF OutsidePut
    <2>2. StoreTypeOK'
      BY <1>0, <1>3, <2>1, SpecsAssumption DEF OutsidePut, StoreTypeOK
    <2>3. WorkerTypeOK'
      BY <1>0, <1>3 DEF OutsidePut, WorkerTypeOK, HandInv
    <2> QED
      BY <2>2, <2>3, TypePartsNext
  <1>4. ASSUME OutsideDelete PROVE TypeInv'
    <2>1. used' \in [edits : Nat, outside : Nat, failures : Nat, crashes : Nat]
      BY <1>4, UsedType DEF OutsideDelete
    <2>2. StoreTypeOK'
      BY <1>0, <1>4, <2>1 DEF OutsideDelete, Gone, StoreTypeOK
    <2>3. WorkerTypeOK'
      BY <1>0, <1>4 DEF OutsideDelete, WorkerTypeOK, HandInv
    <2> QED
      BY <2>2, <2>3, TypePartsNext
  <1>5. ASSUME Crash PROVE TypeInv'
    <2>1. used' \in [edits : Nat, outside : Nat, failures : Nat, crashes : Nat]
      BY <1>5, UsedType DEF Crash
    <2>2. StoreTypeOK'
      BY <1>0, <1>5, <2>1 DEF Crash, StoreTypeOK
    <2>3. WorkerTypeOK'
      BY <1>0, <1>5 DEF Crash, WorkerTypeOK, HandInv
    <2> QED
      BY <2>2, <2>3, TypePartsNext
  <1> QED
    BY <1>1, <1>2, <1>3, <1>4, <1>5 DEF Environment

LEMMA TypeWorker ==
  ASSUME TypeInv, Worker PROVE TypeInv'
  <1> USE DEF cr, aws, worker, history
  <1>0. WorkerTypeOK /\ StoreTypeOK
    BY TypeParts
  <1>1. ASSUME Begin PROVE TypeInv'
    <2>1. spec \in Resource /\ EnsureTags(spec.tags, DefaultTags) \in TagMap
      BY <1>0, DefaultTagsAssumption, FieldTypes, TagMapsClosed DEF StoreTypeOK, EnsureTags
    <2>2. desired' \in Resource
      BY <1>1, <2>1, ResourceType DEF Begin
    <2>3. WorkerTypeOK'
      BY <1>0, <1>1, <2>2 DEF Begin, WorkerTypeOK, HandInv, Calls
    <2>4. StoreTypeOK'
      BY <1>0, <1>1 DEF Begin, StoreTypeOK
    <2> QED
      BY <2>3, <2>4, TypePartsNext
  <1>2. ASSUME DescribeAlarms PROVE TypeInv'
    <2>1. StoreTypeOK'
      BY <1>0, <1>2, FailingType DEF DescribeAlarms, StoreTypeOK
    <2>2. desired \in Resource
      BY <1>0, <1>2 DEF DescribeAlarms, WorkerTypeOK, HandInv
    <2>3. alarm # None => [config |-> alarm.config, tags |-> desired.tags] \in Resource
      BY <1>0, <2>2 DEF StoreTypeOK, Resource
    <2>4. WorkerTypeOK'
      BY <1>0, <1>2, <2>2, <2>3, FinishType
      DEF DescribeAlarms, Goto, WorkerTypeOK, HandInv, Calls
    <2> QED
      BY <2>1, <2>4, TypePartsNext
  <1>3. ASSUME ListTagsForResource PROVE TypeInv'
    <2>1. StoreTypeOK'
      BY <1>0, <1>3, FailingType DEF ListTagsForResource, StoreTypeOK
    <2>2. desired \in Resource /\ latest \in Resource
      BY <1>0, <1>3 DEF ListTagsForResource, WorkerTypeOK, HandInv
    <2>3. alarm # None => /\ [latest EXCEPT !.tags = alarm.tags] \in Resource
                          /\ [desired EXCEPT !.tags = MirrorAWSTags(@, alarm.tags)] \in Resource
      <3>1. alarm # None => alarm.tags \in TagMap /\ desired.tags \in TagMap
        BY <1>0, <2>2, FieldTypes DEF StoreTypeOK
      <3>2. alarm # None => MirrorAWSTags(desired.tags, alarm.tags) \in TagMap
        BY <3>1, TagMapsClosed DEF MirrorAWSTags
      <3> QED
        BY <2>2, <3>1, <3>2, ResourceType
    <2>4. WorkerTypeOK'
      <3>1. CASE alarm # None /\ finalizer /\ pc' # "idle"
                 /\ latest' = [latest EXCEPT !.tags = alarm.tags]
                 /\ desired' = [desired EXCEPT !.tags = MirrorAWSTags(@, alarm.tags)]
                 /\ pc' = (IF path = "delete" THEN "delete" ELSE AfterDelta(desired', latest'))
                 /\ UNCHANGED <<path, outcome, halted>>
        <4>1. pc' \in {"tag", "untag", "put", "patch", "delete"}
          BY <3>1, NextCall
        <4> QED
          BY <1>0, <2>3, <3>1, <4>1 DEF WorkerTypeOK, HandInv, Calls
      <3>2. CASE \E o \in {"recoverable", "unmanaged"} : Finish(o)
        BY <3>2, FinishType
      <3> QED
        BY <1>3, <3>1, <3>2, NextCall DEF ListTagsForResource
    <2> QED
      BY <2>1, <2>4, TypePartsNext
  <1>4. ASSUME Manage PROVE TypeInv'
    <2>1. StoreTypeOK'
      BY <1>0, <1>4, FailingType DEF Manage, StoreTypeOK
    <2>2. WorkerTypeOK'
      BY <1>0, <1>4, FinishType DEF Manage, Goto, WorkerTypeOK, HandInv, Calls
    <2> QED
      BY <2>1, <2>2, TypePartsNext
  <1>5. ASSUME Create PROVE TypeInv'
    <2>1. desired \in Resource /\ alarm \in Resource \cup {None}
      BY <1>0, <1>5 DEF Create, WorkerTypeOK, StoreTypeOK, HandInv
    <2>2. Puts(desired) => alarm' \in Resource
      BY <2>1, PutsType
    <2>3. StoreTypeOK'
      BY <1>0, <1>5, <2>2, FailingType DEF Create, CreateFails, StoreTypeOK
    <2>4. WorkerTypeOK'
      BY <1>0, <1>5, <2>1, FinishType, PayloadErrors
      DEF Create, CreateFails, Goto, WorkerTypeOK, HandInv, Calls
    <2> QED
      BY <2>3, <2>4, TypePartsNext
  <1>6. ASSUME TagResourceCall PROVE TypeInv'
    <2>1. /\ desired \in Resource /\ latest \in Resource
          /\ alarm \in Resource \cup {None}
      BY <1>0, <1>6 DEF TagResourceCall, WorkerTypeOK, StoreTypeOK, HandInv
    <2>2. alarm # None => [alarm EXCEPT !.tags = TagResource(@, TagsToAdd(desired.tags, latest.tags))] \in Resource
      BY <2>1, RetagType
    <2>3. StoreTypeOK'
      BY <1>0, <1>6, <2>2, FailingType DEF TagResourceCall, StoreTypeOK
    <2>4. WorkerTypeOK'
      BY <1>0, <1>6, <2>1, FinishType, NextCall
      DEF TagResourceCall, Goto, WorkerTypeOK, HandInv, Calls
    <2> QED
      BY <2>3, <2>4, TypePartsNext
  <1>7. ASSUME UntagResourceCall PROVE TypeInv'
    <2>1. /\ desired \in Resource /\ latest \in Resource
          /\ alarm \in Resource \cup {None}
      BY <1>0, <1>7 DEF UntagResourceCall, WorkerTypeOK, StoreTypeOK, HandInv
    <2>2. alarm # None => [alarm EXCEPT !.tags = UntagResource(@, TagsToRemove(desired.tags, latest.tags))] \in Resource
      BY <2>1, RetagType
    <2>3. StoreTypeOK'
      BY <1>0, <1>7, <2>2, FailingType DEF UntagResourceCall, StoreTypeOK
    <2>4. WorkerTypeOK'
      BY <1>0, <1>7, <2>1, FinishType, NextCall
      DEF UntagResourceCall, Goto, WorkerTypeOK, HandInv, Calls
    <2> QED
      BY <2>3, <2>4, TypePartsNext
  <1>8. ASSUME Update PROVE TypeInv'
    <2>1. desired \in Resource /\ alarm \in Resource \cup {None}
      BY <1>0, <1>8 DEF Update, WorkerTypeOK, StoreTypeOK, HandInv
    <2>2. Puts(desired) => alarm' \in Resource
      BY <2>1, PutsType
    <2>3. StoreTypeOK'
      BY <1>0, <1>8, <2>2, FailingType DEF Update, StoreTypeOK
    <2>4. WorkerTypeOK'
      BY <1>0, <1>8, <2>1, FinishType, PayloadErrors
      DEF Update, Goto, WorkerTypeOK, HandInv, Calls
    <2> QED
      BY <2>3, <2>4, TypePartsNext
  <1>9. ASSUME PatchCR PROVE TypeInv'
    <2>1. desired \in Resource /\ spec \in Resource
      BY <1>0, <1>9 DEF PatchCR, WorkerTypeOK, StoreTypeOK, HandInv
    <2>2. [LateInitialize(desired) EXCEPT !.tags = FilterSystemTags(@, SystemTags)] \in Resource
      <3>1. FilterSystemTags(desired.tags, SystemTags) \in TagMap
        BY <2>1, FieldTypes, TagMapsClosed DEF FilterSystemTags
      <3> QED
        BY <2>1, <3>1, ResourceType DEF LateInitialize
    <2>3. StoreTypeOK'
      BY <1>0, <1>9, <2>1, <2>2, FailingType DEF PatchCR, StoreTypeOK
    <2>4. WorkerTypeOK'
      BY <1>9, FinishType DEF PatchCR
    <2> QED
      BY <2>3, <2>4, TypePartsNext
  <1>10. ASSUME Delete PROVE TypeInv'
    <2>1. StoreTypeOK'
      BY <1>0, <1>10, FailingType DEF Delete, Gone, StoreTypeOK
    <2>2. WorkerTypeOK'
      BY <1>0, <1>10, FinishType DEF Delete, Goto, WorkerTypeOK, HandInv, Calls
    <2> QED
      BY <2>1, <2>2, TypePartsNext
  <1>11. ASSUME Unmanage PROVE TypeInv'
    <2>1. StoreTypeOK'
      BY <1>0, <1>11, FailingType DEF Unmanage, StoreTypeOK
    <2>2. WorkerTypeOK'
      BY <1>11, FinishType DEF Unmanage
    <2> QED
      BY <2>1, <2>2, TypePartsNext
  <1> QED
    BY <1>1, <1>2, <1>3, <1>4, <1>5, <1>6, <1>7, <1>8, <1>9, <1>10, <1>11 DEF Worker

LEMMA TypeStutter ==
  ASSUME TypeInv, UNCHANGED vars PROVE TypeInv'
  BY DEF TypeInv, TypeOK, HandInv, vars, cr, aws, worker, history

LEMMA TypeInvariant == Spec => []TypeInv
  <1>1. TypeInv /\ [Next]_vars => TypeInv'
    BY TypeEnvironment, TypeWorker, TypeStutter DEF Next
  <1> QED
    BY <1>1, TypeInit, PTL DEF Spec

(* Type correctness: in particular the int32 conversions and the tag       *)
(* operators never leave their ranges, and the worker never works on a     *)
(* resource it does not hold.                                              *)
THEOREM TypeCorrect == Spec => []TypeOK
  BY TypeInvariant, PTL DEF TypeInv

-----------------------------------------------------------------------------
(* No orphans.  NoOrphan is not inductive: that the finalizer goes only    *)
(* when no alarm of ours is left depends on what the calls before saw.     *)
OwnInv ==
    /\ ours => alarm # None
    /\ crState = "absent" => ~finalizer
    /\ crState = "deleting" => finalizer
    /\ pc \in {"create", "tag", "untag", "put", "patch"} => finalizer
    /\ pc \in {"manage", "create", "unmanage"} => ~ours
    /\ pc \in {"delete", "unmanage"} => path = "delete"
    /\ pc # "idle" /\ path = "delete" =>
           crState = "deleting" /\ pc \in {"describe", "listTags", "delete", "unmanage"}
    /\ NoOrphan

LEMMA OwnInit == Init => OwnInv
  BY DEF Init, OwnInv, NoOrphan

LEMMA OwnEnvironment ==
  ASSUME TypeInv, OwnInv, Environment PROVE OwnInv'
  <1> USE DEF cr, aws, worker, history, OwnInv, NoOrphan
  <1>1. ASSUME NEW s \in Specs, CreateCR(s) \/ EditSpec(s) PROVE OwnInv'
    BY <1>1 DEF CreateCR, EditSpec
  <1>2. ASSUME DeleteCR PROVE OwnInv'
    BY <1>2 DEF DeleteCR
  <1>3. ASSUME NEW a \in OutsideAlarms, OutsidePut(a) PROVE OwnInv'
    BY <1>3, SpecsAssumption, NoneAssumption DEF OutsidePut
  <1>4. ASSUME OutsideDelete PROVE OwnInv'
    BY <1>4 DEF OutsideDelete, Gone
  <1>5. ASSUME Crash PROVE OwnInv'
    BY <1>5 DEF Crash
  <1> QED
    BY <1>1, <1>2, <1>3, <1>4, <1>5 DEF Environment

LEMMA OwnWorker ==
  ASSUME TypeInv, TypeInv', OwnInv, Worker PROVE OwnInv'
  <1> USE DEF cr, aws, worker, history, OwnInv, NoOrphan
  <1>0. /\ alarm \in Resource \cup {None} /\ finalizer \in BOOLEAN /\ ours \in BOOLEAN
        /\ lostCreate \in BOOLEAN /\ crState \in {"absent", "live", "deleting"}
        /\ pc # "idle" => desired \in Resource
    BY DEF TypeInv, TypeOK, HandInv
  <1>1. CASE Begin
    BY <1>0, <1>1 DEF Begin
  <1>2. CASE DescribeAlarms
    BY <1>0, <1>2 DEF DescribeAlarms, Finish, Goto
  <1>3. CASE ListTagsForResource
    <2>1. AfterDelta(desired', latest') \in {"tag", "untag", "put", "patch"}
      BY NextCall
    <2> QED
      BY <1>0, <1>3, <2>1 DEF ListTagsForResource, Finish
  <1>4. CASE Manage
    BY <1>0, <1>4 DEF Manage, Finish, Goto
  <1>5. CASE Create
    <2>1. Puts(desired) => alarm' # None
      BY <1>0, <1>5, PutsType, NoneAssumption DEF Create
    <2>2. pc = "create" /\ finalizer /\ ~ours /\ path # "delete"
      BY <1>5 DEF Create
    <2>3. CASE /\ \E o \in {"recoverable", "terminal"} : CreateFails(o)
               /\ UNCHANGED <<alarm, ours, lostCreate>>
      BY <1>0, <2>2, <2>3 DEF CreateFails, Finish
    <2>4. CASE /\ Puts(desired) /\ Goto("patch") /\ ours' = (ours \/ alarm = None)
               /\ UNCHANGED <<crState, finalizer, lostCreate>>
      BY <1>0, <2>1, <2>2, <2>4 DEF Goto
    <2>5. CASE /\ CreateFails("recoverable") /\ Puts(desired)
               /\ ours' = (ours \/ alarm = None)
               /\ lostCreate' = (lostCreate \/ alarm = None)
      BY <1>0, <2>1, <2>2, <2>5 DEF CreateFails, Finish
    <2>6. PayloadError(desired.config) # "none" =>
             PayloadError(desired.config) \in {"recoverable", "terminal"}
      BY PayloadErrors
    <2> QED
      BY <1>5, <2>3, <2>4, <2>5, <2>6 DEF Create
  <1>6. CASE TagResourceCall
    <2>1. AfterAdd(desired, latest) \in {"untag", "put", "patch"}
      BY NextCall
    <2>2. alarm # None => alarm' # None
      <3>1. desired \in Resource /\ latest \in Resource
        BY <1>6 DEF TagResourceCall, TypeInv, HandInv
      <3> HIDE DEF OwnInv, NoOrphan
      <3>2. \/ alarm' = [alarm EXCEPT !.tags = TagResource(@, TagsToAdd(desired.tags, latest.tags))]
            \/ alarm' = alarm
        BY <1>6 DEF TagResourceCall
      <3> SUFFICES ASSUME alarm # None PROVE alarm' # None
        OBVIOUS
      <3>3. alarm \in Resource
        BY <1>0
      <3>4. [alarm EXCEPT !.tags = TagResource(@, TagsToAdd(desired.tags, latest.tags))] \in Resource
        BY <3>1, <3>3, RetagType
      <3> QED
        BY <3>2, <3>4, NoneAssumption
    <2> QED
      BY <1>0, <1>6, <2>1, <2>2 DEF TagResourceCall, Finish, Goto
  <1>7. CASE UntagResourceCall
    <2>1. AfterTags(desired, latest) \in {"put", "patch"}
      BY NextCall
    <2>2. alarm # None => alarm' # None
      <3>1. desired \in Resource /\ latest \in Resource
        BY <1>7 DEF UntagResourceCall, TypeInv, HandInv
      <3> HIDE DEF OwnInv, NoOrphan
      <3>2. \/ alarm' = [alarm EXCEPT !.tags = UntagResource(@, TagsToRemove(desired.tags, latest.tags))]
            \/ alarm' = alarm
        BY <1>7 DEF UntagResourceCall
      <3> SUFFICES ASSUME alarm # None PROVE alarm' # None
        OBVIOUS
      <3>3. alarm \in Resource
        BY <1>0
      <3>4. [alarm EXCEPT !.tags = UntagResource(@, TagsToRemove(desired.tags, latest.tags))] \in Resource
        BY <3>1, <3>3, RetagType
      <3> QED
        BY <3>2, <3>4, NoneAssumption
    <2> QED
      BY <1>0, <1>7, <2>1, <2>2 DEF UntagResourceCall, Finish, Goto
  <1>8. CASE Update
    <2>1. Puts(desired) => alarm' # None
      BY <1>0, <1>8, PutsType, NoneAssumption DEF Update
    <2> QED
      BY <1>0, <1>8, <2>1 DEF Update, Finish, Goto
  <1>9. CASE PatchCR
    BY <1>0, <1>9 DEF PatchCR, Finish
  <1>10. CASE Delete
    BY <1>0, <1>10 DEF Delete, Gone, Finish, Goto
  <1>11. CASE Unmanage
    BY <1>0, <1>11 DEF Unmanage, Finish
  <1> QED
    BY <1>1, <1>2, <1>3, <1>4, <1>5, <1>6, <1>7, <1>8, <1>9, <1>10, <1>11 DEF Worker

LEMMA OwnInvariant == Spec => []OwnInv
  <1>1. TypeInv /\ TypeInv' /\ OwnInv /\ [Next]_vars => OwnInv'
    <2>1. OwnInv /\ UNCHANGED vars => OwnInv'
      BY DEF OwnInv, NoOrphan, vars, cr, aws, worker, history
    <2> QED
      BY <2>1, OwnEnvironment, OwnWorker DEF Next
  <1> QED
    BY <1>1, OwnInit, TypeInvariant, PTL DEF Spec

(* Whatever crashes, failures and outsiders do, an alarm the controller    *)
(* made keeps a finalizer on its CR, but for a create whose answer was lost*)
THEOREM NoOrphans == Spec => []NoOrphan
  BY OwnInvariant, PTL DEF OwnInv

-----------------------------------------------------------------------------
(* An integer the payload builder accepts reaches the API unchanged.       *)
LEMMA InRangeUnchanged ==
  ASSUME NEW n \in Int \cup {Nil}, ~OutOfRange(n) PROVE ToInt32(n) = n
  <1>1. CASE n = Nil
    BY <1>1 DEF ToInt32
  <1>2. CASE n # Nil
    <2>1. /\ n \in Int /\ MinInt32 <= n /\ n <= MaxInt32
          /\ MinInt32 \in Int /\ MaxInt32 \in Int
      BY <1>2, Int32Assumption DEF OutOfRange
    <2>2. \A a \in Nat, m \in Nat \ {0} : a < m => a % m = a
      OBVIOUS
    <2>3. n - MinInt32 \in Nat /\ MaxInt32 - MinInt32 + 1 \in Nat \ {0}
          /\ n - MinInt32 < MaxInt32 - MinInt32 + 1
      BY <2>1
    <2>4. (n - MinInt32) % (MaxInt32 - MinInt32 + 1) = n - MinInt32
      BY <2>2, <2>3
    <2> QED
      BY <1>2, <2>1, <2>4 DEF ToInt32
  <1> QED
    BY <1>1, <1>2

(* ... and so does every field of a spec it accepts, but for a window that *)
(* has no member.                                                          *)
LEMMA PayloadIsFaithful ==
  ASSUME NEW s \in AlarmSpec, PayloadError(s) = "none"
  PROVE  WithDefaults(RequestPayload(s)) = WithDefaults(s)
  <1>1. ~OutOfRange(s.DatapointsToAlarm)
    BY DEF PayloadError
  <1>2. s.EvaluationWindow # Windows
    <2> SUFFICES ASSUME s.EvaluationWindow = Windows PROVE FALSE
      OBVIOUS
    <2>1. PayloadError(s) = "terminal"
      BY <1>1 DEF PayloadError
    <2> QED
      BY <2>1
  <1>3. ~OutOfRange(s.Period)
    <2> SUFFICES ASSUME OutOfRange(s.Period) PROVE FALSE
      OBVIOUS
    <2>1. PayloadError(s) = "recoverable"
      BY <1>1, <1>2 DEF PayloadError
    <2> QED
      BY <2>1
  <1>4. ToInt32(s.DatapointsToAlarm) = s.DatapointsToAlarm /\ ToInt32(s.Period) = s.Period
    BY <1>1, <1>3, InRangeUnchanged DEF AlarmSpec
  <1>5. RequestPayload(s) = [s EXCEPT !.EvaluationWindow = WindowSent(@)]
    BY <1>4 DEF RequestPayload, AlarmSpec
  <1>6. WindowSent(WindowSent(s.EvaluationWindow)) = WindowSent(s.EvaluationWindow)
    BY DEF WindowSent
  <1> QED
    BY <1>5, <1>6 DEF WithDefaults, AlarmSpec

(* No difference in any field means the same fields.                       *)
LEMMA NoDelta ==
  ASSUME NEW a \in AlarmSpec, NEW b \in AlarmSpec, Delta(a, b) = {} PROVE a = b
  <1>1. \A f \in Fields : a[f] = b[f]
    BY DEF Delta
  <1> QED
    BY <1>1 DEF AlarmSpec, Fields

(* Fields in which nothing is left to the service.                         *)
Complete(s) == s.ActionsEnabled # Nil /\ s.EvaluationWindow # {}

(* The service's defaults: nothing left unset, nothing that is set changed.*)
LEMMA DefaultsEffect ==
  ASSUME NEW s \in AlarmSpec
  PROVE  Complete(WithDefaults(s)) /\ (Complete(s) => WithDefaults(s) = s)
  <1>1. WindowSent(s.EvaluationWindow) # {}
    BY NilIsNoWindow DEF WindowSent
  <1>2. Complete(WithDefaults(s))
    BY <1>1, NilIsNoBoolean DEF Complete, WithDefaults, AlarmSpec
  <1>3. s.EvaluationWindow # {} => WindowSent(s.EvaluationWindow) = s.EvaluationWindow
    BY DEF WindowSent
  <1>4. Complete(s) => WithDefaults(s) = s
    BY <1>3 DEF Complete, WithDefaults, AlarmSpec
  <1> QED
    BY <1>2, <1>4

(* A difference that is empty sets nothing, and removing no key neither.   *)
LEMMA NothingToSync ==
  ASSUME NEW m \in TagMap, NEW t \in TagMap
  PROVE  /\ KeysOf(t) = {} => TagResource(m, t) = m
         /\ UntagResource(m, {}) = m
  BY DEF TagMap, KeysOf, TagResource, UntagResource, Merge

(* Both tag calls on the tags that were read give the tags desired.        *)
LEMMA BothTagCalls ==
  ASSUME NEW d \in TagMap, NEW l \in TagMap
  PROVE  UntagResource(TagResource(l, TagsToAdd(d, l)), TagsToRemove(d, l)) = d
  <1> DEFINE s == UntagResource(TagResource(l, TagsToAdd(d, l)), TagsToRemove(d, l))
  <1>1. \A k \in Keys : s[k] = d[k]
    BY SyncEffect
  <1>2. s = [k \in Keys |-> s[k]] /\ d = [k \in Keys |-> d[k]]
    BY DEF UntagResource, TagMap
  <1> QED
    BY <1>1, <1>2

(* A PutMetricAlarm that the payload builder lets through.                 *)
LEMMA PutsEffect ==
  ASSUME NEW r \in Resource, PayloadError(r.config) = "none", Puts(r)
  PROVE  /\ Complete(alarm'.config)
         /\ alarm = None \/ alarm.tags = r.tags => alarm' = Target(r)
  <1>1. r.config \in AlarmSpec
    BY FieldTypes
  <1>2. alarm' = [config |-> WithDefaults(r.config),
                  tags   |-> IF alarm = None THEN r.tags ELSE alarm.tags]
    BY <1>1, PayloadIsFaithful DEF Puts
  <1> QED
    BY <1>1, <1>2, DefaultsEffect DEF Target

(* Replacing the tags leaves the fields.                                   *)
LEMMA RetagEffect ==
  ASSUME NEW a \in Resource, NEW t
  PROVE  [a EXCEPT !.tags = t].config = a.config /\ [a EXCEPT !.tags = t].tags = t
  BY DEF Resource

(* When neither the tags nor the fields differ, nothing is left to write.  *)
LEMMA NothingToUpdate ==
  ASSUME NEW a \in Resource, NEW d \in Resource, Complete(a.config),
         a.tags = d.tags, Delta(d.config, a.config) = {}
  PROVE  a = Target(d)
  <1>1. a.config \in AlarmSpec /\ d.config \in AlarmSpec
    BY FieldTypes
  <1>2. d.config = a.config
    BY <1>1, NoDelta
  <1>3. WithDefaults(d.config) = d.config
    BY <1>1, <1>2, DefaultsEffect
  <1> QED
    BY <1>2, <1>3 DEF Target, Resource

(* What is left to do at each of the three places of sdkUpdate, given how  *)
(* far the tags of the alarm have come.                                    *)
ReadyFor(next, a, d, l) ==
    /\ next = "tag"   => a.tags = l.tags
    /\ next = "untag" => a.tags = TagResource(l.tags, TagsToAdd(d.tags, l.tags))
    /\ next = "put"   => a.tags = d.tags
    /\ next = "patch" => a = Target(d)

LEMMA ReadyAfterTags ==
  ASSUME NEW a \in Resource, NEW d \in Resource, NEW l \in Resource,
         Complete(a.config), a.config = l.config, a.tags = d.tags
  PROVE  ReadyFor(AfterTags(d, l), a, d, l)
  BY NothingToUpdate DEF ReadyFor, AfterTags

LEMMA ReadyAfterAdd ==
  ASSUME NEW a \in Resource, NEW d \in Resource, NEW l \in Resource,
         Complete(a.config), a.config = l.config,
         a.tags = TagResource(l.tags, TagsToAdd(d.tags, l.tags))
  PROVE  ReadyFor(AfterAdd(d, l), a, d, l)
  <1>1. CASE TagsToRemove(d.tags, l.tags) # {}
    BY <1>1 DEF AfterAdd, ReadyFor
  <1>2. CASE TagsToRemove(d.tags, l.tags) = {}
    <2>1. a.tags = d.tags
      BY <1>2, FieldTypes, NothingToSync, BothTagCalls
    <2> QED
      BY <1>2, <2>1, ReadyAfterTags DEF AfterAdd
  <1> QED
    BY <1>1, <1>2

LEMMA ReadyAfterDelta ==
  ASSUME NEW a \in Resource, NEW d \in Resource, NEW l \in Resource,
         Complete(a.config), a.config = l.config, a.tags = l.tags
  PROVE  ReadyFor(AfterDelta(d, l), a, d, l)
  <1>1. CASE KeysOf(TagsToAdd(d.tags, l.tags)) # {}
    BY <1>1 DEF AfterDelta, ReadyFor
  <1>2. CASE KeysOf(TagsToAdd(d.tags, l.tags)) = {}
    <2>1. TagsToAdd(d.tags, l.tags) \in TagMap
      BY FieldTypes, TagMapsClosed
    <2>2. a.tags = TagResource(l.tags, TagsToAdd(d.tags, l.tags))
      BY <1>2, <2>1, FieldTypes, NothingToSync
    <2> QED
      BY <1>2, <2>2, ReadyAfterAdd DEF AfterDelta
  <1> QED
    BY <1>1, <1>2
-----------------------------------------------------------------------------
(* How far the alarm has come at each call, if only the worker wrote it:   *)
(* SuccessMeansApplied and TagsBeforeConfig are ReadyFor at "patch" and at *)
(* "put", the other conjuncts lead up to them.                             *)
AppliedInv ==
    /\ alarm # None => Complete(alarm.config)
    /\ ~interfered =>
        /\ pc \in {"manage", "create"} => alarm = None
        /\ pc \in {"listTags", "tag", "untag", "put"} =>
               alarm # None /\ alarm.config = latest.config
        /\ ReadyFor(pc, alarm, desired, latest)

LEMMA AppliedInit == Init => AppliedInv
  BY DEF Init, AppliedInv, ReadyFor

LEMMA AppliedEnvironment ==
  ASSUME TypeInv, AppliedInv, Environment PROVE AppliedInv'
  <1> USE DEF cr, aws, worker, history
  <1>1. ASSUME NEW s \in Specs, CreateCR(s) \/ EditSpec(s) PROVE AppliedInv'
    BY <1>1 DEF CreateCR, EditSpec, AppliedInv, ReadyFor
  <1>2. ASSUME DeleteCR PROVE AppliedInv'
    BY <1>2 DEF DeleteCR, AppliedInv, ReadyFor
  <1>3. ASSUME NEW a \in OutsideAlarms, OutsidePut(a) PROVE AppliedInv'
    BY <1>3, OutsideAlarmsAssumption DEF OutsidePut, AppliedInv, Complete
  <1>4. ASSUME OutsideDelete PROVE AppliedInv'
    BY <1>4 DEF OutsideDelete, Gone, AppliedInv
  <1>5. ASSUME Crash PROVE AppliedInv'
    BY <1>5 DEF Crash, AppliedInv, ReadyFor
  <1> QED
    BY <1>1, <1>2, <1>3, <1>4, <1>5 DEF Environment

(* A step that ends the worker's round needs only the first conjunct.      *)
LEMMA AppliedWhenIdle ==
  ASSUME pc' = "idle", alarm' # None => Complete(alarm'.config)
  PROVE  AppliedInv'
  BY DEF AppliedInv, ReadyFor

LEMMA AppliedWorker ==
  ASSUME TypeInv, TypeInv', AppliedInv, Worker PROVE AppliedInv'
  <1> USE DEF cr, aws, worker, history
  <1>0. /\ alarm \in Resource \cup {None} /\ None \notin Resource
        /\ alarm # None => Complete(alarm.config)
        /\ pc # "idle" => desired \in Resource
        /\ pc \in {"listTags", "tag", "untag", "put", "delete"} => latest \in Resource
    BY NoneAssumption DEF TypeInv, TypeOK, HandInv, AppliedInv
  <1>1. CASE Begin
    BY <1>0, <1>1 DEF Begin, AppliedInv, ReadyFor
  <1>2. CASE DescribeAlarms
    <2>1. CASE Failing /\ Finish("recoverable")
      BY <1>0, <1>2, <2>1, AppliedWhenIdle DEF DescribeAlarms, Finish
    <2>2. CASE alarm = None /\ Goto(IF path = "delete" THEN "unmanage" ELSE "manage")
      BY <1>2, <2>2 DEF DescribeAlarms, Goto, AppliedInv, ReadyFor
    <2>3. CASE /\ alarm # None /\ pc' = "listTags"
               /\ latest' = [config |-> alarm.config, tags |-> desired.tags]
      BY <1>0, <1>2, <2>3 DEF DescribeAlarms, AppliedInv, ReadyFor
    <2> QED
      BY <1>2, <2>1, <2>2, <2>3 DEF DescribeAlarms
  <1>3. CASE ListTagsForResource
    <2>1. CASE \E o \in {"recoverable", "unmanaged"} : Finish(o)
      BY <1>0, <1>3, <2>1, AppliedWhenIdle DEF ListTagsForResource, Finish
    <2>2. CASE /\ alarm # None
               /\ latest' = [latest EXCEPT !.tags = alarm.tags]
               /\ pc' = IF path = "delete" THEN "delete" ELSE AfterDelta(desired', latest')
      <3>1. /\ alarm \in Resource /\ latest \in Resource
            /\ alarm' = alarm /\ interfered' = interfered /\ pc = "listTags"
        BY <1>0, <1>3, <2>2 DEF ListTagsForResource
      <3>2. latest' \in Resource /\ latest'.config = latest.config /\ latest'.tags = alarm.tags
        BY <2>2, <3>1, FieldTypes, ResourceType, RetagEffect
      <3>3. desired' \in Resource
        <4>1. pc' # "idle"
          BY <2>2, NextCall
        <4> QED
          BY <4>1 DEF TypeInv, HandInv
      <3>4. CASE path = "delete"
        BY <1>0, <2>2, <3>1, <3>4 DEF AppliedInv, ReadyFor
      <3>5. CASE path # "delete" /\ ~interfered
        <4>1. alarm.config = latest'.config
          BY <3>1, <3>2, <3>5 DEF AppliedInv
        <4>2. ReadyFor(AfterDelta(desired', latest'), alarm, desired', latest')
          BY <1>0, <3>1, <3>2, <3>3, <4>1, ReadyAfterDelta
        <4> QED
          BY <1>0, <2>2, <3>1, <3>5, <4>1, <4>2, NextCall DEF AppliedInv
      <3>6. CASE interfered
        BY <1>0, <3>1, <3>6 DEF AppliedInv
      <3> QED
        BY <3>4, <3>5, <3>6
    <2> QED
      BY <1>3, <2>1, <2>2 DEF ListTagsForResource
  <1>4. CASE Manage
    BY <1>0, <1>4 DEF Manage, Finish, Goto, AppliedInv, ReadyFor
  <1>5. CASE Create
    <2>1. desired \in Resource /\ interfered' = interfered
      BY <1>0, <1>5 DEF Create
    <2>2. CASE CreateFails(PayloadError(desired.config)) /\ UNCHANGED alarm
      BY <1>0, <2>2, AppliedWhenIdle DEF CreateFails, Finish
    <2>3. CASE CreateFails("recoverable") /\ UNCHANGED alarm
      BY <1>0, <2>3, AppliedWhenIdle DEF CreateFails, Finish
    <2>4. CASE PayloadError(desired.config) = "none" /\ Puts(desired) /\ Goto("patch")
      <3>1. Complete(alarm'.config)
        BY <2>1, <2>4, PutsEffect
      <3>2. ~interfered => alarm' = Target(desired)
        BY <1>5, <2>1, <2>4, PutsEffect DEF Create, AppliedInv
      <3> QED
        BY <2>1, <2>4, <3>1, <3>2 DEF Goto, AppliedInv, ReadyFor
    <2>5. CASE PayloadError(desired.config) = "none" /\ Puts(desired) /\ CreateFails("recoverable")
      BY <2>1, <2>5, PutsEffect, AppliedWhenIdle DEF CreateFails, Finish
    <2> QED
      BY <1>5, <2>2, <2>3, <2>4, <2>5 DEF Create
  <1>6. CASE TagResourceCall
    <2> DEFINE add == TagsToAdd(desired.tags, latest.tags)
               a1  == [alarm EXCEPT !.tags = TagResource(@, add)]
    <2>1. /\ desired \in Resource /\ latest \in Resource
          /\ interfered' = interfered /\ pc = "tag"
      BY <1>0, <1>6 DEF TagResourceCall
    <2>2. alarm # None => a1 \in Resource /\ a1.config = alarm.config
                          /\ a1.tags = TagResource(alarm.tags, add)
      BY <1>0, <2>1, RetagType, RetagEffect
    <2>3. CASE Finish("recoverable") /\ UNCHANGED alarm
      BY <1>0, <2>3, AppliedWhenIdle DEF Finish
    <2>4. CASE Finish("recoverable") /\ alarm # None /\ alarm' = a1
      BY <1>0, <2>2, <2>4, AppliedWhenIdle DEF Finish
    <2>5. CASE alarm # None /\ alarm' = a1 /\ Goto(AfterAdd(desired, latest))
      <3>1. Complete(a1.config)
        BY <1>0, <2>2, <2>5
      <3>2. a1 \in Resource
        BY <2>2, <2>5
      <3>3. ~interfered => a1.config = latest.config
                           /\ a1.tags = TagResource(latest.tags, add)
        BY <2>1, <2>2, <2>5 DEF AppliedInv, ReadyFor
      <3>4. ~interfered => ReadyFor(AfterAdd(desired, latest), a1, desired, latest)
        BY <2>1, <3>1, <3>2, <3>3, ReadyAfterAdd
      <3> HIDE DEF a1
      <3> QED
        BY <1>0, <2>1, <2>5, <3>1, <3>2, <3>3, <3>4, NextCall DEF Goto, AppliedInv
    <2> QED
      BY <1>6, <2>3, <2>4, <2>5 DEF TagResourceCall
  <1>7. CASE UntagResourceCall
    <2> DEFINE remove == TagsToRemove(desired.tags, latest.tags)
               a1     == [alarm EXCEPT !.tags = UntagResource(@, remove)]
    <2>1. /\ desired \in Resource /\ latest \in Resource
          /\ interfered' = interfered /\ pc = "untag"
      BY <1>0, <1>7 DEF UntagResourceCall
    <2>2. alarm # None => a1 \in Resource /\ a1.config = alarm.config
                          /\ a1.tags = UntagResource(alarm.tags, remove)
      BY <1>0, <2>1, RetagType, RetagEffect
    <2>3. CASE Finish("recoverable") /\ UNCHANGED alarm
      BY <1>0, <2>3, AppliedWhenIdle DEF Finish
    <2>4. CASE Finish("recoverable") /\ alarm # None /\ alarm' = a1
      BY <1>0, <2>2, <2>4, AppliedWhenIdle DEF Finish
    <2>5. CASE alarm # None /\ alarm' = a1 /\ Goto(AfterTags(desired, latest))
      <3>1. Complete(a1.config)
        BY <1>0, <2>2, <2>5
      <3>2. a1 \in Resource
        BY <2>2, <2>5
      <3>3. ~interfered => a1.config = latest.config /\ a1.tags = desired.tags
        <4>1. desired.tags \in TagMap /\ latest.tags \in TagMap
          BY <2>1, FieldTypes
        <4> QED
          BY <2>1, <2>2, <2>5, <4>1, BothTagCalls DEF AppliedInv, ReadyFor
      <3>4. ~interfered => ReadyFor(AfterTags(desired, latest), a1, desired, latest)
        BY <2>1, <3>1, <3>2, <3>3, ReadyAfterTags
      <3> HIDE DEF a1
      <3> QED
        BY <1>0, <2>1, <2>5, <3>1, <3>2, <3>3, <3>4, NextCall DEF Goto, AppliedInv
    <2> QED
      BY <1>7, <2>3, <2>4, <2>5 DEF UntagResourceCall
  <1>8. CASE Update
    <2>1. desired \in Resource /\ interfered' = interfered /\ pc = "put"
      BY <1>0, <1>8 DEF Update
    <2>2. CASE Finish(PayloadError(desired.config)) /\ UNCHANGED alarm
      BY <1>0, <2>2, AppliedWhenIdle DEF Finish
    <2>3. CASE Finish("recoverable") /\ UNCHANGED alarm
      BY <1>0, <2>3, AppliedWhenIdle DEF Finish
    <2>4. CASE PayloadError(desired.config) = "none" /\ Puts(desired) /\ Goto("patch")
      <3>1. Complete(alarm'.config)
        BY <2>1, <2>4, PutsEffect
      <3>2. ~interfered => alarm' = Target(desired)
        BY <2>1, <2>4, PutsEffect DEF AppliedInv, ReadyFor
      <3> QED
        BY <2>1, <2>4, <3>1, <3>2 DEF Goto, AppliedInv, ReadyFor
    <2>5. CASE PayloadError(desired.config) = "none" /\ Puts(desired) /\ Finish("recoverable")
      BY <2>1, <2>5, PutsEffect, AppliedWhenIdle DEF Finish
    <2> QED
      BY <1>8, <2>2, <2>3, <2>4, <2>5 DEF Update
  <1>9. CASE PatchCR
    BY <1>0, <1>9, AppliedWhenIdle DEF PatchCR, Finish
  <1>10. CASE Delete
    BY <1>0, <1>10, AppliedWhenIdle DEF Delete, Gone, Finish, Goto, AppliedInv, ReadyFor
  <1>11. CASE Unmanage
    BY <1>0, <1>11, AppliedWhenIdle DEF Unmanage, Finish
  <1> QED
    BY <1>1, <1>2, <1>3, <1>4, <1>5, <1>6, <1>7, <1>8, <1>9, <1>10, <1>11 DEF Worker

LEMMA AppliedInvariant == Spec => []AppliedInv
  <1>1. TypeInv /\ TypeInv' /\ AppliedInv /\ [Next]_vars => AppliedInv'
    <2>1. AppliedInv /\ UNCHANGED vars => AppliedInv'
      BY DEF AppliedInv, ReadyFor, vars, cr, aws, worker, history
    <2> QED
      BY <2>1, AppliedEnvironment, AppliedWorker DEF Next
  <1> QED
    BY <1>1, AppliedInit, TypeInvariant, PTL DEF Spec

(* A reconciliation about to report success has put into CloudWatch the    *)
(* fields and tags it was asked for, truncating none, if others kept away. *)
THEOREM SuccessIsApplied == Spec => []SuccessMeansApplied
  <1>1. AppliedInv => SuccessMeansApplied
    BY DEF AppliedInv, ReadyFor, SuccessMeansApplied
  <1> QED
    BY <1>1, AppliedInvariant, PTL

(* The PutMetricAlarm of an update is sent to an alarm whose tags are done.*)
THEOREM TagsAreFirst == Spec => []TagsBeforeConfig
  <1>1. AppliedInv => TagsBeforeConfig
    BY DEF AppliedInv, ReadyFor, TagsBeforeConfig
  <1> QED
    BY <1>1, AppliedInvariant, PTL
-----------------------------------------------------------------------------
(* aws: tags.  NeverModifiesAwsTags is inductive: ReadOne establishes it   *)
(* and the worker keeps what it read until it is done.                     *)
LEMMA AwsTagsEnvironment ==
  ASSUME NeverModifiesAwsTags, Environment PROVE NeverModifiesAwsTags'
  BY DEF NeverModifiesAwsTags, Environment, CreateCR, EditSpec, DeleteCR,
         OutsidePut, OutsideDelete, Crash, cr, aws, worker, history

LEMMA AwsTagsWorker ==
  ASSUME TypeInv, NeverModifiesAwsTags, Worker PROVE NeverModifiesAwsTags'
  <1> USE DEF cr, aws, worker, history
  <1>1. ASSUME pc' \notin {"tag", "untag"} PROVE NeverModifiesAwsTags'
    BY <1>1 DEF NeverModifiesAwsTags
  <1>2. CASE ListTagsForResource
    <2>1. CASE \E o \in {"recoverable", "unmanaged"} : Finish(o)
      BY <1>1, <2>1 DEF Finish
    <2>2. CASE /\ alarm # None
               /\ latest' = [latest EXCEPT !.tags = alarm.tags]
               /\ desired' = [desired EXCEPT !.tags = MirrorAWSTags(@, alarm.tags)]
      <3>1. /\ alarm \in Resource /\ desired \in Resource /\ latest \in Resource
        BY <1>2, <2>2 DEF ListTagsForResource, TypeInv, TypeOK, HandInv
      <3>2. /\ latest'.tags = alarm.tags
            /\ desired'.tags = MirrorAWSTags(desired.tags, alarm.tags)
        BY <2>2, <3>1 DEF Resource
      <3>3. \A k \in AwsKeys : desired'.tags[k] # latest'.tags[k] =>
               latest'.tags[k] = Absent /\ desired'.tags[k] # Absent
        BY <3>1, <3>2, FieldTypes, MirrorEffect, AwsKeysAssumption
      <3> QED
        BY <3>3 DEF NeverModifiesAwsTags
    <2> QED
      BY <1>2, <2>1, <2>2 DEF ListTagsForResource
  <1>3. CASE TagResourceCall
    <2>1. pc' = "idle" \/ UNCHANGED <<desired, latest>>
      BY <1>3 DEF TagResourceCall, Finish, Goto
    <2> QED
      BY <1>1, <1>3, <2>1 DEF TagResourceCall, NeverModifiesAwsTags
  <1>4. CASE UntagResourceCall
    <2>1. AfterTags(desired, latest) \in {"put", "patch"}
      BY NextCall
    <2>2. pc' \in {"idle", "put", "patch"}
      BY <1>4, <2>1 DEF UntagResourceCall, Finish, Goto
    <2> QED
      BY <1>1, <2>2
  <1>5. CASE Begin \/ DescribeAlarms \/ Manage \/ Create
    BY <1>1, <1>5 DEF Begin, DescribeAlarms, Manage, Create, CreateFails, Finish, Goto
  <1>6. CASE Update \/ PatchCR \/ Delete \/ Unmanage
    BY <1>1, <1>6 DEF Update, PatchCR, Delete, Unmanage, Finish, Goto
  <1> QED
    BY <1>2, <1>3, <1>4, <1>5, <1>6 DEF Worker

(* No set of CR tags and default tags makes syncTags remove or overwrite a *)
(* tag that AWS put on the alarm.                                          *)
THEOREM AwsTagsAreLeft == Spec => []NeverModifiesAwsTags
  <1>1. Init => NeverModifiesAwsTags
    BY DEF Init, NeverModifiesAwsTags
  <1>2. TypeInv /\ NeverModifiesAwsTags /\ [Next]_vars => NeverModifiesAwsTags'
    <2>1. NeverModifiesAwsTags /\ UNCHANGED vars => NeverModifiesAwsTags'
      BY DEF NeverModifiesAwsTags, vars, worker
    <2> QED
      BY <2>1, AwsTagsEnvironment, AwsTagsWorker DEF Next
  <1> QED
    BY <1>1, <1>2, TypeInvariant, PTL DEF Spec

-----------------------------------------------------------------------------
(* The CR's spec.  What the worker holds is, until the user edits the CR,  *)
(* the spec of the CR but for system tags.                                 *)
CopyInv ==
    pc # "idle" /\ ~edited =>
        /\ desired.config = spec.config
        /\ \A k \in Keys \ (AwsKeys \cup SystemTags) : desired.tags[k] = spec.tags[k]

LEMMA CopyEnvironment ==
  ASSUME CopyInv, Environment PROVE CopyInv'
  BY DEF CopyInv, Environment, CreateCR, EditSpec, DeleteCR, OutsidePut,
         OutsideDelete, Crash, cr, aws, worker, history, SystemTags

LEMMA CopyWorker ==
  ASSUME TypeInv, CopyInv, Worker PROVE CopyInv'
  <1> USE DEF cr, aws, worker, history, SystemTags
  <1>1. ASSUME pc' = "idle" PROVE CopyInv'
    BY <1>1 DEF CopyInv
  <1>2. ASSUME pc # "idle", UNCHANGED <<desired, spec, edited>> PROVE CopyInv'
    BY <1>2 DEF CopyInv
  <1>3. CASE Begin
    <2>1. spec \in Resource /\ DefaultTags \in TagMap
      BY DefaultTagsAssumption DEF TypeInv, TypeOK
    <2>2. CASE crState = "deleting"
      BY <1>3, <2>2 DEF Begin, CopyInv
    <2>3. CASE crState # "deleting"
      <3>1. desired' = [spec EXCEPT !.tags = EnsureTags(@, DefaultTags)]
        BY <1>3, <2>3 DEF Begin
      <3>2. /\ desired'.config = spec.config
            /\ desired'.tags = EnsureTags(spec.tags, DefaultTags)
        BY <2>1, <3>1 DEF Resource
      <3>3. \A k \in Keys \ SystemTags : desired'.tags[k] = spec.tags[k]
        BY <2>1, <3>2, FieldTypes, UserTagsWin DEF KeysOf
      <3> QED
        BY <1>3, <3>2, <3>3 DEF Begin, CopyInv
    <2> QED
      BY <2>2, <2>3
  <1>4. CASE ListTagsForResource
    <2>1. CASE \E o \in {"recoverable", "unmanaged"} : Finish(o)
      BY <1>1, <2>1 DEF Finish
    <2>2. CASE alarm # None /\ desired' = [desired EXCEPT !.tags = MirrorAWSTags(@, alarm.tags)]
      <3>1. /\ alarm \in Resource /\ desired \in Resource
            /\ pc = "listTags" /\ UNCHANGED <<spec, edited>>
        BY <1>4, <2>2 DEF ListTagsForResource, TypeInv, TypeOK, HandInv
      <3>2. /\ desired'.config = desired.config
            /\ desired'.tags = MirrorAWSTags(desired.tags, alarm.tags)
        BY <2>2, <3>1 DEF Resource
      <3>3. \A k \in Keys \ AwsKeys : desired'.tags[k] = desired.tags[k]
        BY <3>1, <3>2, FieldTypes, MirrorEffect
      <3> QED
        BY <3>1, <3>2, <3>3 DEF CopyInv
    <2> QED
      BY <1>4, <2>1, <2>2 DEF ListTagsForResource
  <1>5. CASE DescribeAlarms \/ Manage \/ Create
    <2>1. pc # "idle" /\ UNCHANGED <<spec, edited>> /\ (pc' = "idle" \/ UNCHANGED desired)
      BY <1>5 DEF DescribeAlarms, Manage, Create, CreateFails, Finish, Goto
    <2> QED
      BY <1>1, <1>2, <2>1
  <1>6. CASE TagResourceCall \/ UntagResourceCall \/ Update \/ Delete \/ Unmanage
    <2>1. pc # "idle" /\ UNCHANGED <<spec, edited>> /\ (pc' = "idle" \/ UNCHANGED desired)
      BY <1>6 DEF TagResourceCall, UntagResourceCall, Update, Delete, Unmanage, Finish, Goto
    <2> QED
      BY <1>1, <1>2, <2>1
  <1>7. CASE PatchCR
    BY <1>1, <1>7 DEF PatchCR, Finish
  <1> QED
    BY <1>3, <1>4, <1>5, <1>6, <1>7 DEF Worker

LEMMA CopyInvariant == Spec => []CopyInv
  <1>1. Init => CopyInv
    BY DEF Init, CopyInv
  <1>2. TypeInv /\ CopyInv /\ [Next]_vars => CopyInv'
    <2>1. CopyInv /\ UNCHANGED vars => CopyInv'
      BY DEF CopyInv, vars, cr, worker, history, SystemTags
    <2> QED
      BY <2>1, CopyEnvironment, CopyWorker DEF Next
  <1> QED
    BY <1>1, <1>2, TypeInvariant, PTL DEF Spec

(* How a round that ends may give the CR up with a terminal error: only if *)
(* that is the error, and the CR is as the worker read it.                 *)
LEMMA TerminalEnd ==
  ASSUME TypeInv, NEW o, Finish(o), halted', outcome' = "terminal"
  PROVE  o = "terminal" /\ ~edited
  <1>1. ~Changed
    BY FinishHalts
  <1>2. crState # "absent" /\ ~edited
    BY <1>1 DEF Changed, TypeInv, TypeOK
  <1> QED
    BY <1>2 DEF Finish

LEMMA TerminalWorker ==
  ASSUME TypeInv, CopyInv, TerminalIsCurrent, Worker PROVE TerminalIsCurrent'
  <1> USE DEF cr, aws, worker, history
  <1>1. ASSUME UNCHANGED <<spec, outcome, halted>> PROVE TerminalIsCurrent'
    BY <1>1 DEF TerminalIsCurrent
  <1>2. ASSUME NEW o \in {"synced", "recoverable", "unmanaged"}, Finish(o)
        PROVE  TerminalIsCurrent'
    BY <1>2, TerminalEnd DEF TerminalIsCurrent
  <1>3. ASSUME Finish(PayloadError(desired.config)), pc # "idle", UNCHANGED spec
        PROVE  TerminalIsCurrent'
    <2> SUFFICES ASSUME halted', outcome' = "terminal"
                 PROVE  PayloadError(spec'.config) = "terminal"
      BY DEF TerminalIsCurrent
    <2>1. PayloadError(desired.config) = "terminal" /\ ~edited
      BY <1>3, TerminalEnd
    <2>2. desired.config = spec.config
      BY <1>3, <2>1 DEF CopyInv
    <2> QED
      BY <1>3, <2>1, <2>2
  <1>4. CASE Begin \/ DescribeAlarms
    BY <1>1, <1>2, <1>4 DEF Begin, DescribeAlarms, Goto
  <1>5. CASE ListTagsForResource
    BY <1>1, <1>2, <1>5 DEF ListTagsForResource
  <1>6. CASE Manage \/ TagResourceCall \/ UntagResourceCall
    BY <1>1, <1>2, <1>6 DEF Manage, TagResourceCall, UntagResourceCall, Goto
  <1>7. CASE Create
    <2>1. pc = "create" /\ UNCHANGED spec
      BY <1>7 DEF Create
    <2>2. \/ Goto("patch") \/ Finish("recoverable") \/ Finish(PayloadError(desired.config))
      BY <1>7 DEF Create, CreateFails
    <2> QED
      BY <1>1, <1>2, <1>3, <2>1, <2>2 DEF Goto
  <1>8. CASE Update
    <2>1. pc = "put" /\ UNCHANGED spec
      BY <1>8 DEF Update
    <2>2. \/ Goto("patch") \/ Finish("recoverable") \/ Finish(PayloadError(desired.config))
      BY <1>8 DEF Update
    <2> QED
      BY <1>1, <1>2, <1>3, <2>1, <2>2 DEF Goto
  <1>9. CASE PatchCR
    BY <1>2, <1>9 DEF PatchCR
  <1>10. CASE Delete \/ Unmanage
    BY <1>1, <1>2, <1>10 DEF Delete, Unmanage, Goto
  <1> QED
    BY <1>4, <1>5, <1>6, <1>7, <1>8, <1>9, <1>10 DEF Worker

(* The controller never leaves alone, with a terminal error, an alarm CR   *)
(* whose spec has been corrected, whenever the correction comes.           *)
THEOREM TerminalSpecsAreCurrent == Spec => []TerminalIsCurrent
  <1>1. Init => TerminalIsCurrent
    BY DEF Init, TerminalIsCurrent
  <1>2. TypeInv /\ CopyInv /\ TerminalIsCurrent /\ [Next]_vars => TerminalIsCurrent'
    <2>1. TerminalIsCurrent /\ UNCHANGED vars => TerminalIsCurrent'
      BY DEF TerminalIsCurrent, vars, cr
    <2>2. TerminalIsCurrent /\ Environment => TerminalIsCurrent'
      BY DEF TerminalIsCurrent, Environment, CreateCR, EditSpec, DeleteCR, OutsidePut,
             OutsideDelete, Crash, cr
    <2> QED
      BY <2>1, <2>2, TerminalWorker DEF Next
  <1> QED
    BY <1>1, <1>2, TypeInvariant, CopyInvariant, PTL DEF Spec

(* What a step of the worker may do to the spec of the CR.                 *)
SpecStep ==
    Worker => /\ spec'.config = spec.config
              /\ \A k \in Keys : spec'.tags[k] # spec.tags[k] =>
                    spec'.tags[k] = Absent /\ k \in AwsKeys \cup SystemTags

LEMMA SpecStepHolds ==
  ASSUME TypeInv, CopyInv PROVE SpecStep
  <1> SUFFICES ASSUME Worker, spec' # spec
               PROVE  /\ spec'.config = spec.config
                      /\ \A k \in Keys : spec'.tags[k] # spec.tags[k] =>
                            spec'.tags[k] = Absent /\ k \in AwsKeys \cup SystemTags
    BY DEF SpecStep
  <1>1. PatchCR
    BY DEF Worker, Begin, DescribeAlarms, ListTagsForResource, Manage, Create,
           TagResourceCall, UntagResourceCall, Update, Delete, Unmanage, cr
  <1>2. /\ pc = "patch" /\ ~edited
        /\ spec' = [desired EXCEPT !.tags = FilterSystemTags(@, SystemTags)]
    BY <1>1 DEF PatchCR, LateInitialize
  <1>3. desired \in Resource
    BY <1>2 DEF TypeInv, HandInv
  <1>4. /\ spec'.config = desired.config
        /\ spec'.tags = FilterSystemTags(desired.tags, SystemTags)
    BY <1>2, <1>3 DEF Resource
  <1>5. \A k \in Keys : spec'.tags[k] =
           IF k \in AwsKeys \cup SystemTags THEN Absent ELSE desired.tags[k]
    BY <1>4 DEF FilterSystemTags, IgnoreSystemTags
  <1> QED
    BY <1>2, <1>4, <1>5 DEF CopyInv

(* The controller never overwrites the intent of the CR's user: it takes   *)
(* system tags out of the spec and does nothing else to it.                *)
THEOREM SpecIsTheUsers == Spec => SpecStaysUsers
  <1>1. TypeInv /\ CopyInv /\ [Next]_vars => [SpecStep]_vars
    BY SpecStepHolds
  <1> QED
    BY <1>1, TypeInvariant, CopyInvariant, PTL DEF Spec, SpecStaysUsers, SpecStep

-----------------------------------------------------------------------------
(* Rejected specs.                                                         *)
RejectedStep ==
    Worker /\ desired # None /\ path = "sync" /\ PayloadError(desired.config) # "none"
    => /\ alarm' = None <=> alarm = None
       /\ alarm # None => alarm'.config = alarm.config

LEMMA RejectedStepHolds ==
  ASSUME TypeInv, OwnInv PROVE RejectedStep
  <1> SUFFICES ASSUME Worker, desired # None, path = "sync", alarm' # alarm,
                      PayloadError(desired.config) # "none"
               PROVE  /\ alarm' = None <=> alarm = None
                      /\ alarm # None => alarm'.config = alarm.config
    BY DEF RejectedStep
  <1>1. TagResourceCall \/ UntagResourceCall \/ Delete
    BY DEF Worker, Begin, DescribeAlarms, ListTagsForResource, Manage, Create,
           Update, PatchCR, Unmanage, aws
  <1>2. ~Delete
    BY DEF Delete, OwnInv
  <1>3. /\ alarm \in Resource /\ None \notin Resource
        /\ desired \in Resource /\ latest \in Resource
    BY <1>1, <1>2, NoneAssumption
    DEF TagResourceCall, UntagResourceCall, TypeInv, TypeOK, HandInv
  <1>4. \/ alarm' = [alarm EXCEPT !.tags = TagResource(@, TagsToAdd(desired.tags, latest.tags))]
        \/ alarm' = [alarm EXCEPT !.tags = UntagResource(@, TagsToRemove(desired.tags, latest.tags))]
    BY <1>1, <1>2 DEF TagResourceCall, UntagResourceCall
  <1>5. alarm' \in Resource /\ alarm'.config = alarm.config
    BY <1>3, <1>4, RetagType DEF Resource
  <1> QED
    BY <1>3, <1>5

(* A spec with an integer out of range or both members of a union neither  *)
(* makes, nor unmakes, nor changes an alarm, at whatever call it is.       *)
THEOREM RejectedSpecsAreInert == Spec => InvalidSpecKeepsConfig
  <1>1. TypeInv /\ OwnInv /\ [Next]_vars => [RejectedStep]_vars
    BY RejectedStepHolds
  <1> QED
    BY <1>1, TypeInvariant, OwnInvariant, PTL DEF Spec, InvalidSpecKeepsConfig, RejectedStep

-----------------------------------------------------------------------------
(* As long as nobody edits the CR, the tags that the worker holds are the  *)
(* CR's and the default ones, those of the service apart.                  *)
TagsInv ==
    pc # "idle" /\ path = "sync" /\ ~edited =>
        \A k \in Keys \ AwsKeys : desired.tags[k] = WantedTags[k]

(* What the two reads leave of the worker's copy.                          *)
LEMMA ReadsKeep ==
  ASSUME TypeInv, DescribeAlarms \/ ListTagsForResource, pc' # "idle"
  PROVE  /\ pc # "idle" /\ UNCHANGED <<cr, aws, path, edited>>
         /\ desired'.config = desired.config
         /\ \A k \in Keys \ AwsKeys : desired'.tags[k] = desired.tags[k]
  <1>1. CASE DescribeAlarms
    BY <1>1 DEF DescribeAlarms, Goto, Finish, history
  <1>2. CASE ListTagsForResource
    <2>1. /\ pc = "listTags" /\ alarm \in Resource /\ desired \in Resource
          /\ desired' = [desired EXCEPT !.tags = MirrorAWSTags(desired.tags, alarm.tags)]
          /\ UNCHANGED <<cr, aws, path, edited>>
      BY <1>2 DEF ListTagsForResource, Finish, TypeInv, TypeOK, HandInv
    <2>2. /\ desired'.config = desired.config
          /\ desired'.tags = MirrorAWSTags(desired.tags, alarm.tags)
      BY <2>1 DEF Resource
    <2> QED
      BY <2>1, <2>2, FieldTypes, MirrorEffect
  <1> QED
    BY <1>1, <1>2

LEMMA TagsNext == TypeInv /\ TagsInv /\ [Next]_vars => TagsInv'
  <1> SUFFICES ASSUME TypeInv, TagsInv, [Next]_vars PROVE TagsInv'
    OBVIOUS
  <1> USE DEF WantedTags
  <1>1. CASE Environment
    BY <1>1 DEF Environment, CreateCR, EditSpec, DeleteCR, OutsidePut, OutsideDelete, Crash,
                cr, worker, history, TagsInv
  <1>2. CASE Begin
    <2>1. CASE crState = "deleting"
      BY <1>2, <2>1 DEF Begin, TagsInv
    <2>2. CASE crState # "deleting"
      <3>1. spec \in Resource /\ spec' = spec
            /\ desired' = [spec EXCEPT !.tags = EnsureTags(@, DefaultTags)]
        BY <1>2, <2>2 DEF Begin, cr, TypeInv, TypeOK
      <3>2. desired'.tags = EnsureTags(spec.tags, DefaultTags)
        BY <3>1 DEF Resource
      <3> QED
        BY <3>1, <3>2 DEF TagsInv
    <2> QED
      BY <2>1, <2>2
  <1>3. CASE DescribeAlarms \/ ListTagsForResource
    BY <1>3, ReadsKeep DEF cr, TagsInv
  <1>4. CASE \/ Manage \/ Create \/ TagResourceCall \/ UntagResourceCall \/ Update
             \/ PatchCR \/ Delete \/ Unmanage
    <2>1. /\ pc # "idle" /\ UNCHANGED edited
          /\ pc' = "idle" \/ UNCHANGED <<spec, path, desired>>
      BY <1>4 DEF Manage, Create, CreateFails, TagResourceCall, UntagResourceCall, Update,
                  PatchCR, Delete, Unmanage, Finish, Goto, cr, history
    <2> QED
      BY <2>1 DEF TagsInv
  <1>5. CASE UNCHANGED vars
    BY <1>5 DEF vars, cr, worker, history, TagsInv
  <1> QED
    BY <1>1, <1>2, <1>3, <1>4, <1>5 DEF Next, Worker

(* The patch takes out of a spec without overrides only what is added or   *)
(* ignored anyway.                                                         *)
LEMMA SpecStepKeepsWanted ==
  ASSUME TypeInv, TypeInv', CopyInv, Worker, NoOverrides
  PROVE  /\ NoOverrides' /\ spec'.config = spec.config
         /\ \A k \in Keys \ AwsKeys : WantedTags'[k] = WantedTags[k]
  <1>1. /\ spec'.config = spec.config
        /\ \A k \in Keys : spec'.tags[k] # spec.tags[k] =>
              spec'.tags[k] = Absent /\ k \in AwsKeys \cup SystemTags
    BY SpecStepHolds DEF SpecStep
  <1>2. spec.tags \in TagMap /\ spec'.tags \in TagMap /\ DefaultTags \in TagMap
    BY FieldTypes, DefaultTagsAssumption DEF TypeInv, TypeOK
  <1>3. /\ \A k \in Keys : WantedTags[k] = IF spec.tags[k] # Absent THEN spec.tags[k]
                                           ELSE DefaultTags[k]
        /\ \A k \in Keys : WantedTags'[k] = IF spec'.tags[k] # Absent THEN spec'.tags[k]
                                            ELSE DefaultTags[k]
    BY <1>2, UserTagsWin DEF WantedTags
  <1>4. NoOverrides'
    BY <1>1 DEF NoOverrides, SystemTags, KeysOf
  <1>5. ASSUME NEW k \in Keys \ AwsKeys PROVE WantedTags'[k] = WantedTags[k]
    <2>1. CASE spec'.tags[k] = spec.tags[k]
      BY <1>3, <2>1
    <2>2. CASE spec'.tags[k] # spec.tags[k]
      BY <1>1, <1>3, <2>2 DEF NoOverrides
    <2> QED
      BY <2>1, <2>2
  <1> QED
    BY <1>1, <1>4, <1>5

LEMMA SettledByRound ==
  ASSUME TypeInv, TypeInv', OwnInv, CopyInv, TagsInv, SuccessMeansApplied,
         PatchCR, crState = "live", NoOverrides, ~edited, ~interfered
  PROVE  Settled'
  <1>1. /\ pc = "patch" /\ path = "sync" /\ finalizer /\ pc' = "idle"
        /\ UNCHANGED <<crState, finalizer, alarm>>
    BY DEF PatchCR, Finish, OwnInv, TypeInv, TypeOK, aws
  <1>2. /\ desired.config = spec.config
        /\ \A k \in Keys \ AwsKeys : desired.tags[k] = WantedTags[k]
    BY <1>1 DEF CopyInv, TagsInv
  <1>3. alarm # None /\ alarm = Target(desired)
    <2>1. alarm = Target(desired) /\ desired \in Resource
      BY <1>1 DEF SuccessMeansApplied, TypeInv, HandInv
    <2>2. WithDefaults(desired.config) \in AlarmSpec
      BY <2>1, FieldTypes, DefaultsType
    <2>3. Target(desired) \in Resource
      BY <2>1, <2>2, FieldTypes DEF Target, Resource
    <2> QED
      BY <2>1, <2>3, NoneAssumption
  <1>4. alarm.config = WithDefaults(spec.config) /\ alarm.tags = desired.tags
    BY <1>2, <1>3 DEF Target
  <1>5. Worker
    BY DEF Worker
  <1> QED
    BY <1>1, <1>2, <1>3, <1>4, <1>5, SpecStepKeepsWanted DEF Settled

(* The tag calls on an alarm that has the tags desired, aws: ones apart:   *)
(* whatever was read, what goes through changes nothing.                   *)
LEMMA TagCallsIdle ==
  ASSUME NEW a \in TagMap, NEW d \in TagMap, NEW l \in TagMap,
         \A k \in Keys \ AwsKeys : a[k] = d[k]
  PROVE  /\ KeysOf(TagsToAdd(d, l)) \cap AwsKeys = {} =>
               TagResource(a, TagsToAdd(d, l)) = a
         /\ TagsToRemove(d, l) \cap AwsKeys = {} =>
               UntagResource(a, TagsToRemove(d, l)) = a
  BY DEF TagMap, KeysOf, TagsToAdd, TagsToRemove, TagResource, UntagResource, Merge

LEMMA SettledByWorker ==
  ASSUME TypeInv, TypeInv', OwnInv, CopyInv, Worker, Settled
  PROVE  Settled' /\ UNCHANGED aws
  <1>1. /\ NoOverrides' /\ spec'.config = spec.config
        /\ \A k \in Keys \ AwsKeys : WantedTags'[k] = WantedTags[k]
    BY SpecStepKeepsWanted DEF Settled
  <1>2. /\ alarm \in Resource /\ ours \in BOOLEAN
        /\ pc # "idle" => desired \in Resource
        /\ pc \in {"tag", "untag"} => latest \in Resource
    BY DEF TypeInv, TypeOK, HandInv, Settled
  <1>3. ASSUME UNCHANGED <<crState, finalizer, aws>>,
               \/ pc' = "idle"
               \/ /\ pc # "idle" /\ UNCHANGED path
                  /\ pc' \in {"describe", "listTags", "tag", "untag", "put", "patch"}
                  /\ desired'.config = desired.config
                  /\ \A k \in Keys \ AwsKeys : desired'.tags[k] = desired.tags[k]
        PROVE  Settled' /\ UNCHANGED aws
    BY <1>1, <1>3 DEF Settled, aws
  <1>4. CASE Begin
    <2>1. /\ desired' = [spec EXCEPT !.tags = EnsureTags(@, DefaultTags)]
          /\ pc' = "describe" /\ path' = "sync" /\ spec \in Resource
          /\ UNCHANGED <<cr, aws>>
      BY <1>4 DEF Begin, Settled, TypeInv, TypeOK
    <2>2. desired'.config = spec.config /\ desired'.tags = WantedTags
      BY <2>1 DEF Resource, WantedTags
    <2> QED
      BY <1>1, <2>1, <2>2 DEF Settled, cr, aws
  <1>5. CASE DescribeAlarms \/ ListTagsForResource
    <2>1. UNCHANGED <<cr, aws>>
      BY <1>5 DEF DescribeAlarms, ListTagsForResource
    <2>2. pc' \in {"idle", "describe", "listTags", "tag", "untag", "put", "patch"}
      BY <1>5, NextCall DEF DescribeAlarms, ListTagsForResource, Finish, Settled
    <2> QED
      BY <1>3, <1>5, <2>1, <2>2, ReadsKeep DEF cr
  <1>6. CASE TagResourceCall \/ UntagResourceCall
    <2>1. UNCHANGED <<cr, ours>> /\ alarm # None /\ pc \in {"tag", "untag"}
      BY <1>6 DEF TagResourceCall, UntagResourceCall, Settled
    <2>2. \/ pc' = "idle"
          \/ pc' \in {"untag", "put", "patch"} /\ UNCHANGED <<path, desired>>
      BY <1>6, NextCall DEF TagResourceCall, UntagResourceCall, Finish, Goto
    <2>3. alarm.tags \in TagMap /\ desired.tags \in TagMap /\ latest.tags \in TagMap
      BY <1>2, <2>1, FieldTypes
    <2>4. \A k \in Keys \ AwsKeys : alarm.tags[k] = desired.tags[k]
      BY <2>1 DEF Settled
    <2>5. alarm' = alarm
      <3> DEFINE add == TagsToAdd(desired.tags, latest.tags)
                 remove == TagsToRemove(desired.tags, latest.tags)
      <3>1. \/ alarm' = alarm
            \/ /\ KeysOf(add) \cap AwsKeys = {}
               /\ alarm' = [alarm EXCEPT !.tags = TagResource(@, add)]
            \/ /\ remove \cap AwsKeys = {}
               /\ alarm' = [alarm EXCEPT !.tags = UntagResource(@, remove)]
        BY <1>6 DEF TagResourceCall, UntagResourceCall
      <3>2. alarm' = alarm \/ alarm' = [alarm EXCEPT !.tags = alarm.tags]
        BY <2>3, <2>4, <3>1, TagCallsIdle
      <3> QED
        BY <1>2, <3>2 DEF Resource
    <2> QED
      BY <1>3, <2>1, <2>2, <2>5 DEF cr, aws
  <1>7. CASE Update
    <2>1. UNCHANGED cr /\ alarm # None /\ pc = "put"
      BY <1>7 DEF Update, Settled
    <2>2. pc' = "idle" \/ (pc' = "patch" /\ UNCHANGED <<path, desired>>)
      BY <1>7 DEF Update, Finish, Goto
    <2>3. \/ UNCHANGED aws
          \/ /\ PayloadError(desired.config) = "none" /\ Puts(desired)
             /\ ours' = (ours \/ alarm = None)
      BY <1>7 DEF Update
    <2>4. UNCHANGED aws
      <3> SUFFICES ASSUME PayloadError(desired.config) = "none", Puts(desired),
                          ours' = (ours \/ alarm = None)
                   PROVE  UNCHANGED aws
        BY <2>3
      <3>1. alarm' = [config |-> WithDefaults(desired.config), tags |-> alarm.tags]
        BY <1>2, <2>1, PayloadIsFaithful, FieldTypes DEF Puts
      <3>2. desired.config = spec.config /\ alarm.config = WithDefaults(spec.config)
        BY <2>1 DEF Settled
      <3>3. alarm' = alarm
        BY <1>2, <3>1, <3>2 DEF Resource
      <3> QED
        BY <1>2, <2>1, <3>3 DEF aws
    <2> QED
      BY <1>3, <2>1, <2>2, <2>4 DEF cr
  <1>8. CASE PatchCR
    BY <1>3, <1>8 DEF PatchCR, Finish
  <1>9. CASE Manage \/ Create \/ Delete \/ Unmanage
    BY <1>9 DEF Manage, Create, Delete, Unmanage, Settled
  <1> QED
    BY <1>4, <1>5, <1>6, <1>7, <1>8, <1>9 DEF Worker

(* The safety half of EventuallyConverges: nothing that the worker itself  *)
(* does ends what a round without disturbance achieved.                    *)
THEOREM AlarmStaysSettled == Spec => StaysSettled
  <1>1. Init => TagsInv
    BY DEF Init, TagsInv
  <1>2. TypeInv /\ TypeInv' /\ OwnInv /\ CopyInv /\ TagsInv /\ SuccessMeansApplied
          /\ [Next]_vars =>
          [/\ PatchCR /\ crState = "live" /\ NoOverrides /\ ~edited /\ ~interfered => Settled'
           /\ Worker /\ Settled => Settled' /\ UNCHANGED aws]_vars
    BY SettledByRound, SettledByWorker
  <1> QED
    BY <1>1, <1>2, TagsNext, TypeInvariant, OwnInvariant, CopyInvariant, SuccessIsApplied, PTL
    DEF Spec, StaysSettled

-----------------------------------------------------------------------------
(* MetricAlarm implements ManagedResource.  What the worker holds at each  *)
(* call, and that all there is in CloudWatch could have been asked for: an *)
(* alarm like the desired one never comes with a spec that is rejected.    *)
Storable(c) == Complete(c) /\ PayloadError(c) = "none"

RoundInv ==
    /\ pc = "idle" => desired = None
    /\ pc \in {"idle", "describe", "manage", "create"} => latest = None
    /\ alarm # None => Storable(alarm.config)
    /\ latest # None => Storable(latest.config)

LEMMA StoredIsStorable ==
  ASSUME NEW s \in AlarmSpec, PayloadError(s) = "none"
  PROVE  WithDefaults(RequestPayload(s)) = WithDefaults(s) /\ Storable(WithDefaults(s))
  <1>1. WithDefaults(RequestPayload(s)) = WithDefaults(s)
    BY PayloadIsFaithful
  <1>2. /\ WithDefaults(s).DatapointsToAlarm = s.DatapointsToAlarm
        /\ WithDefaults(s).EvaluationWindow = WindowSent(s.EvaluationWindow)
        /\ WithDefaults(s).Period = s.Period
    BY DEF WithDefaults, AlarmSpec
  <1>3. WindowSent(s.EvaluationWindow) = Windows <=> s.EvaluationWindow = Windows
    BY NilIsNoWindow DEF WindowSent, Windows
  <1>4. PayloadError(WithDefaults(s)) = PayloadError(s)
    BY <1>2, <1>3 DEF PayloadError
  <1> QED
    BY <1>1, <1>4, DefaultsEffect DEF Storable

LEMMA PutsStorable ==
  ASSUME NEW r \in Resource, PayloadError(r.config) = "none", Puts(r)
  PROVE  alarm'.config = WithDefaults(r.config) /\ Storable(alarm'.config)
  BY FieldTypes, StoredIsStorable DEF Puts

LEMMA RetagsKeep ==
  ASSUME TypeInv, TagResourceCall \/ UntagResourceCall
  PROVE  (alarm' = None <=> alarm = None) /\ (alarm # None => alarm'.config = alarm.config)
  <1>1. /\ alarm \in Resource \cup {None} /\ None \notin Resource
        /\ desired \in Resource /\ latest \in Resource
    BY NoneAssumption DEF TagResourceCall, UntagResourceCall, TypeInv, TypeOK, HandInv
  <1>2. \/ alarm' = alarm
        \/ alarm # None /\ alarm' = [alarm EXCEPT !.tags = TagResource(@, TagsToAdd(desired.tags, latest.tags))]
        \/ alarm # None /\ alarm' = [alarm EXCEPT !.tags = UntagResource(@, TagsToRemove(desired.tags, latest.tags))]
    BY DEF TagResourceCall, UntagResourceCall
  <1>3. CASE alarm' = alarm
    BY <1>3
  <1>4. CASE alarm # None /\ alarm' # alarm
    <2>1. alarm' \in Resource /\ alarm'.config = alarm.config
      BY <1>1, <1>2, <1>4, RetagType DEF Resource
    <2> QED
      BY <1>1, <1>4, <2>1
  <1> QED
    BY <1>2, <1>3, <1>4

LEMMA RoundNext ==
  ASSUME TypeInv, TypeInv', RoundInv, [Next]_vars PROVE RoundInv'
  <1> USE DEF cr, aws, worker, history
  <1>0. /\ alarm \in Resource \cup {None} /\ None \notin Resource
        /\ pc # "idle" => desired \in Resource
    BY NoneAssumption DEF TypeInv, TypeOK, HandInv
  <1>1. CASE Environment
    BY <1>1, OutsideAlarmsAssumption
       DEF Environment, CreateCR, EditSpec, DeleteCR, OutsidePut, OutsideDelete, Gone, Crash,
           RoundInv, Storable, Complete
  <1>2. CASE Begin
    BY <1>2 DEF Begin, RoundInv
  <1>3. CASE DescribeAlarms
    <2>1. latest' \in {latest, None} \/ (alarm # None /\ latest'.config = alarm.config)
      BY <1>3 DEF DescribeAlarms, Goto, Finish
    <2> QED
      BY <1>3, <2>1 DEF DescribeAlarms, Goto, Finish, RoundInv
  <1>4. CASE ListTagsForResource
    <2>1. CASE \E o \in {"recoverable", "unmanaged"} : Finish(o)
      BY <1>4, <2>1 DEF ListTagsForResource, Finish, RoundInv
    <2>2. CASE /\ latest' = [latest EXCEPT !.tags = alarm.tags]
               /\ pc' = IF path = "delete" THEN "delete" ELSE AfterDelta(desired', latest')
      <3>1. latest \in Resource /\ alarm' = alarm
        BY <1>4 DEF ListTagsForResource, TypeInv, HandInv
      <3>2. latest'.config = latest.config
        BY <2>2, <3>1 DEF Resource
      <3>3. pc' \in {"delete", "tag", "untag", "put", "patch"}
        BY <2>2, NextCall
      <3> QED
        BY <1>0, <3>1, <3>2, <3>3 DEF RoundInv
    <2> QED
      BY <1>4, <2>1, <2>2 DEF ListTagsForResource
  <1>5. CASE Manage
    BY <1>5 DEF Manage, Goto, Finish, RoundInv
  <1>6. CASE Create
    <2>1. alarm' = alarm \/ (PayloadError(desired.config) = "none" /\ Puts(desired))
      BY <1>6 DEF Create
    <2>2. alarm' # None => Storable(alarm'.config)
      BY <1>0, <1>6, <2>1, PutsStorable DEF Create, RoundInv
    <2> QED
      BY <1>6, <2>2 DEF Create, CreateFails, Finish, Goto, RoundInv
  <1>7. CASE TagResourceCall \/ UntagResourceCall
    <2>1. alarm' # None => Storable(alarm'.config)
      BY <1>7, RetagsKeep DEF RoundInv
    <2>2. \/ pc' = "idle" /\ desired' = None /\ latest' = None
          \/ pc' \in {"untag", "put", "patch"} /\ UNCHANGED latest
      BY <1>7, NextCall DEF TagResourceCall, UntagResourceCall, Finish, Goto
    <2> QED
      BY <2>1, <2>2 DEF RoundInv
  <1>8. CASE Update
    <2>1. alarm' = alarm \/ (PayloadError(desired.config) = "none" /\ Puts(desired))
      BY <1>8 DEF Update
    <2>2. alarm' # None => Storable(alarm'.config)
      BY <1>0, <1>8, <2>1, PutsStorable DEF Update, RoundInv
    <2> QED
      BY <1>8, <2>2 DEF Update, Finish, Goto, RoundInv
  <1>9. CASE PatchCR \/ Delete \/ Unmanage
    BY <1>9 DEF PatchCR, Delete, Unmanage, Gone, Finish, Goto, RoundInv
  <1>10. CASE UNCHANGED vars
    BY <1>10 DEF vars, RoundInv
  <1> QED
    BY <1>1, <1>2, <1>3, <1>4, <1>5, <1>6, <1>7, <1>8, <1>9, <1>10 DEF Next, Worker

LEMMA RoundInvariant == Spec => []RoundInv
  <1>1. Init => RoundInv
    BY DEF Init, RoundInv
  <1> QED
    BY <1>1, RoundNext, TypeInvariant, PTL DEF Spec

(* The mapped variables at each call.                                      *)
LEMMA PhaseAt ==
  /\ pc = "idle" => Phase = "idle"
  /\ pc = "describe" => Phase = "asked"
  /\ pc \in {"manage", "create", "unmanage"} => Phase = "absent"
  /\ pc \in {"listTags", "tag", "untag", "put", "delete"} => Phase = "present"
  /\ pc = "patch" => Phase = "done"
  BY DEF Phase

LEMMA PhaseAtNext ==
  /\ pc' = "idle" => Phase' = "idle"
  /\ pc' = "describe" => Phase' = "asked"
  /\ pc' \in {"manage", "create", "unmanage"} => Phase' = "absent"
  /\ pc' \in {"listTags", "tag", "untag", "put", "delete"} => Phase' = "present"
  /\ pc' = "patch" => Phase' = "done"
  BY DEF Phase

LEMMA ClaimOf ==
  ASSUME desired \in Resource, path \in {"sync", "delete"}
  PROVE  /\ Claim \in AlarmSpec \cup {None}
         /\ path = "sync" /\ PayloadError(desired.config) = "none" =>
               Claim # None /\ Claim = WithDefaults(desired.config)
  <1>1. desired.config \in AlarmSpec /\ desired # None
    BY FieldTypes, NoneAssumption
  <1>2. WithDefaults(RequestPayload(desired.config)) \in AlarmSpec
    BY <1>1, StoredConfigType
  <1>3. CASE path = "sync" /\ PayloadError(desired.config) = "none"
    <2>1. Claim = WithDefaults(RequestPayload(desired.config))
      BY <1>1, <1>3 DEF Claim
    <2> QED
      BY <1>1, <1>2, <1>3, <2>1, StoredIsStorable, NoneAssumption
  <1>4. CASE ~(path = "sync" /\ PayloadError(desired.config) = "none")
    BY <1>2, <1>4 DEF Claim
  <1> QED
    BY <1>3, <1>4

LEMMA FinishMaps ==
  ASSUME NEW o, Finish(o) PROVE Managed!Stop
  <1>1. pc' = "idle" /\ desired' = None /\ latest' = None
    BY DEF Finish
  <1> QED
    BY <1>1, PhaseAtNext DEF Claim, Seen, Managed!Stop

LEMMA EnvironmentMaps ==
  ASSUME TypeInv, OwnInv, Environment
  PROVE  [Managed!Next]_(Managed!vars)
  <1> USE DEF cr, aws, worker, history, Managed!cr, Managed!vars
  <1>0. ASSUME UNCHANGED <<pc, path, desired, latest>>
        PROVE  UNCHANGED <<Phase, Claim, Seen>>
    BY <1>0 DEF Phase, Claim, Seen
  <1>1. ASSUME NEW s \in Specs, CreateCR(s) PROVE Managed!CreateCR
    BY <1>0, <1>1 DEF CreateCR, Actual, Managed!CreateCR
  <1>2. ASSUME NEW s \in Specs, EditSpec(s) PROVE UNCHANGED Managed!vars
    BY <1>0, <1>2 DEF EditSpec, Actual
  <1>3. ASSUME DeleteCR PROVE Managed!DeleteCR
    BY <1>0, <1>3 DEF DeleteCR, Actual, Managed!DeleteCR
  <1>4. ASSUME NEW a \in OutsideAlarms, OutsidePut(a) PROVE Managed!OutsideChange
    <2>1. Actual' \in AlarmSpec \cup {None}
      BY <1>4, SpecsAssumption, FieldTypes DEF OutsidePut, Actual
    <2> QED
      BY <1>0, <1>4, <2>1 DEF OutsidePut, Managed!OutsideChange
  <1>5. ASSUME OutsideDelete PROVE Managed!OutsideChange
    BY <1>0, <1>5 DEF OutsideDelete, Gone, Actual, Managed!OutsideChange
  <1>6. ASSUME Crash PROVE Managed!GiveUp
    <2>1. Managed!Stop
      BY <1>6, PhaseAtNext DEF Crash, Claim, Seen, Managed!Stop
    <2> QED
      BY <1>6, <2>1 DEF Crash, Actual, Managed!GiveUp
  <1> QED
    BY <1>1, <1>2, <1>3, <1>4, <1>5, <1>6 DEF Environment, Managed!Next

LEMMA DescribeMaps ==
  ASSUME TypeInv, RoundInv, DescribeAlarms PROVE Managed!Next
  <1> USE DEF cr, aws, worker, history, Managed!cr
  <1>1. pc = "describe" /\ Phase = "asked" /\ latest = None
        /\ UNCHANGED <<crState, finalizer, alarm, Actual>>
    BY PhaseAt DEF DescribeAlarms, RoundInv, Actual
  <1>2. CASE /\ alarm # None /\ pc' = "listTags" /\ UNCHANGED <<path, desired>>
             /\ latest' = [config |-> alarm.config, tags |-> desired.tags]
    <2>1. latest' # None /\ alarm \in Resource
      <3>1. desired \in Resource /\ alarm \in Resource
        BY <1>1, <1>2 DEF TypeInv, TypeOK, HandInv
      <3>2. latest' \in Resource
        BY <1>2, <3>1 DEF Resource
      <3> QED
        BY <3>1, <3>2, NoneAssumption
    <2>2. Seen' = Actual /\ Claim' = Claim /\ Actual # None
      BY <1>2, <2>1, FieldTypes, NoneAssumption DEF Seen, Claim, Actual
    <2> QED
      BY <1>1, <1>2, <2>2, PhaseAtNext DEF Managed!Look, Managed!Next
  <1>3. CASE alarm = None /\ Goto(IF path = "delete" THEN "unmanage" ELSE "manage")
    <2>1. pc' \in {"unmanage", "manage"} /\ UNCHANGED <<path, desired, latest>>
      BY <1>3 DEF Goto
    <2>2. Seen' = None /\ Claim' = Claim /\ Actual = None
      BY <1>1, <1>3, <2>1 DEF Seen, Claim, Actual
    <2> QED
      BY <1>1, <2>1, <2>2, PhaseAtNext DEF Managed!Look, Managed!Next
  <1>4. CASE Finish("recoverable")
    BY <1>1, <1>4, FinishMaps DEF Managed!GiveUp, Managed!Next
  <1> QED
    BY <1>2, <1>3, <1>4 DEF DescribeAlarms

(* Nothing differs from the alarm that was read: the round agrees.         *)
LEMMA AgreedClaim ==
  ASSUME desired \in Resource, latest \in Resource, path = "sync", Storable(latest.config),
         Delta(desired.config, latest.config) = {}
  PROVE  Claim = latest.config
  <1>1. desired.config \in AlarmSpec /\ latest.config \in AlarmSpec
    BY FieldTypes
  <1>2. desired.config = latest.config
    BY <1>1, NoDelta
  <1>3. WithDefaults(desired.config) = desired.config
    BY <1>1, <1>2, DefaultsEffect DEF Storable
  <1> QED
    BY <1>2, <1>3, ClaimOf DEF Storable

(* From one call of sdkUpdate to the next, or to its end: a stutter, or    *)
(* the agreement.                                                          *)
LEMMA OnwardMaps ==
  ASSUME TypeInv, RoundInv, pc \in {"listTags", "tag", "untag"},
         pc' \in {"delete", "tag", "untag", "put", "patch"},
         UNCHANGED <<crState, finalizer, path, Claim, Seen, Actual>>,
         pc' = "patch" => path = "sync" /\ Delta(desired.config, latest.config) = {}
  PROVE  Managed!Next \/ UNCHANGED Managed!vars
  <1>1. CASE pc' # "patch"
    BY <1>1, PhaseAt, PhaseAtNext DEF Managed!vars, Managed!cr
  <1>2. CASE pc' = "patch"
    <2>1. desired \in Resource /\ latest \in Resource /\ latest # None
      BY NoneAssumption DEF TypeInv, HandInv
    <2>2. Claim = latest.config
      BY <1>2, <2>1, AgreedClaim DEF RoundInv
    <2>3. Seen = latest.config
      BY <2>1 DEF Seen
    <2> QED
      BY <1>2, <2>2, <2>3, PhaseAt, PhaseAtNext DEF Managed!Agree, Managed!cr, Managed!Next
  <1> QED
    BY <1>1, <1>2

LEMMA NothingDiffers ==
  ASSUME NEW d, NEW l, Delta(d.config, l.config) # {}
  PROVE  AfterTags(d, l) # "patch" /\ AfterAdd(d, l) # "patch" /\ AfterDelta(d, l) # "patch"
  BY DEF AfterTags, AfterAdd, AfterDelta

LEMMA ListTagsMaps ==
  ASSUME TypeInv, OwnInv, RoundInv, ListTagsForResource
  PROVE  Managed!Next \/ UNCHANGED Managed!vars
  <1> USE DEF cr, aws, worker, history, Managed!cr
  <1>1. /\ pc = "listTags" /\ UNCHANGED <<crState, finalizer, alarm, Actual>>
        /\ desired \in Resource /\ latest \in Resource /\ desired # None /\ latest # None
    BY NoneAssumption DEF ListTagsForResource, Actual, TypeInv, HandInv
  <1>2. ASSUME NEW o, Finish(o) PROVE Managed!Next
    BY <1>1, <1>2, FinishMaps DEF Managed!GiveUp, Managed!Next
  <1>3. CASE /\ alarm # None /\ UNCHANGED path
             /\ latest' = [latest EXCEPT !.tags = alarm.tags]
             /\ desired' = [desired EXCEPT !.tags = MirrorAWSTags(@, alarm.tags)]
             /\ pc' = IF path = "delete" THEN "delete" ELSE AfterDelta(desired', latest')
    <2>1. /\ latest' \in Resource /\ latest'.config = latest.config
          /\ desired' \in Resource /\ desired'.config = desired.config
      <3>1. alarm.tags \in TagMap /\ desired.tags \in TagMap
        <4>1. alarm \in Resource
          BY <1>3 DEF TypeInv, TypeOK
        <4> QED
          BY <1>1, <4>1, FieldTypes
      <3>2. MirrorAWSTags(desired.tags, alarm.tags) \in TagMap
        BY <3>1, TagMapsClosed DEF MirrorAWSTags
      <3> QED
        BY <1>1, <1>3, <3>1, <3>2, ResourceType, RetagEffect
    <2>2. latest' # None /\ desired' # None
      BY <2>1, NoneAssumption
    <2>3. pc' \in {"delete", "tag", "untag", "put", "patch"}
      BY <1>3, NextCall
    <2>4. Claim' = Claim /\ Seen' = Seen
      BY <1>1, <1>3, <2>1, <2>2, <2>3 DEF Claim, Seen
    <2>5. pc' = "patch" => path = "sync" /\ Delta(desired.config, latest.config) = {}
      <3>1. path \in {"sync", "delete"}
        BY DEF TypeInv, TypeOK
      <3> QED
        BY <1>3, <2>1, <3>1, NothingDiffers
    <2> QED
      BY <1>1, <1>3, <2>3, <2>4, <2>5, OnwardMaps
  <1> QED
    BY <1>2, <1>3 DEF ListTagsForResource

LEMMA TagCallsMap ==
  ASSUME TypeInv, OwnInv, RoundInv, TagResourceCall \/ UntagResourceCall
  PROVE  Managed!Next \/ UNCHANGED Managed!vars
  <1> USE DEF cr, aws, worker, history, Managed!cr
  <1>1. /\ pc \in {"tag", "untag"} /\ UNCHANGED <<crState, finalizer>>
        /\ Actual' = Actual /\ path = "sync"
    BY RetagsKeep DEF TagResourceCall, UntagResourceCall, Actual, OwnInv, TypeInv, TypeOK
  <1>2. ASSUME NEW o, Finish(o) PROVE Managed!Next
    BY <1>1, <1>2, FinishMaps DEF Managed!GiveUp, Managed!Next
  <1>3. ASSUME NEW next \in {AfterTags(desired, latest), AfterAdd(desired, latest)}, Goto(next)
        PROVE  Managed!Next \/ UNCHANGED Managed!vars
    <2>1. pc' \in {"untag", "put", "patch"} /\ UNCHANGED <<path, desired, latest>>
      BY <1>3, NextCall DEF Goto
    <2>2. Claim' = Claim /\ Seen' = Seen
      BY <1>1, <2>1 DEF Claim, Seen
    <2>3. pc' = "patch" => Delta(desired.config, latest.config) = {}
      BY <1>3, NothingDiffers DEF Goto
    <2> QED
      BY <1>1, <2>1, <2>2, <2>3, OnwardMaps
  <1> QED
    BY <1>2, <1>3 DEF TagResourceCall, UntagResourceCall

(* A PutMetricAlarm that is applied, answered or not.                      *)
LEMMA PutsMap ==
  ASSUME TypeInv, pc \in {"create", "put"}, path = "sync",
         PayloadError(desired.config) = "none", Puts(desired)
  PROVE  Claim # None /\ Actual' = Claim
  <1>1. desired \in Resource /\ alarm \in Resource \cup {None}
    BY DEF TypeInv, TypeOK, HandInv
  <1>2. Claim # None /\ Claim = WithDefaults(desired.config)
    BY <1>1, ClaimOf
  <1>3. alarm'.config = WithDefaults(desired.config) /\ alarm' # None
    BY <1>1, PutsStorable, PutsType, NoneAssumption
  <1> QED
    BY <1>2, <1>3 DEF Actual

LEMMA WritesMap ==
  ASSUME TypeInv, OwnInv, RoundInv, Manage \/ Create \/ Update
  PROVE  Managed!Next
  <1> USE DEF cr, aws, worker, history, Managed!cr
  <1>1. ASSUME NEW o, Finish(o), UNCHANGED alarm, 
               UNCHANGED <<crState, finalizer>> \/ Managed!Release
        PROVE  Managed!GiveUp
    BY <1>1, FinishMaps DEF Managed!GiveUp, Actual
  <1>2. path \in {"sync", "delete"} /\ (path = "delete" /\ pc # "idle" => pc \notin {"manage", "create", "put"})
    BY DEF TypeInv, TypeOK, OwnInv
  <1>3. CASE Manage
    <2>1. ASSUME NEW o, Finish(o), UNCHANGED finalizer PROVE Managed!GiveUp
      BY <1>1, <1>3, <2>1 DEF Manage
    <2>2. CASE crState # "absent" /\ finalizer' = TRUE /\ Goto("create")
      <3>1. pc = "manage" /\ pc' = "create" /\ UNCHANGED <<crState, path, desired, latest, alarm>>
        BY <1>3, <2>2 DEF Manage, Goto
      <3>2. UNCHANGED <<Claim, Seen, Actual>>
        BY <3>1 DEF Claim, Seen, Actual
      <3> QED
        BY <2>2, <3>1, <3>2, PhaseAt, PhaseAtNext DEF Managed!Manage, Managed!Next
    <2> QED
      BY <1>3, <2>1, <2>2 DEF Manage, Managed!Next
  <1>4. ASSUME Puts(desired), Goto("patch"), pc \in {"create", "put"},
               PayloadError(desired.config) = "none", UNCHANGED <<crState, finalizer>>
        PROVE  Managed!Write
    <2>1. pc' = "patch" /\ UNCHANGED <<Claim, Seen>>
      BY <1>4 DEF Goto, Claim, Seen
    <2> QED
      BY <1>2, <1>4, <2>1, PutsMap, PhaseAt, PhaseAtNext DEF OwnInv, Managed!Write
  <1>5. CASE Create
    <2>1. pc = "create" /\ finalizer /\ Phase = "absent"
      BY <1>5, PhaseAt DEF Create, OwnInv
    <2>2. ASSUME NEW o, CreateFails(o)
          PROVE  Managed!Stop /\ (UNCHANGED <<crState, finalizer>> \/ Managed!Release)
      BY <2>1, <2>2, FinishMaps DEF CreateFails, Managed!Release
    <2>3. ASSUME NEW o, CreateFails(o), UNCHANGED aws PROVE Managed!GiveUp
      BY <2>2, <2>3 DEF Actual, Managed!GiveUp
    <2>4. ASSUME NEW o, CreateFails(o), Puts(desired), PayloadError(desired.config) = "none"
          PROVE  Managed!Write
      BY <1>2, <2>1, <2>2, <2>4, PutsMap DEF Managed!Write
    <2> QED
      BY <1>4, <1>5, <2>1, <2>3, <2>4 DEF Create, Managed!Next
  <1>6. CASE Update
    <2>1. pc = "put" /\ finalizer /\ Phase = "present" /\ UNCHANGED <<crState, finalizer>>
      BY <1>6, PhaseAt DEF Update, OwnInv
    <2>2. ASSUME NEW o, Finish(o), UNCHANGED alarm PROVE Managed!GiveUp
      BY <1>1, <2>1, <2>2
    <2>3. ASSUME NEW o, Finish(o), Puts(desired), PayloadError(desired.config) = "none"
          PROVE  Managed!Write
      BY <1>2, <2>1, <2>3, PutsMap, FinishMaps DEF Managed!Write
    <2> QED
      BY <1>4, <1>6, <2>1, <2>2, <2>3 DEF Update, Managed!Next
  <1> QED
    BY <1>3, <1>5, <1>6

LEMMA EndsMap ==
  ASSUME TypeInv, OwnInv, PatchCR \/ Delete \/ Unmanage
  PROVE  Managed!Next
  <1> USE DEF cr, aws, worker, history, Managed!cr
  <1>1. ASSUME NEW o, Finish(o), UNCHANGED alarm,
               \/ UNCHANGED <<crState, finalizer>>
               \/ Phase = "absent" /\ Managed!Release
        PROVE  Managed!GiveUp
    BY <1>1, FinishMaps DEF Managed!GiveUp, Actual
  <1>2. CASE PatchCR
    <2>1. UNCHANGED <<crState, finalizer, alarm>> /\ \E o \in {"synced", "recoverable"} : Finish(o)
      BY <1>2 DEF PatchCR
    <2> QED
      BY <1>1, <2>1 DEF Managed!Next
  <1>3. CASE Delete
    <2>1. pc = "delete" /\ path = "delete" /\ Phase = "present" /\ crState = "deleting"
          /\ finalizer /\ UNCHANGED <<crState, finalizer>>
      BY <1>3, PhaseAt DEF Delete, OwnInv
    <2>2. CASE alarm' = None /\ Goto("unmanage")
      <3>1. Seen' = None /\ Claim' = Claim /\ Actual' = None /\ pc' = "unmanage"
        BY <2>2 DEF Seen, Claim, Actual, Goto
      <3> QED
        BY <2>1, <3>1, PhaseAtNext DEF Managed!Remove, Managed!Next
    <2>3. ASSUME Finish("recoverable"), alarm' = None PROVE Managed!Remove
      BY <2>1, <2>3, FinishMaps DEF Actual, Managed!Remove
    <2>4. ASSUME Finish("recoverable"), UNCHANGED alarm PROVE Managed!GiveUp
      BY <1>1, <2>1, <2>4
    <2> QED
      BY <1>3, <2>2, <2>3, <2>4 DEF Delete, Gone, Managed!Next
  <1>4. CASE Unmanage
    <2>1. /\ Phase = "absent" /\ UNCHANGED alarm /\ crState = "deleting"
          /\ \E o \in {"synced", "recoverable"} : Finish(o)
          /\ UNCHANGED <<crState, finalizer>> \/ Managed!Release
      BY <1>4, PhaseAt DEF Unmanage, OwnInv, Managed!Release
    <2> QED
      BY <1>1, <2>1 DEF Managed!Next
  <1> QED
    BY <1>2, <1>3, <1>4

LEMMA BeginMaps ==
  ASSUME TypeInv, TypeInv', RoundInv, Begin PROVE Managed!Next
  <1>1. /\ pc = "idle" /\ pc' = "describe" /\ UNCHANGED <<crState, finalizer, alarm, latest>>
        /\ desired' \in Resource /\ path' \in {"sync", "delete"}
    BY DEF Begin, TypeInv, TypeOK, HandInv, cr, aws
  <1>2. Claim' \in AlarmSpec \cup {None}
    <2>1. desired'.config \in AlarmSpec
      BY <1>1, FieldTypes
    <2> QED
      BY <2>1, StoredConfigType DEF Claim
  <1>3. Seen' = Seen /\ Actual' = Actual
    BY <1>1 DEF Seen, Actual
  <1> QED
    BY <1>1, <1>2, <1>3, PhaseAt, PhaseAtNext DEF Managed!Take, Managed!cr, Managed!Next

(* The controller's alarms are managed resources, for every set of specs:  *)
(* the finalizer comes before the alarm, only what the CR asks for and the *)
(* payload builder accepts is written, and only a CR that is being deleted *)
(* takes its alarm along.                                                  *)
THEOREM AlarmIsManaged == Spec => ImplementsManagedResource
  <1>1. Init => Managed!Init
    BY DEF Init, Phase, Claim, Seen, Actual, Managed!Init
  <1>2. TypeInv /\ TypeInv' /\ OwnInv /\ RoundInv /\ [Next]_vars
        => [Managed!Next]_(Managed!vars)
    <2>1. UNCHANGED vars => UNCHANGED Managed!vars
      BY DEF vars, cr, aws, worker, Phase, Claim, Seen, Actual, Managed!vars, Managed!cr
    <2> QED
      BY <2>1, EnvironmentMaps, BeginMaps, DescribeMaps, ListTagsMaps, TagCallsMap, WritesMap,
         EndsMap DEF Next, Worker
  <1> QED
    BY <1>1, <1>2, TypeInvariant, OwnInvariant, RoundInvariant, PTL
       DEF Spec, ImplementsManagedResource, Managed!Spec
=============================================================================
