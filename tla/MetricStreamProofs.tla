------------------------- MODULE MetricStreamProofs -------------------------
(* Proofs about MetricStream, for every set of specs, of ARNs and of states *)
(* of the referenced CRs, without the bounds mattering.                     *)
EXTENDS MetricStream, TLAPS

-----------------------------------------------------------------------------
(* The tag operators.                                                      *)

(* The operators take tag maps to tag maps.                                *)
LEMMA TagMapsClosed ==
  ASSUME NEW a \in TagMap, NEW b \in TagMap, NEW S
  PROVE  /\ Merge(a, b) \in TagMap
         /\ SyncAWSTags(a, b) \in TagMap
         /\ IgnoreSystemTags(a, S) \in TagMap
         /\ TagsToAdd(a, b) \in TagMap
         /\ UntagResource(a, S) \in TagMap
         /\ NoTags \in TagMap
  BY DEF TagMap, Merge, SyncAWSTags, IgnoreSystemTags, TagsToAdd, UntagResource, NoTags

(* EnsureTags never overrides a tag of the CR, whatever the defaults.      *)
LEMMA UserTagsWin ==
  ASSUME NEW t \in TagMap, NEW d \in TagMap, NEW k \in Keys
  PROVE  EnsureTags(t, d)[k] = IF t[k] # Absent THEN t[k] ELSE d[k]
  BY DEF EnsureTags, Merge

(* mirrorAWSTags changes aws: keys only, and makes each that the alarm has *)
(* the same in both.                                                       *)
LEMMA MirrorEffect ==
  ASSUME NEW d \in TagMap, NEW l \in TagMap, NEW k \in Keys
  PROVE  MirrorAWSTags(d, l)[k] =
           IF k \in AwsKeys /\ l[k] # Absent THEN l[k] ELSE d[k]
  BY DEF MirrorAWSTags, SyncAWSTags


-----------------------------------------------------------------------------
(* Types.                                                                  *)

Bounds == {"edits", "outside", "refs", "failures", "crashes"}

(* Writing an ARN, the tags or the fields that were read gives an object.  *)
LEMMA ObjectUpdates ==
  ASSUME NEW o \in Object, NEW f \in Fields, NEW a \in Arns \cup {Nil},
         NEW b \in [Fields -> Arns \cup {Nil}], NEW r \in Rests, NEW t \in TagMap
  PROVE  /\ [o EXCEPT !.arn[f] = a] \in Object
         /\ [o EXCEPT !.arn[f] = a, !.tags = t] \in Object
         /\ [o EXCEPT !.arn = b] \in Object
         /\ [o EXCEPT !.arn = b, !.rest = r] \in Object
         /\ [o EXCEPT !.tags = t] \in Object
  BY DEF Object

LEMMA ObjectFields ==
  ASSUME NEW o \in Object
  PROVE  /\ o.ref \in [Fields -> RefKinds] /\ o.arn \in [Fields -> Arns \cup {Nil}]
         /\ o.rest \in Rests /\ o.tags \in TagMap
  BY DEF Object

(* ClearResolvedReferences gives an object that differs in the ARNs only.  *)
LEMMA ClearType ==
  ASSUME NEW o \in Object
  PROVE  /\ ClearResolvedReferences(o) \in Object
         /\ ClearResolvedReferences(o).ref = o.ref
         /\ ClearResolvedReferences(o).rest = o.rest
         /\ ClearResolvedReferences(o).tags = o.tags
         /\ \A f \in Fields : ClearResolvedReferences(o).arn[f]
                                = IF o.ref[f] # Nil THEN Nil ELSE o.arn[f]
  <1> DEFINE a == [f \in Fields |-> IF o.ref[f] # Nil THEN Nil ELSE o.arn[f]]
  <1>1. a \in [Fields -> Arns \cup {Nil}]
    BY ObjectFields
  <1>2. ClearResolvedReferences(o) = [o EXCEPT !.arn = a]
    BY DEF ClearResolvedReferences
  <1> HIDE DEF a
  <1>3. [o EXCEPT !.arn = a] \in Object /\ [o EXCEPT !.arn = a].arn = a
    BY <1>1 DEF Object
  <1>4. /\ [o EXCEPT !.arn = a].ref = o.ref
        /\ [o EXCEPT !.arn = a].rest = o.rest
        /\ [o EXCEPT !.arn = a].tags = o.tags
    BY DEF Object
  <1> QED
    BY <1>2, <1>3, <1>4 DEF a

(* The worker holds the objects that its next call works on.               *)
HandInv ==
    /\ pc # "idle" => desired \in Object
    /\ pc = "put" => latest \in Object

TypeInv == TypeOK /\ HandInv

LEMMA UsedType ==
  ASSUME TypeInv, NEW b \in Bounds, Use(b) PROVE used' \in [Bounds -> Nat]
  BY DEF TypeInv, TypeOK, Use, Bounds

LEMMA FailingType ==
  ASSUME TypeInv, Failing PROVE used' \in [Bounds -> Nat]
  BY UsedType DEF Failing, Bounds

(* The parts of the invariant that the worker's own steps change, and the  *)
(* parts that they share with the rest of the world.                       *)
WorkerTypeOK ==
    /\ pc \in Calls \cup {"idle"}
    /\ path \in {"sync", "delete"}
    /\ desired \in Object \cup {None}
    /\ invalid \in BOOLEAN
    /\ latest \in Object \cup {None}
    /\ seen \in [Fields -> SUBSET RefStates]
    /\ halted \in BOOLEAN
    /\ HandInv

StoreTypeOK ==
    /\ crState \in {"absent", "live", "deleting"}
    /\ finalizer \in BOOLEAN
    /\ spec \in Object
    /\ refs \in [Fields -> RefStates]
    /\ stream \in Stream \cup {None}
    /\ edited \in BOOLEAN /\ interfered \in BOOLEAN
    /\ used \in [Bounds -> Nat]

LEMMA TypeParts == TypeInv <=> WorkerTypeOK /\ StoreTypeOK
  BY DEF TypeInv, TypeOK, WorkerTypeOK, StoreTypeOK, Bounds

LEMMA TypePartsNext == TypeInv' <=> WorkerTypeOK' /\ StoreTypeOK'
  BY DEF TypeInv, TypeOK, WorkerTypeOK, StoreTypeOK, HandInv, Bounds

(* A worker that stops, and one that goes on to a call that needs nothing  *)
(* more in hand.                                                           *)
LEMMA StopType ==
  ASSUME TypeInv, Stop \/ StopUnmanaged PROVE WorkerTypeOK'
  <1>1. [f \in Fields |-> {}] \in [Fields -> SUBSET RefStates]
    OBVIOUS
  <1> QED
    BY <1>1 DEF TypeInv, TypeOK, Stop, StopUnmanaged, Idle, WorkerTypeOK, HandInv

LEMMA GotoType ==
  ASSUME TypeInv, NEW next \in Calls \ {"put"}, pc # "idle", Goto(next)
  PROVE  WorkerTypeOK'
  BY DEF TypeInv, TypeOK, HandInv, Goto, WorkerTypeOK

LEMMA TypeInit == Init => TypeInv
  <1> SUFFICES ASSUME Init PROVE WorkerTypeOK /\ StoreTypeOK
    BY TypeParts
  <1>1. used \in [Bounds -> Nat]
    BY DEF Init, Bounds
  <1>2. refs \in [Fields -> RefStates]
    BY RefWorldsAssumption DEF Init
  <1>3. seen \in [Fields -> SUBSET RefStates]
    BY DEF Init
  <1>4. WorkerTypeOK
    BY <1>3 DEF Init, WorkerTypeOK, HandInv
  <1>5. StoreTypeOK
    BY <1>1, <1>2, SpecsAssumption DEF Init, StoreTypeOK
  <1> QED
    BY <1>4, <1>5

LEMMA TypeEnvironment ==
  ASSUME TypeInv, Environment PROVE TypeInv'
  <1> USE DEF cr, worker, history
  <1>0. WorkerTypeOK /\ StoreTypeOK
    BY TypeParts
  <1>1. ASSUME NEW s \in Specs, CreateCR(s) \/ EditSpec(s) PROVE TypeInv'
    <2>1. used' \in [Bounds -> Nat] /\ s \in Object
      BY <1>1, UsedType, SpecsAssumption DEF CreateCR, EditSpec, Bounds
    <2>2. StoreTypeOK'
      BY <1>0, <1>1, <2>1 DEF CreateCR, EditSpec, StoreTypeOK
    <2>3. WorkerTypeOK'
      BY <1>0, <1>1 DEF CreateCR, EditSpec, WorkerTypeOK, HandInv
    <2> QED
      BY <2>2, <2>3, TypePartsNext
  <1>2. ASSUME DeleteCR PROVE TypeInv'
    <2>1. StoreTypeOK' /\ WorkerTypeOK'
      BY <1>0, <1>2 DEF DeleteCR, StoreTypeOK, WorkerTypeOK, HandInv
    <2> QED
      BY <2>1, TypePartsNext
  <1>3. ASSUME NEW f \in Fields, NEW s \in RefWorlds, ChangeRef(f, s) PROVE TypeInv'
    <2>1. used' \in [Bounds -> Nat] /\ s \in RefStates
      BY <1>3, UsedType, RefWorldsAssumption DEF ChangeRef, Bounds
    <2>2. StoreTypeOK'
      BY <1>0, <1>3, <2>1 DEF ChangeRef, StoreTypeOK
    <2>3. seen' \in [Fields -> SUBSET RefStates]
      BY <1>0, <1>3, <2>1 DEF ChangeRef, WorkerTypeOK
    <2>4. WorkerTypeOK'
      BY <1>0, <1>3, <2>3 DEF ChangeRef, WorkerTypeOK, HandInv
    <2> QED
      BY <2>2, <2>4, TypePartsNext
  <1>4. ASSUME NEW a \in OutsideStreams \cup {None}, OutsideChange(a) PROVE TypeInv'
    <2>1. used' \in [Bounds -> Nat] /\ a \in Stream \cup {None}
      BY <1>4, UsedType, SpecsAssumption DEF OutsideChange, Bounds
    <2>2. StoreTypeOK'
      BY <1>0, <1>4, <2>1 DEF OutsideChange, StoreTypeOK
    <2>3. WorkerTypeOK'
      BY <1>0, <1>4 DEF OutsideChange, WorkerTypeOK, HandInv
    <2> QED
      BY <2>2, <2>3, TypePartsNext
  <1>5. ASSUME Crash PROVE TypeInv'
    <2>1. used' \in [Bounds -> Nat]
      BY <1>5, UsedType DEF Crash, Bounds
    <2>2. StoreTypeOK'
      BY <1>0, <1>5, <2>1 DEF Crash, StoreTypeOK
    <2>3. WorkerTypeOK'
      BY <1>5, StopType DEF Crash
    <2> QED
      BY <2>2, <2>3, TypePartsNext
  <1> QED
    BY <1>1, <1>2, <1>3, <1>4, <1>5 DEF Environment

(* What ResolveReferences writes is an ARN or nil.                         *)
LEMMA ResolvedArnType ==
  ASSUME TypeInv, pc # "idle", NEW f \in Fields PROVE ResolvedArn(f) \in Arns \cup {Nil}
  BY DEF TypeInv, TypeOK, HandInv, ResolvedArn, Object, RefStates

LEMMA ResolveFailsType ==
  ASSUME TypeInv, NEW f \in Fields, ResolveFails(f)
  PROVE  WorkerTypeOK' /\ used' \in [Bounds -> Nat]
  <1>1. WorkerTypeOK'
    BY StopType DEF ResolveFails
  <1>2. used \in [Bounds -> Nat]
    BY DEF TypeInv, TypeOK, Bounds
  <1> QED
    BY <1>1, <1>2, FailingType DEF ResolveFails

LEMMA RoleResolvedType ==
  ASSUME TypeInv, pc = "role", RoleResolved
  PROVE  WorkerTypeOK' /\ used' = used
  <1>1. "RoleARN" \in Fields /\ desired \in Object
    BY DEF TypeInv, HandInv, Fields
  <1>2. EnsureTags(desired.tags, DefaultTags) \in TagMap
    BY <1>1, ObjectFields, TagMapsClosed, DefaultTagsAssumption DEF EnsureTags
  <1>3. ResolvedArn("RoleARN") \in Arns \cup {Nil}
    BY <1>1, ResolvedArnType
  <1>4. [desired EXCEPT !.arn["RoleARN"] = ResolvedArn("RoleARN"),
                        !.tags = EnsureTags(desired.tags, DefaultTags)] \in Object
    BY <1>1, <1>2, <1>3 DEF Object
  <1>5. desired' \in Object
    BY <1>4 DEF RoleResolved
  <1> QED
    BY <1>5 DEF RoleResolved, TypeInv, TypeOK, WorkerTypeOK, HandInv, Calls

(* What PutMetricStream leaves in CloudWatch is a stream.                  *)
LEMMA PutsType ==
  ASSUME stream \in Stream \cup {None}, NEW r \in Object, Puts(r)
  PROVE  stream' \in Stream
  <1>1. r.arn \in [Fields -> Arns]
    BY ObjectFields DEF Puts, PutRefused
  <1>2. r.rest \in Rests /\ (IF stream = None THEN r.tags ELSE stream.tags) \in TagMap
    BY ObjectFields DEF Stream
  <1> QED
    BY <1>1, <1>2 DEF Puts, Stream

(* What ReadOne observes: the stream, with the tags of the CR.             *)
LEMMA ReadType ==
  ASSUME TypeInv, pc = "get", stream # None
  PROVE  [desired EXCEPT !.arn = stream.arn, !.rest = stream.rest] \in Object
  <1>1. stream.arn \in [Fields -> Arns \cup {Nil}] /\ stream.rest \in Rests
    BY DEF TypeInv, TypeOK, Stream
  <1>2. desired \in Object
    BY DEF TypeInv, HandInv
  <1> QED
    BY <1>1, <1>2 DEF Object

LEMMA TypeBegin ==
  ASSUME TypeInv, Begin PROVE TypeInv'
  <1>0. WorkerTypeOK /\ StoreTypeOK
    BY TypeParts
  <1>1. seen' \in [Fields -> SUBSET RefStates]
    BY <1>0 DEF Begin, StoreTypeOK
  <1>2. /\ invalid' \in BOOLEAN /\ halted' \in BOOLEAN
        /\ pc' \in {"get", "firehose"} /\ path' \in {"sync", "delete"}
    BY <1>0 DEF Begin, StoreTypeOK, WorkerTypeOK, ValidationError
  <1>3. desired' \in Object /\ latest' \in Object \cup {None}
    BY <1>0 DEF Begin, StoreTypeOK, WorkerTypeOK
  <1>4. WorkerTypeOK'
    BY <1>1, <1>2, <1>3 DEF WorkerTypeOK, HandInv, Calls
  <1>5. StoreTypeOK'
    BY <1>0 DEF Begin, StoreTypeOK, cr
  <1> QED
    BY <1>4, <1>5, TypePartsNext

LEMMA TypeResolve ==
  ASSUME TypeInv, ResolveFirehose \/ ResolveRole PROVE TypeInv'
  <1>0. WorkerTypeOK /\ StoreTypeOK
    BY TypeParts
  <1>1. WorkerTypeOK' /\ used' \in [Bounds -> Nat]
    <2>1. CASE ResolveFirehose
      <3>1. "FirehoseARN" \in Fields
        BY DEF Fields
      <3>2. CASE ResolveFails("FirehoseARN")
        BY <3>1, <3>2, ResolveFailsType
      <3>3. CASE ~ResolveFails("FirehoseARN")
        <4>1. desired \in Object /\ ResolvedArn("FirehoseARN") \in Arns \cup {Nil}
          BY <2>1, <3>1, <1>0, ResolvedArnType DEF ResolveFirehose, WorkerTypeOK, HandInv
        <4>2. [desired EXCEPT !.arn["FirehoseARN"] = ResolvedArn("FirehoseARN")] \in Object
          BY <3>1, <4>1 DEF Object
        <4>3. desired' \in Object
          BY <2>1, <3>3, <4>2 DEF ResolveFirehose
        <4> QED
          BY <2>1, <3>3, <4>3, <1>0
             DEF ResolveFirehose, WorkerTypeOK, StoreTypeOK, HandInv, Calls
      <3> QED
        BY <3>2, <3>3
    <2>2. CASE ResolveRole
      <3>1. "RoleARN" \in Fields
        BY DEF Fields
      <3>2. CASE ResolveFails("RoleARN")
        BY <3>1, <3>2, ResolveFailsType
      <3>3. CASE RoleResolved
        BY <2>2, <3>3, <1>0, RoleResolvedType DEF ResolveRole, StoreTypeOK
      <3>4. CASE Stop /\ UNCHANGED used
        BY <3>4, <1>0, StopType DEF StoreTypeOK
      <3> QED
        BY <2>2, <3>2, <3>3, <3>4 DEF ResolveRole
    <2> QED
      BY <2>1, <2>2
  <1>2. StoreTypeOK'
    BY <1>0, <1>1 DEF ResolveFirehose, ResolveRole, StoreTypeOK, cr
  <1> QED
    BY <1>1, <1>2, TypePartsNext

LEMMA TypeGetMetricStream ==
  ASSUME TypeInv, GetMetricStream PROVE TypeInv'
  <1>0. WorkerTypeOK /\ StoreTypeOK
    BY TypeParts
  <1>1. WorkerTypeOK' /\ used' \in [Bounds -> Nat]
    <2>1. CASE (Stop \/ StopUnmanaged) /\ (UNCHANGED used \/ Failing)
      BY <2>1, <1>0, StopType, FailingType DEF StoreTypeOK
    <2>2. CASE UNCHANGED used /\ Goto(IF path = "delete" THEN "unmanage" ELSE "manage")
      BY <2>2, <1>0, GotoType DEF GetMetricStream, StoreTypeOK, Calls
    <2>3. CASE /\ stream # None
               /\ latest' = [desired EXCEPT !.arn = stream.arn, !.rest = stream.rest]
               /\ desired' = [desired EXCEPT !.tags = MirrorAWSTags(@, latest'.tags)]
               /\ pc' = CASE path = "delete" -> "delete"
                          [] path = "sync" ->
                               IF Delta(desired', latest') THEN "put" ELSE "patch"
               /\ UNCHANGED <<path, invalid, seen, halted, used>>
      <3>1. latest' \in Object
        BY <2>3, ReadType DEF GetMetricStream
      <3>2. MirrorAWSTags(desired.tags, latest'.tags) \in TagMap
        BY <1>0, <3>1, ObjectFields, TagMapsClosed
           DEF GetMetricStream, WorkerTypeOK, HandInv, MirrorAWSTags
      <3>3. desired' \in Object
        BY <2>3, <1>0, <3>2 DEF GetMetricStream, WorkerTypeOK, HandInv, Object
      <3>4. pc' \in {"delete", "put", "patch"}
        BY <2>3, <1>0 DEF WorkerTypeOK
      <3> QED
        BY <2>3, <1>0, <3>1, <3>3, <3>4 DEF WorkerTypeOK, StoreTypeOK, HandInv, Calls
    <2> QED
      BY <2>1, <2>2, <2>3 DEF GetMetricStream
  <1>2. StoreTypeOK'
    BY <1>0, <1>1 DEF GetMetricStream, StoreTypeOK, cr
  <1> QED
    BY <1>1, <1>2, TypePartsNext

(* The calls that end the work or go on with what is in hand.              *)
LEMMA TypeCalls ==
  ASSUME TypeInv, Manage \/ Create \/ Update \/ Delete \/ Unmanage PROVE TypeInv'
  <1>0. WorkerTypeOK /\ StoreTypeOK
    BY TypeParts
  <1>1. pc # "idle" /\ (\/ Stop \/ Goto("create") \/ Goto("patch") \/ Goto("unmanage"))
    BY DEF Manage, Create, CreateFails, Update, Delete, Unmanage
  <1>2. WorkerTypeOK'
    BY <1>1, StopType, GotoType DEF Calls
  <1>3. used' \in [Bounds -> Nat]
    BY <1>0, FailingType DEF Manage, Create, Update, Delete, Unmanage, StoreTypeOK
  <1>4. stream' \in Stream \cup {None}
    <2>1. desired \in Object
      BY <1>0, <1>1 DEF WorkerTypeOK, HandInv
    <2>2. Puts(desired) => stream' \in Stream
      BY <2>1, <1>0, PutsType DEF StoreTypeOK
    <2> QED
      BY <1>0, <2>2 DEF Manage, Create, Update, Delete, Unmanage, StoreTypeOK, cr
  <1>5. crState' \in {"absent", "live", "deleting"} /\ finalizer' \in BOOLEAN
    BY <1>0 DEF Manage, Create, CreateFails, Update, Delete, Unmanage, StoreTypeOK, cr
  <1>6. UNCHANGED <<spec, refs, edited, interfered>>
    BY DEF Manage, Create, Update, Delete, Unmanage, cr
  <1>7. StoreTypeOK'
    BY <1>0, <1>3, <1>4, <1>5, <1>6 DEF StoreTypeOK
  <1> QED
    BY <1>2, <1>7, TypePartsNext

LEMMA TypePatchCR ==
  ASSUME TypeInv, PatchCR PROVE TypeInv'
  <1>0. WorkerTypeOK /\ StoreTypeOK
    BY TypeParts
  <1>1. WorkerTypeOK'
    BY StopType DEF PatchCR
  <1>2. used' \in [Bounds -> Nat]
    BY <1>0, FailingType DEF PatchCR, StoreTypeOK
  <1>3. desired \in Object
    BY <1>0 DEF PatchCR, WorkerTypeOK, HandInv
  <1>4. [ClearResolvedReferences(desired) EXCEPT !.tags = FilterSystemTags(@, SystemTags)]
          \in Object
    <2>1. ClearResolvedReferences(desired) \in Object
      BY <1>3, ClearType
    <2>2. FilterSystemTags(ClearResolvedReferences(desired).tags, SystemTags) \in TagMap
      BY <2>1, ObjectFields, TagMapsClosed DEF FilterSystemTags
    <2> QED
      BY <2>1, <2>2 DEF Object
  <1>5. spec' \in Object
    BY <1>0, <1>4 DEF PatchCR, StoreTypeOK
  <1>6. StoreTypeOK'
    BY <1>0, <1>2, <1>5 DEF PatchCR, StoreTypeOK
  <1> QED
    BY <1>1, <1>6, TypePartsNext

LEMMA TypeNext == TypeInv /\ [Next]_vars => TypeInv'
  <1> SUFFICES ASSUME TypeInv, [Next]_vars PROVE TypeInv'
    OBVIOUS
  <1>1. CASE Environment
    BY <1>1, TypeEnvironment
  <1>2. CASE Worker
    BY <1>2, TypeBegin, TypeResolve, TypeGetMetricStream, TypeCalls, TypePatchCR DEF Worker
  <1>3. CASE UNCHANGED vars
    BY <1>3 DEF vars, cr, worker, history, TypeInv, TypeOK, HandInv
  <1> QED
    BY <1>1, <1>2, <1>3 DEF Next

LEMMA Typed == Spec => []TypeInv
  BY TypeInit, TypeNext, PTL DEF Spec

(* Type correctness of MetricStream.                                       *)
THEOREM StreamTypeCorrect == Spec => []TypeOK
  <1>1. TypeInv => TypeOK
    BY DEF TypeInv
  <1> QED
    BY <1>1, Typed, PTL

-----------------------------------------------------------------------------
(* Safety.  Which calls are on which path.                                 *)
PathInv ==
    /\ pc \in {"firehose", "role", "manage", "create", "put", "patch"} => path = "sync"
    /\ pc \in {"delete", "unmanage"} => path = "delete"

(* While references are resolved `invalid` is the verdict on the spec;     *)
(* afterwards the verdict was good.                                        *)
CheckInv ==
    /\ pc \in {"firehose", "role"} /\ ~edited => (invalid <=> ValidationError(spec))
    /\ pc \in {"get", "manage", "create", "put", "patch"} /\ path = "sync" /\ ~edited
         => ~ValidationError(spec)

(* The CRs as they are have been seen, and so was what has been resolved.  *)
Offered(f) ==
    desired.ref[f] = "named" =>
        \E s \in seen[f] : s.exists /\ s.synced /\ ~s.terminal /\ s.arn = desired.arn[f]

OfferInv ==
    /\ pc # "idle" => \A f \in Fields : refs[f] \in seen[f]
    /\ pc = "role" => Offered("FirehoseARN")
    /\ pc \in {"get", "manage", "create", "put"} /\ path = "sync" =>
         \A f \in Fields : Offered(f)

(* The worker's object is the user's spec but for resolved ARNs and system *)
(* tags.                                                                   *)
CopyInv ==
    pc # "idle" /\ path = "sync" /\ ~edited =>
        /\ desired.ref = spec.ref /\ desired.rest = spec.rest
        /\ \A f \in Fields : spec.ref[f] = Nil => desired.arn[f] = spec.arn[f]
        /\ \A k \in Keys \ (AwsKeys \cup SystemTags) : desired.tags[k] = spec.tags[k]

ReconInv == TypeInv /\ PathInv /\ CheckInv /\ OfferInv /\ CopyInv /\ SuccessMeansApplied

(* A worker that is idle has nothing to show for.                          *)
LEMMA IdleRecon ==
  ASSUME pc = "idle"
  PROVE  PathInv /\ CheckInv /\ OfferInv /\ CopyInv /\ SuccessMeansApplied
  BY DEF PathInv, CheckInv, OfferInv, CopyInv, SuccessMeansApplied

LEMMA StopRecon ==
  ASSUME Stop \/ StopUnmanaged
  PROVE  (PathInv /\ CheckInv /\ OfferInv /\ CopyInv /\ SuccessMeansApplied)'
  BY DEF Stop, StopUnmanaged, Idle, PathInv, CheckInv, OfferInv, CopyInv, SuccessMeansApplied

LEMMA ReconEnvironment ==
  ASSUME ReconInv, Environment
  PROVE  (PathInv /\ CheckInv /\ OfferInv /\ CopyInv /\ SuccessMeansApplied)'
  <1> USE DEF ReconInv, worker
  <1>1. ASSUME NEW s \in Specs, CreateCR(s) \/ EditSpec(s)
        PROVE  (PathInv /\ CheckInv /\ OfferInv /\ CopyInv /\ SuccessMeansApplied)'
    BY <1>1 DEF CreateCR, EditSpec, PathInv, CheckInv, OfferInv, Offered, CopyInv,
                SuccessMeansApplied
  <1>2. ASSUME DeleteCR
        PROVE  (PathInv /\ CheckInv /\ OfferInv /\ CopyInv /\ SuccessMeansApplied)'
    BY <1>2 DEF DeleteCR, history, PathInv, CheckInv, OfferInv, Offered, CopyInv,
                SuccessMeansApplied
  <1>3. ASSUME NEW f \in Fields, NEW s \in RefWorlds, ChangeRef(f, s)
        PROVE  (PathInv /\ CheckInv /\ OfferInv /\ CopyInv /\ SuccessMeansApplied)'
    <2>1. CASE pc = "idle"
      BY <1>3, <2>1 DEF ChangeRef, PathInv, CheckInv, OfferInv, CopyInv, SuccessMeansApplied
    <2>2. CASE pc # "idle"
      <3>1. \A g \in Fields : seen[g] \subseteq seen'[g] /\ refs'[g] \in seen'[g]
        BY <1>3, <2>2 DEF ChangeRef, TypeInv, TypeOK, OfferInv
      <3>2. \A g \in Fields : Offered(g) => Offered(g)'
        BY <1>3, <3>1 DEF ChangeRef, Offered
      <3>3. OfferInv'
        BY <1>3, <3>1, <3>2 DEF ChangeRef, OfferInv, Fields
      <3>4. (PathInv /\ CheckInv /\ CopyInv /\ SuccessMeansApplied)'
        BY <1>3 DEF ChangeRef, cr, PathInv, CheckInv, CopyInv, SuccessMeansApplied
      <3> QED
        BY <3>3, <3>4
    <2> QED
      BY <2>1, <2>2
  <1>4. ASSUME NEW a \in OutsideStreams \cup {None}, OutsideChange(a)
        PROVE  (PathInv /\ CheckInv /\ OfferInv /\ CopyInv /\ SuccessMeansApplied)'
    BY <1>4 DEF OutsideChange, cr, PathInv, CheckInv, OfferInv, Offered, CopyInv,
                SuccessMeansApplied
  <1>5. ASSUME Crash
        PROVE  (PathInv /\ CheckInv /\ OfferInv /\ CopyInv /\ SuccessMeansApplied)'
    BY <1>5, StopRecon DEF Crash
  <1> QED
    BY <1>1, <1>2, <1>3, <1>4, <1>5 DEF Environment

LEMMA ReconBegin ==
  ASSUME ReconInv, Begin
  PROVE  (PathInv /\ CheckInv /\ OfferInv /\ CopyInv /\ SuccessMeansApplied)'
  <1> USE DEF ReconInv, cr
  <1>1. \A f \in Fields : refs'[f] \in seen'[f]
    BY DEF Begin
  <1>2. CASE crState = "deleting"
    BY <1>1, <1>2 DEF Begin, PathInv, CheckInv, OfferInv, CopyInv, SuccessMeansApplied
  <1>3. CASE crState # "deleting"
    <2>1. pc' = "firehose" /\ path' = "sync" /\ desired' = spec /\ UNCHANGED spec
          /\ invalid' = ValidationError(spec)
      BY <1>3 DEF Begin
    <2> QED
      BY <1>1, <2>1 DEF PathInv, CheckInv, ValidationError, OfferInv, CopyInv,
                        SuccessMeansApplied
  <1> QED
    BY <1>2, <1>3

(* A field that was resolved has an ARN that its CR now offers.            *)
LEMMA ResolvedIsOffered ==
  ASSUME ReconInv, pc # "idle", NEW f \in Fields, Resolves(f), desired.ref[f] = "named"
  PROVE  \E s \in seen[f] :
            s.exists /\ s.synced /\ ~s.terminal /\ s.arn = ResolvedArn(f)
  <1>1. HasReference(desired, f) /\ Referenced(refs[f]) /\ refs[f] \in seen[f]
    <2>1. "named" # Nil
      BY NilRefAssumption
    <2> QED
      BY <2>1 DEF HasReference, Resolves, Resolvable, ReconInv, OfferInv
  <1> QED
    BY <1>1 DEF Referenced, ResolvedArn

LEMMA ReconResolveFirehose ==
  ASSUME ReconInv, ResolveFirehose
  PROVE  (PathInv /\ CheckInv /\ OfferInv /\ CopyInv /\ SuccessMeansApplied)'
  <1> USE DEF ReconInv, cr
  <1>1. CASE ResolveFails("FirehoseARN")
    BY <1>1, StopRecon DEF ResolveFails
  <1>2. CASE ~ResolveFails("FirehoseARN")
    <2> DEFINE F == "FirehoseARN"
    <2>1. /\ pc = "firehose" /\ Resolves(F) /\ pc' = "role"
          /\ desired' = [desired EXCEPT !.arn[F] = ResolvedArn(F)]
          /\ UNCHANGED <<path, invalid, seen, refs, spec, edited>>
      BY <1>2 DEF ResolveFirehose
    <2>2. F \in Fields /\ desired \in Object
      BY <2>1 DEF Fields, TypeInv, HandInv
    <2>3. /\ desired'.ref = desired.ref /\ desired'.rest = desired.rest
          /\ desired'.tags = desired.tags
          /\ desired'.arn[F] = ResolvedArn(F)
          /\ \A g \in Fields \ {F} : desired'.arn[g] = desired.arn[g]
      BY <2>1, <2>2 DEF Object
    <2>4. Offered(F)'
      BY <2>1, <2>2, <2>3, ResolvedIsOffered DEF Offered
    <2>5. OfferInv'
      BY <2>1, <2>4 DEF OfferInv
    <2>6. PathInv' /\ CheckInv' /\ SuccessMeansApplied'
      BY <2>1 DEF PathInv, CheckInv, ValidationError, SuccessMeansApplied
    <2>7. CopyInv'
      <3>1. CASE spec.ref[F] = Nil /\ ~edited
        BY <3>1, <2>1, <2>2, <2>3 DEF CopyInv, PathInv, ResolvedArn, HasReference
      <3>2. CASE spec.ref[F] # Nil \/ edited
        BY <3>2, <2>1, <2>2, <2>3 DEF CopyInv, PathInv
      <3> QED
        BY <3>1, <3>2
    <2> QED
      BY <2>5, <2>6, <2>7
  <1> QED
    BY <1>1, <1>2

LEMMA ReconResolveRole ==
  ASSUME ReconInv, ResolveRole
  PROVE  (PathInv /\ CheckInv /\ OfferInv /\ CopyInv /\ SuccessMeansApplied)'
  <1> USE DEF ReconInv, cr
  <1>1. CASE ResolveFails("RoleARN") \/ Stop
    BY <1>1, StopRecon DEF ResolveFails
  <1>2. CASE ~invalid /\ RoleResolved
    <2> DEFINE F == "RoleARN"
    <2>1. /\ pc = "role" /\ Resolves(F) /\ pc' = "get" /\ ~invalid
          /\ desired' = [desired EXCEPT !.arn[F] = ResolvedArn(F),
                                        !.tags = EnsureTags(desired.tags, DefaultTags)]
          /\ UNCHANGED <<path, seen, refs, spec, edited>>
      BY <1>2 DEF ResolveRole, RoleResolved
    <2>2. F \in Fields /\ desired \in Object
      BY <2>1 DEF Fields, TypeInv, HandInv
    <2>3. /\ desired'.ref = desired.ref /\ desired'.rest = desired.rest
          /\ desired'.tags = EnsureTags(desired.tags, DefaultTags)
          /\ desired'.arn[F] = ResolvedArn(F)
          /\ \A g \in Fields \ {F} : desired'.arn[g] = desired.arn[g]
      BY <2>1, <2>2 DEF Object
    <2>4. Offered(F)'
      BY <2>1, <2>2, <2>3, ResolvedIsOffered DEF Offered
    <2>5. Offered("FirehoseARN")'
      BY <2>1, <2>3 DEF Offered, OfferInv, Fields
    <2>6. OfferInv'
      BY <2>1, <2>4, <2>5 DEF OfferInv, Fields
    <2>7. PathInv' /\ CheckInv' /\ SuccessMeansApplied'
      BY <2>1 DEF PathInv, CheckInv, ValidationError, SuccessMeansApplied
    <2>8. \A k \in Keys \ (AwsKeys \cup SystemTags) : desired'.tags[k] = desired.tags[k]
      BY <2>2, <2>3, UserTagsWin, ObjectFields, DefaultTagsAssumption DEF SystemTags, KeysOf
    <2>9. CopyInv'
      <3>1. CASE spec.ref[F] = Nil /\ ~edited
        BY <3>1, <2>1, <2>2, <2>3, <2>8
           DEF CopyInv, PathInv, ResolvedArn, HasReference, SystemTags
      <3>2. CASE spec.ref[F] # Nil \/ edited
        BY <3>2, <2>1, <2>2, <2>3, <2>8 DEF CopyInv, PathInv, SystemTags
      <3> QED
        BY <3>1, <3>2
    <2> QED
      BY <2>6, <2>7, <2>9
  <1> QED
    BY <1>1, <1>2 DEF ResolveRole

LEMMA ReconGetMetricStream ==
  ASSUME ReconInv, GetMetricStream
  PROVE  (PathInv /\ CheckInv /\ OfferInv /\ CopyInv /\ SuccessMeansApplied)'
  <1> USE DEF ReconInv, cr
  <1>0. pc = "get" /\ desired \in Object /\ path \in {"sync", "delete"}
        /\ stream \in Stream \cup {None}
        /\ UNCHANGED <<spec, refs, stream, edited, interfered>>
    BY DEF GetMetricStream, TypeInv, TypeOK, HandInv
  <1>1. CASE Stop \/ StopUnmanaged
    BY <1>1, StopRecon
  <1>2. CASE stream = None /\ Goto(IF path = "delete" THEN "unmanage" ELSE "manage")
    <2>1. CASE path = "delete"
      BY <1>0, <1>2, <2>1
         DEF Goto, PathInv, CheckInv, OfferInv, CopyInv, SuccessMeansApplied
    <2>2. CASE path = "sync"
      BY <1>0, <1>2, <2>2
         DEF Goto, PathInv, CheckInv, ValidationError, OfferInv, Offered, CopyInv,
             SuccessMeansApplied
    <2> QED
      BY <1>0, <2>1, <2>2
  <1>3. CASE /\ stream # None
             /\ latest' = [desired EXCEPT !.arn = stream.arn, !.rest = stream.rest]
             /\ desired' = [desired EXCEPT !.tags = MirrorAWSTags(@, latest'.tags)]
             /\ pc' = CASE path = "delete" -> "delete"
                        [] path = "sync" ->
                             IF Delta(desired', latest') THEN "put" ELSE "patch"
             /\ UNCHANGED <<path, invalid, seen, halted, used>>
    <2>1. /\ desired'.ref = desired.ref /\ desired'.rest = desired.rest
          /\ desired'.arn = desired.arn
          /\ desired'.tags = MirrorAWSTags(desired.tags, latest'.tags)
      BY <1>0, <1>3 DEF Object
    <2>2. latest'.arn = stream.arn /\ latest'.rest = stream.rest /\ latest'.tags = desired.tags
      BY <1>0, <1>3 DEF Object
    <2>3. \A k \in Keys \ (AwsKeys \cup SystemTags) : desired'.tags[k] = desired.tags[k]
      BY <1>0, <2>1, <2>2, MirrorEffect, ObjectFields
    <2>4. CASE path = "delete"
      BY <1>0, <1>3, <2>4 DEF PathInv, CheckInv, OfferInv, CopyInv, SuccessMeansApplied
    <2>5. CASE path = "sync"
      <3>1. pc' \in {"put", "patch"}
        BY <1>3, <2>5
      <3>2. PathInv' /\ CheckInv'
        BY <1>0, <1>3, <2>5, <3>1 DEF PathInv, CheckInv, ValidationError
      <3>3. OfferInv'
        BY <1>0, <1>3, <2>1, <2>5, <3>1 DEF OfferInv, Offered
      <3>4. CopyInv'
        BY <1>0, <1>3, <2>1, <2>3, <2>5, <3>1 DEF CopyInv, SystemTags
      <3>5. SuccessMeansApplied'
        <4>1. pc' = "patch" => ~Delta(desired', latest')
          BY <1>3, <2>5
        <4> QED
          BY <1>0, <1>3, <2>2, <4>1 DEF SuccessMeansApplied, Delta
      <3> QED
        BY <3>2, <3>3, <3>4, <3>5
    <2> QED
      BY <1>0, <2>4, <2>5
  <1> QED
    BY <1>1, <1>2, <1>3 DEF GetMetricStream

(* Create and Update: if they go on, the stream is what was put.           *)
LEMMA ReconPuts ==
  ASSUME ReconInv, pc \in {"create", "put"}, Puts(desired), Goto("patch"),
         UNCHANGED <<spec, refs, edited, interfered>>
  PROVE  (PathInv /\ CheckInv /\ OfferInv /\ CopyInv /\ SuccessMeansApplied)'
  <1> USE DEF ReconInv
  <1>1. stream' # None /\ stream'.arn = desired.arn /\ stream'.rest = desired.rest
    <2>1. desired \in Object /\ stream \in Stream \cup {None}
      BY DEF TypeInv, TypeOK, HandInv
    <2>2. stream' \in Stream
      BY <2>1, PutsType
    <2>3. stream' # None
      BY <2>2, NoneAssumption
    <2> QED
      BY <2>3 DEF Puts
  <1>2. SuccessMeansApplied'
    BY <1>1 DEF Goto, SuccessMeansApplied
  <1>3. PathInv' /\ CheckInv' /\ OfferInv' /\ CopyInv'
    BY DEF Goto, PathInv, CheckInv, ValidationError, OfferInv, CopyInv, SystemTags
  <1> QED
    BY <1>2, <1>3

LEMMA ReconCalls ==
  ASSUME ReconInv, Manage \/ Create \/ Update \/ PatchCR \/ Delete \/ Unmanage
  PROVE  (PathInv /\ CheckInv /\ OfferInv /\ CopyInv /\ SuccessMeansApplied)'
  <1> USE DEF ReconInv, cr
  <1>1. CASE Stop
    BY <1>1, StopRecon
  <1>2. CASE Manage /\ Goto("create")
    BY <1>2 DEF Manage, Goto, PathInv, CheckInv, ValidationError, OfferInv, Offered,
                CopyInv, SystemTags, SuccessMeansApplied
  <1>3. CASE (Create \/ Update) /\ Puts(desired) /\ Goto("patch")
    BY <1>3, ReconPuts DEF Create, Update
  <1>4. CASE Delete /\ Goto("unmanage")
    BY <1>4 DEF Delete, Goto, PathInv, CheckInv, OfferInv, CopyInv, SuccessMeansApplied
  <1> QED
    BY <1>1, <1>2, <1>3, <1>4
       DEF Manage, Create, CreateFails, Update, PatchCR, Delete, Unmanage

LEMMA ReconInit == Init => ReconInv
  <1>1. Init => TypeInv
    BY TypeInit
  <1>2. Init => pc = "idle"
    BY DEF Init
  <1> QED
    BY <1>1, <1>2, IdleRecon DEF ReconInv

LEMMA ReconNext == ReconInv /\ [Next]_vars => ReconInv'
  <1> SUFFICES ASSUME ReconInv, [Next]_vars PROVE ReconInv'
    OBVIOUS
  <1>1. TypeInv'
    BY TypeNext DEF ReconInv
  <1>2. (PathInv /\ CheckInv /\ OfferInv /\ CopyInv /\ SuccessMeansApplied)'
    <2>1. CASE Environment
      BY <2>1, ReconEnvironment
    <2>2. CASE Worker
      BY <2>2, ReconBegin, ReconResolveFirehose, ReconResolveRole, ReconGetMetricStream,
         ReconCalls DEF Worker
    <2>3. CASE UNCHANGED vars
      BY <2>3 DEF vars, cr, worker, history, ReconInv, PathInv, CheckInv, ValidationError,
                  OfferInv, Offered, CopyInv, SuccessMeansApplied
    <2> QED
      BY <2>1, <2>2, <2>3 DEF Next
  <1> QED
    BY <1>1, <1>2 DEF ReconInv

LEMMA Reconciled == Spec => []ReconInv
  BY ReconInit, ReconNext, PTL DEF Spec

(* No ARN is sent for a reference but one that its CR offered, existing,   *)
(* synced and not terminal, during this reconciliation.                    *)
THEOREM SentArnsWereOffered == Spec => []ArnsWereOffered
  <1>1. ReconInv => ArnsWereOffered
    BY DEF ReconInv, PathInv, OfferInv, Offered, ArnsWereOffered
  <1> QED
    BY <1>1, Reconciled, PTL

(* Success means that the stream is what was asked for.                    *)
THEOREM StreamSuccessIsApplied == Spec => []SuccessMeansApplied
  <1>1. ReconInv => SuccessMeansApplied
    BY DEF ReconInv
  <1> QED
    BY <1>1, Reconciled, PTL

(* A spec that validateReferenceFields rejects changes no stream.          *)
THEOREM RejectedReferencesAreInert == Spec => RejectedSpecsAreInert
  <1>1. ReconInv /\ [Next]_vars =>
          [Worker /\ path = "sync" /\ desired # None /\ ~edited /\ ValidationError(spec)
             => stream' = stream]_vars
    <2> SUFFICES ASSUME ReconInv, Worker, path = "sync", ~edited, ValidationError(spec)
                 PROVE  stream' = stream
      OBVIOUS
    <2>1. pc \notin {"create", "put", "delete"}
      BY DEF ReconInv, CheckInv, PathInv
    <2> QED
      BY <2>1 DEF Worker, Begin, ResolveFirehose, ResolveRole, GetMetricStream, Manage,
                  Create, Update, PatchCR, Delete, Unmanage
  <1> QED
    BY <1>1, Reconciled, PTL DEF Spec, RejectedSpecsAreInert

(* The patch of the CR leaves the user's part of the spec alone.           *)
LEMMA PatchKeepsSpec ==
  ASSUME ReconInv, PatchCR
  PROVE  /\ spec'.ref = spec.ref /\ spec'.arn = spec.arn /\ spec'.rest = spec.rest
         /\ \A k \in Keys : spec'.tags[k] # spec.tags[k] =>
               spec'.tags[k] = Absent /\ k \in AwsKeys \cup SystemTags
  <1> DEFINE c == ClearResolvedReferences(desired)
             patched == [c EXCEPT !.tags = FilterSystemTags(@, SystemTags)]
  <1>1. CASE spec' = spec
    BY <1>1
  <1>2. CASE spec' = patched /\ ~edited
    <2>1. pc = "patch" /\ path = "sync" /\ desired \in Object /\ spec \in Object
      BY DEF PatchCR, ReconInv, TypeInv, TypeOK, HandInv, PathInv
    <2>2. /\ c \in Object /\ c.ref = desired.ref /\ c.rest = desired.rest
          /\ c.tags = desired.tags
          /\ \A f \in Fields : c.arn[f] = IF desired.ref[f] # Nil THEN Nil ELSE desired.arn[f]
      BY <2>1, ClearType
    <2> HIDE DEF c
    <2>3. /\ spec'.ref = c.ref /\ spec'.arn = c.arn /\ spec'.rest = c.rest
          /\ spec'.tags = FilterSystemTags(desired.tags, SystemTags)
      BY <1>2, <2>2 DEF Object
    <2>4. /\ desired.ref = spec.ref /\ desired.rest = spec.rest
          /\ \A f \in Fields : spec.ref[f] = Nil => desired.arn[f] = spec.arn[f]
          /\ \A k \in Keys \ (AwsKeys \cup SystemTags) : desired.tags[k] = spec.tags[k]
      BY <1>2, <2>1 DEF ReconInv, CopyInv
    <2>5. \A f \in Fields : spec.ref[f] # Nil => spec.arn[f] = Nil
      BY <1>2, <2>1 DEF ReconInv, CheckInv, ValidationError
    <2>6. spec'.arn = spec.arn
      <3>1. c.arn \in [Fields -> Arns \cup {Nil}] /\ spec.arn \in [Fields -> Arns \cup {Nil}]
        BY <2>1, <2>2, ObjectFields
      <3>2. \A f \in Fields : c.arn[f] = spec.arn[f]
        BY <2>2, <2>4, <2>5
      <3> QED
        BY <2>3, <3>1, <3>2
    <2>7. ASSUME NEW k \in Keys, spec'.tags[k] # spec.tags[k]
          PROVE  spec'.tags[k] = Absent /\ k \in AwsKeys \cup SystemTags
      BY <2>3, <2>4, <2>7 DEF FilterSystemTags, IgnoreSystemTags
    <2> QED
      BY <2>2, <2>3, <2>4, <2>6, <2>7
  <1> QED
    BY <1>1, <1>2 DEF PatchCR

(* The controller writes no resolved ARN, no field and no tag into the     *)
(* spec of a CR.                                                           *)
THEOREM StreamSpecIsTheUsers == Spec => SpecStaysUsers
  <1>1. ReconInv /\ [Next]_vars =>
          [Worker => /\ spec'.ref = spec.ref /\ spec'.arn = spec.arn
                     /\ spec'.rest = spec.rest
                     /\ \A k \in Keys : spec'.tags[k] # spec.tags[k] =>
                           spec'.tags[k] = Absent /\ k \in AwsKeys \cup SystemTags]_vars
    <2> SUFFICES ASSUME ReconInv, Worker
                 PROVE  /\ spec'.ref = spec.ref /\ spec'.arn = spec.arn
                        /\ spec'.rest = spec.rest
                        /\ \A k \in Keys : spec'.tags[k] # spec.tags[k] =>
                              spec'.tags[k] = Absent /\ k \in AwsKeys \cup SystemTags
      OBVIOUS
    <2>1. PatchCR \/ UNCHANGED spec
      BY DEF Worker, Begin, ResolveFirehose, ResolveRole, GetMetricStream, Manage,
             Create, Update, Delete, Unmanage, cr
    <2> QED
      BY <2>1, PatchKeepsSpec
  <1> QED
    BY <1>1, Reconciled, PTL DEF Spec, SpecStaysUsers

-----------------------------------------------------------------------------
(* MetricStream implements ManagedResource.  What the finalizer stands     *)
(* for, and what the worker has not in hand.                               *)
DutyInv ==
    /\ finalizer => crState # "absent"
    /\ crState = "deleting" => finalizer
    /\ pc \in {"create", "put", "patch", "delete"} => finalizer
    /\ pc # "idle" /\ path = "delete" => crState = "deleting"
    /\ pc \in {"idle", "firehose", "role", "get", "manage", "create"} => latest = None

LEMMA DutyNext ==
  ASSUME TypeInv, PathInv, DutyInv, [Next]_vars PROVE DutyInv'
  <1> USE DEF cr, worker, history
  <1>0. ASSUME Stop \/ StopUnmanaged,
               \/ UNCHANGED <<crState, finalizer>>
               \/ /\ finalizer' = FALSE
                  /\ crState' = IF crState = "deleting" THEN "absent" ELSE crState
               \/ finalizer' = FALSE /\ crState' = "absent"
        PROVE  DutyInv'
    BY <1>0 DEF DutyInv, Stop, StopUnmanaged, Idle
  <1>1. CASE Environment
    BY <1>1 DEF Environment, CreateCR, EditSpec, DeleteCR, ChangeRef, OutsideChange, Crash,
                Stop, Idle, DutyInv
  <1>2. CASE Begin
    BY <1>2 DEF Begin, DutyInv
  <1>3. CASE ResolveFirehose
    BY <1>0, <1>3 DEF ResolveFirehose, ResolveFails, DutyInv, PathInv
  <1>4. CASE ResolveRole
    BY <1>0, <1>4 DEF ResolveRole, RoleResolved, ResolveFails, DutyInv, PathInv
  <1>5. CASE GetMetricStream
    <2>1. path \in {"sync", "delete"}
      BY DEF TypeInv, TypeOK
    <2>2. CASE Stop \/ StopUnmanaged
      BY <1>0, <1>5, <2>2 DEF GetMetricStream
    <2>3. CASE Goto(IF path = "delete" THEN "unmanage" ELSE "manage")
      BY <1>5, <2>3 DEF GetMetricStream, Goto, DutyInv
    <2>4. CASE /\ finalizer /\ UNCHANGED path
               /\ pc' = CASE path = "delete" -> "delete"
                          [] path = "sync" -> IF Delta(desired', latest') THEN "put" ELSE "patch"
      <3>1. pc' \in {"delete", "put", "patch"}
        BY <2>1, <2>4
      <3> QED
        BY <1>5, <2>4, <3>1 DEF GetMetricStream, DutyInv
    <2> QED
      BY <1>5, <2>2, <2>3, <2>4 DEF GetMetricStream
  <1>6. CASE Manage
    BY <1>0, <1>6 DEF Manage, Goto, DutyInv, PathInv
  <1>7. CASE Create
    BY <1>0, <1>7 DEF Create, CreateFails, Goto, DutyInv, PathInv
  <1>8. CASE Update
    BY <1>0, <1>8 DEF Update, Goto, DutyInv, PathInv
  <1>9. CASE PatchCR
    BY <1>0, <1>9 DEF PatchCR
  <1>10. CASE Delete
    BY <1>0, <1>10 DEF Delete, Goto, DutyInv
  <1>11. CASE Unmanage
    BY <1>0, <1>11 DEF Unmanage
  <1>12. CASE UNCHANGED vars
    BY <1>12 DEF vars, DutyInv
  <1> QED
    BY <1>1, <1>2, <1>3, <1>4, <1>5, <1>6, <1>7, <1>8, <1>9, <1>10, <1>11, <1>12
       DEF Next, Worker

LEMMA OnDuty == Spec => []DutyInv
  <1>1. Init => DutyInv
    BY DEF Init, DutyInv
  <1>2. ReconInv /\ DutyInv /\ [Next]_vars => DutyInv'
    BY DutyNext DEF ReconInv
  <1> QED
    BY <1>1, <1>2, Reconciled, PTL DEF Spec

-----------------------------------------------------------------------------
(* A round for which there was no stream goes on as if there were none;       *)
(* unless others made one since, there is none.                            *)
AbsentInv == pc \in {"manage", "create", "unmanage"} /\ ~interfered => stream = None

LEMMA AbsentNext == TypeInv /\ AbsentInv /\ [Next]_vars => AbsentInv'
  <1> SUFFICES ASSUME TypeInv, AbsentInv, [Next]_vars PROVE AbsentInv'
    OBVIOUS
  <1> USE DEF cr, worker, history
  <1>1. CASE Environment
    BY <1>1 DEF Environment, CreateCR, EditSpec, DeleteCR, ChangeRef, OutsideChange, Crash,
                Stop, Idle,
                AbsentInv
  <1>2. CASE Begin
    BY <1>2 DEF Begin, AbsentInv
  <1>3. CASE ResolveFirehose \/ ResolveRole
    BY <1>3 DEF ResolveFirehose, ResolveRole, RoleResolved, ResolveFails,
                Stop, Idle, AbsentInv
  <1>4. CASE GetMetricStream
    BY <1>4 DEF GetMetricStream, Goto, Stop, StopUnmanaged, Idle, AbsentInv, TypeInv, TypeOK
  <1>5. CASE Manage
    BY <1>5 DEF Manage, Goto, Stop, Idle, AbsentInv
  <1>6. CASE Create
    BY <1>6 DEF Create, CreateFails, Puts, Goto, Stop, Idle, AbsentInv
  <1>7. CASE Update
    BY <1>7 DEF Update, Puts, Goto, Stop, Idle, AbsentInv
  <1>8. CASE PatchCR
    BY <1>8 DEF PatchCR, Stop, Idle, AbsentInv
  <1>9. CASE Delete
    BY <1>9 DEF Delete, Goto, Stop, Idle, AbsentInv
  <1>10. CASE Unmanage
    BY <1>10 DEF Unmanage, Stop, Idle, AbsentInv
  <1>11. CASE UNCHANGED vars
    BY <1>11 DEF vars, AbsentInv
  <1> QED
    BY <1>1, <1>2, <1>3, <1>4, <1>5, <1>6, <1>7, <1>8, <1>9, <1>10, <1>11 DEF Next, Worker

(* The controller's finalizer comes before the stream it makes and goes    *)
(* after it: MarkManaged and MarkUnmanaged find none.                      *)
THEOREM StreamFinalizerGoesLast == Spec => FinalizerGoesLast
  <1>1. Init => AbsentInv
    BY DEF Init, AbsentInv
  <1>2. AbsentInv /\ [Next]_vars =>
          [(Worker /\ finalizer' # finalizer) \/ Create => interfered \/ stream = None]_vars
    <2> SUFFICES ASSUME AbsentInv, (Worker /\ finalizer' # finalizer) \/ Create
                 PROVE  interfered \/ stream = None
      OBVIOUS
    <2>1. Manage \/ Create \/ Unmanage
      BY DEF Worker, Begin, ResolveFirehose, ResolveRole, GetMetricStream, Update, PatchCR, Delete, cr
    <2> QED
      BY <2>1 DEF Manage, Create, Unmanage, AbsentInv
  <1> QED
    BY <1>1, <1>2, AbsentNext, Typed, PTL DEF Spec, FinalizerGoesLast

-----------------------------------------------------------------------------
(* As long as nobody edits the CR, the worker's ARNs are the spec's where  *)
(* there is nothing to resolve, and those that the referenced CRs have as  *)
(* long as these do not change.                                            *)
Kept(f) == ~edited /\ ~HasReference(spec, f) => desired.arn[f] = spec.arn[f]

Fresh(f) ==
    Resolved(f) /\ HasReference(desired, f) /\ seen[f] = {refs[f]} =>
        desired.arn[f] = refs[f].arn

RoundInv == pc # "idle" /\ path = "sync" => \A f \in Fields : Kept(f) /\ Fresh(f)

LEMMA RoundEnvironment ==
  ASSUME ReconInv, RoundInv, Environment PROVE RoundInv'
  <1> USE DEF worker, cr, history
  <1>1. CASE \E s \in Specs : CreateCR(s) \/ EditSpec(s)
    BY <1>1 DEF CreateCR, EditSpec, RoundInv, Kept, Fresh, Resolved
  <1>2. CASE DeleteCR \/ \E a \in OutsideStreams \cup {None} : OutsideChange(a)
    BY <1>2 DEF DeleteCR, OutsideChange, RoundInv, Kept, Fresh, Resolved
  <1>3. ASSUME NEW f \in Fields, NEW s \in RefWorlds, ChangeRef(f, s), pc # "idle"
        PROVE  RoundInv'
    <2>1. \A g \in Fields : refs[g] \in seen[g]
      BY <1>3 DEF ReconInv, OfferInv
    <2>2. \A g \in Fields : seen'[g] = {refs'[g]} => refs'[g] = refs[g] /\ seen[g] = {refs[g]}
      BY <1>3, <2>1 DEF ChangeRef, ReconInv, TypeInv, TypeOK
    <2> QED
      BY <1>3, <2>2 DEF ChangeRef, RoundInv, Kept, Fresh, Resolved
  <1>4. CASE pc' = "idle"
    BY <1>4 DEF RoundInv
  <1> QED
    BY <1>1, <1>2, <1>3, <1>4 DEF Environment, ChangeRef, Crash, Stop, Idle

(* One field resolved, the other untouched.                                *)
LEMMA RoundResolve ==
  ASSUME ReconInv, RoundInv, NEW f \in Fields, Resolves(f), pc # "idle",
         desired'.ref = desired.ref, desired'.arn[f] = ResolvedArn(f),
         \A g \in Fields \ {f} : desired'.arn[g] = desired.arn[g],
         \A g \in Fields \ {f} : Resolved(g)' => Resolved(g),
         UNCHANGED <<path, seen, refs, spec, edited>>
  PROVE  RoundInv'
  <1> SUFFICES ASSUME path = "sync", NEW g \in Fields PROVE Kept(g)' /\ Fresh(g)'
    BY DEF RoundInv
  <1>1. CASE g # f
    BY <1>1 DEF RoundInv, Kept, Fresh, HasReference
  <1>2. CASE g = f
    <2>1. ~edited => desired.ref = spec.ref
      BY DEF ReconInv, CopyInv
    <2> QED
      BY <1>2, <2>1 DEF RoundInv, Kept, Fresh, ResolvedArn, HasReference
  <1> QED
    BY <1>1, <1>2

LEMMA RoundNext == ReconInv /\ RoundInv /\ [Next]_vars => RoundInv'
  <1> SUFFICES ASSUME ReconInv, RoundInv, [Next]_vars PROVE RoundInv'
    OBVIOUS
  <1>1. CASE Environment
    BY <1>1, RoundEnvironment
  <1>2. CASE Begin
    BY <1>2 DEF Begin, cr, RoundInv, Kept, Fresh, Resolved
  <1>3. CASE ResolveFirehose /\ pc' # "idle"
    <2> DEFINE F == "FirehoseARN"
    <2>1. /\ pc = "firehose" /\ Resolves(F) /\ pc' = "role"
          /\ desired' = [desired EXCEPT !.arn[F] = ResolvedArn(F)]
          /\ UNCHANGED <<path, seen, refs, spec, edited>>
      BY <1>3 DEF ResolveFirehose, ResolveFails, Stop, Idle, cr
    <2>2. F \in Fields /\ desired \in Object
      BY <2>1 DEF Fields, ReconInv, TypeInv, HandInv
    <2>3. /\ desired'.ref = desired.ref /\ desired'.arn[F] = ResolvedArn(F)
          /\ \A g \in Fields \ {F} : desired'.arn[g] = desired.arn[g]
      BY <2>1, <2>2 DEF Object
    <2>4. \A g \in Fields \ {F} : ~Resolved(g)'
      BY <2>1 DEF Resolved
    <2> QED
      BY <2>1, <2>2, <2>3, <2>4, RoundResolve
  <1>4. CASE ResolveRole /\ pc' # "idle"
    <2> DEFINE F == "RoleARN"
    <2>1. /\ pc = "role" /\ Resolves(F)
          /\ desired' = [desired EXCEPT !.arn[F] = ResolvedArn(F),
                                        !.tags = EnsureTags(desired.tags, DefaultTags)]
          /\ UNCHANGED <<path, seen, refs, spec, edited>>
      BY <1>4 DEF ResolveRole, RoleResolved, ResolveFails, Stop, Idle, cr
    <2>2. F \in Fields /\ desired \in Object
      BY <2>1 DEF Fields, ReconInv, TypeInv, HandInv
    <2>3. /\ desired'.ref = desired.ref /\ desired'.arn[F] = ResolvedArn(F)
          /\ \A g \in Fields \ {F} : desired'.arn[g] = desired.arn[g]
      BY <2>1, <2>2 DEF Object
    <2>4. \A g \in Fields \ {F} : Resolved(g)
      BY <2>1 DEF Resolved, Fields
    <2> QED
      BY <2>1, <2>2, <2>3, <2>4, RoundResolve
  <1>5. CASE GetMetricStream \/ Manage \/ Create \/ Update \/ PatchCR \/ Delete \/ Unmanage
    <2>1. CASE pc' = "idle"
      BY <2>1 DEF RoundInv
    <2>2. CASE pc' # "idle"
      <3>1. /\ pc \notin {"idle", "firehose", "role"} /\ desired \in Object
            /\ UNCHANGED <<path, seen, refs, spec, edited>>
        BY <1>5, <2>2 DEF GetMetricStream, Manage, Create, CreateFails, Update, PatchCR,
           Delete, Unmanage, Goto, Stop, StopUnmanaged, Idle, cr, ReconInv, TypeInv, HandInv
      <3>2. desired' = desired \/ \E t : desired' = [desired EXCEPT !.tags = t]
        BY <1>5, <2>2 DEF GetMetricStream, Manage, Create, CreateFails, Update, PatchCR,
           Delete, Unmanage, Goto, Stop, StopUnmanaged, Idle
      <3>3. desired'.ref = desired.ref /\ desired'.arn = desired.arn
        BY <3>1, <3>2 DEF Object
      <3> QED
        BY <3>1, <3>3 DEF RoundInv, Kept, Fresh, Resolved, HasReference
    <2> QED
      BY <2>1, <2>2
  <1>6. CASE UNCHANGED vars
    BY <1>6 DEF vars, cr, worker, history, RoundInv, Kept, Fresh, Resolved
  <1>7. CASE pc' = "idle"
    BY <1>7 DEF RoundInv
  <1> QED
    BY <1>1, <1>2, <1>3, <1>4, <1>5, <1>6, <1>7 DEF Next, Worker

LEMMA SettledByRound ==
  ASSUME ReconInv, DutyInv, RoundInv, PatchCR, crState = "live", ~edited, ~interfered,
         \A f \in Fields : seen[f] = {refs[f]}
  PROVE  Settled'
  <1>1. pc = "patch" /\ path = "sync" /\ pc' = "idle"
        /\ UNCHANGED <<crState, finalizer, refs, stream>>
    BY DEF PatchCR, Stop, Idle, ReconInv, PathInv
  <1>2. /\ stream # None /\ stream.arn = desired.arn /\ stream.rest = desired.rest
        /\ desired.ref = spec.ref /\ desired.rest = spec.rest
    BY <1>1 DEF ReconInv, SuccessMeansApplied, CopyInv
  <1>3. finalizer
    BY <1>1 DEF DutyInv
  <1>4. \A f \in Fields : stream.arn[f] = WantedArn(f)
    BY <1>1, <1>2 DEF RoundInv, Kept, Fresh, Resolved, WantedArn, HasReference
  <1>5. spec'.ref = spec.ref /\ spec'.arn = spec.arn /\ spec'.rest = spec.rest
    BY PatchKeepsSpec
  <1> QED
    BY <1>1, <1>2, <1>3, <1>4, <1>5 DEF Settled, WantedArn, HasReference

(* A round on a stream as it should be finds nothing to do.                *)
LEMMA SettledByWorker ==
  ASSUME ReconInv, Worker, Settled
  PROVE  Settled' /\ UNCHANGED stream
  <1>1. ASSUME UNCHANGED <<crState, finalizer, refs, stream>>, pc' = "idle",
               spec'.ref = spec.ref, spec'.arn = spec.arn, spec'.rest = spec.rest
        PROVE  Settled' /\ UNCHANGED stream
    BY <1>1 DEF Settled, WantedArn, HasReference
  <1>2. CASE Begin
    BY <1>2 DEF Begin, cr, Settled, WantedArn, Resolved
  <1>3. CASE ResolveFirehose
    <2>1. CASE ResolveFails("FirehoseARN")
      BY <1>1, <1>3, <2>1 DEF ResolveFirehose, ResolveFails, Stop, Idle, cr
    <2>2. CASE ~ResolveFails("FirehoseARN")
      <3> DEFINE F == "FirehoseARN"
      <3>1. /\ pc = "firehose" /\ pc' = "role"
            /\ desired' = [desired EXCEPT !.arn[F] = ResolvedArn(F)]
            /\ UNCHANGED <<cr, path, refs, stream>>
        BY <1>3, <2>2 DEF ResolveFirehose
      <3>2. F \in Fields /\ desired \in Object
        BY <3>1 DEF Fields, ReconInv, TypeInv, HandInv
      <3>3. /\ desired'.ref = desired.ref /\ desired'.rest = desired.rest
            /\ desired'.arn[F] = ResolvedArn(F)
            /\ \A g \in Fields \ {F} : desired'.arn[g] = desired.arn[g]
        BY <3>1, <3>2 DEF Object
      <3>4. ResolvedArn(F) = WantedArn(F)
        BY <3>1, <3>2 DEF Settled, ResolvedArn, WantedArn, HasReference, Resolved
      <3> QED
        BY <3>1, <3>3, <3>4 DEF Settled, WantedArn, Resolved, cr
    <2> QED
      BY <2>1, <2>2
  <1>4. CASE ResolveRole
    <2>1. CASE Stop
      BY <1>1, <1>4, <2>1 DEF ResolveRole, Stop, Idle, cr
    <2>2. CASE RoleResolved
      <3> DEFINE F == "RoleARN"
      <3>1. /\ pc = "role" /\ pc' = "get"
            /\ desired' = [desired EXCEPT !.arn[F] = ResolvedArn(F),
                                          !.tags = EnsureTags(desired.tags, DefaultTags)]
            /\ UNCHANGED <<cr, path, refs, stream>>
        BY <1>4, <2>2 DEF ResolveRole, RoleResolved
      <3>2. F \in Fields /\ desired \in Object
        BY <3>1 DEF Fields, ReconInv, TypeInv, HandInv
      <3>3. /\ desired'.ref = desired.ref /\ desired'.rest = desired.rest
            /\ desired'.arn[F] = ResolvedArn(F)
            /\ \A g \in Fields \ {F} : desired'.arn[g] = desired.arn[g]
        BY <3>1, <3>2 DEF Object
      <3>4. ResolvedArn(F) = WantedArn(F)
        BY <3>1, <3>2 DEF Settled, ResolvedArn, WantedArn, HasReference, Resolved
      <3>5. \A g \in Fields \ {F} : Resolved(g)
        BY <3>1 DEF Resolved, Fields
      <3> QED
        BY <3>1, <3>3, <3>4, <3>5 DEF Settled, WantedArn, Resolved, cr
    <2> QED
      BY <1>4, <2>1, <2>2 DEF ResolveRole, ResolveFails
  <1>5. CASE GetMetricStream
    <2>1. CASE Stop
      BY <1>1, <1>5, <2>1 DEF GetMetricStream, Stop, Idle, cr
    <2>2. CASE ~Stop
      <3>1. /\ pc = "get" /\ path = "sync" /\ stream # None
            /\ latest' = [desired EXCEPT !.arn = stream.arn, !.rest = stream.rest]
            /\ desired' = [desired EXCEPT !.tags = MirrorAWSTags(desired.tags, latest'.tags)]
            /\ pc' = IF Delta(desired', latest') THEN "put" ELSE "patch"
            /\ UNCHANGED <<cr, path, refs, stream>>
        BY <1>5, <2>2 DEF GetMetricStream, Settled
      <3>2. desired \in Object /\ stream \in Stream
        BY <3>1 DEF ReconInv, TypeInv, TypeOK, HandInv
      <3>3. /\ latest'.ref = desired.ref /\ latest'.arn = stream.arn
            /\ latest'.rest = stream.rest /\ latest'.tags = desired.tags
        BY <3>1, <3>2 DEF Object
      <3>4. /\ desired'.ref = desired.ref /\ desired'.arn = desired.arn
            /\ desired'.rest = desired.rest
            /\ desired'.tags = MirrorAWSTags(desired.tags, desired.tags)
        BY <3>1, <3>2, <3>3 DEF Object
      <3>5. MirrorAWSTags(desired.tags, desired.tags) = desired.tags
        <4>1. desired.tags \in TagMap
          BY <3>2, ObjectFields
        <4>2. MirrorAWSTags(desired.tags, desired.tags) \in TagMap
          BY <4>1, TagMapsClosed DEF MirrorAWSTags
        <4>3. \A k \in Keys :
                 MirrorAWSTags(desired.tags, desired.tags)[k] = desired.tags[k]
          BY <4>1, MirrorEffect
        <4> QED
          BY <4>1, <4>2, <4>3 DEF TagMap
      <3>6. desired.arn = stream.arn
        <4>1. \A f \in Fields : desired.arn[f] = stream.arn[f]
          BY <3>1 DEF Settled, Resolved
        <4>2. /\ desired.arn \in [Fields -> Arns \cup {Nil}]
              /\ stream.arn \in [Fields -> Arns \cup {Nil}]
          BY <3>2 DEF Object, Stream
        <4> QED
          BY <4>1, <4>2
      <3>7. desired.rest = stream.rest
        BY <3>1 DEF Settled
      <3>8. pc' = "patch"
        BY <3>1, <3>3, <3>4, <3>5, <3>6, <3>7 DEF Delta
      <3> QED
        BY <3>1, <3>4, <3>8 DEF Settled, WantedArn, Resolved, cr
    <2> QED
      BY <2>1, <2>2
  <1>6. CASE PatchCR
    BY <1>1, <1>6, PatchKeepsSpec DEF PatchCR, Stop, Idle
  <1>7. CASE Manage \/ Create \/ Update \/ Delete \/ Unmanage
    BY <1>7 DEF Manage, Create, Update, Delete, Unmanage, Settled
  <1> QED
    BY <1>2, <1>3, <1>4, <1>5, <1>6, <1>7 DEF Worker

(* The safety half of EventuallyConverges: nothing that the worker itself  *)
(* does ends what a round without disturbance achieved.                    *)
THEOREM StreamStaysSettled == Spec => StaysSettled
  <1>1. Init => RoundInv
    BY DEF Init, RoundInv
  <1>2. ReconInv /\ DutyInv /\ RoundInv /\ [Next]_vars =>
          [/\ PatchCR /\ crState = "live" /\ ~edited /\ ~interfered
                /\ (\A f \in Fields : seen[f] = {refs[f]}) => Settled'
           /\ Worker /\ Settled => Settled' /\ UNCHANGED stream]_vars
    BY SettledByRound, SettledByWorker
  <1> QED
    BY <1>1, <1>2, RoundNext, Reconciled, OnDuty, PTL DEF Spec, StaysSettled

-----------------------------------------------------------------------------
(* The mapped variables at each call.                                      *)
LEMMA PhaseAt ==
  /\ pc \in {"idle", "firehose", "role"} => Phase = "idle"
  /\ pc = "get" => Phase = "asked"
  /\ pc \in {"manage", "create", "unmanage"} => Phase = "absent"
  /\ pc \in {"put", "delete"} => Phase = "present"
  /\ pc = "patch" => Phase = "done"
  BY DEF Phase

LEMMA PhaseAtNext ==
  /\ pc' \in {"idle", "firehose", "role"} => Phase' = "idle"
  /\ pc' = "get" => Phase' = "asked"
  /\ pc' \in {"manage", "create", "unmanage"} => Phase' = "absent"
  /\ pc' \in {"put", "delete"} => Phase' = "present"
  /\ pc' = "patch" => Phase' = "done"
  BY DEF Phase

LEMMA ThingType ==
  /\ \A s \in Stream : Thing(s) \in Things
  /\ \A o \in Object : (\A f \in Fields : o.arn[f] # Nil) => Thing(o) \in Things
  BY DEF Thing, Things, Stream, Object

LEMMA StopMaps ==
  ASSUME Stop \/ StopUnmanaged PROVE Managed!Stop
  <1>1. pc' = "idle" /\ latest' = None
    BY DEF Stop, StopUnmanaged, Idle
  <1> QED
    BY <1>1, PhaseAtNext DEF Claim, Seen, Managed!Stop

LEMMA GivesUp ==
  ASSUME Stop \/ StopUnmanaged, UNCHANGED stream,
         UNCHANGED <<crState, finalizer>> \/ (Phase = "absent" /\ Managed!Release)
  PROVE  Managed!GiveUp
  BY StopMaps DEF Managed!GiveUp, Managed!cr, Actual

LEMMA EnvironmentMaps ==
  ASSUME TypeInv, DutyInv, Environment
  PROVE  Managed!Next \/ UNCHANGED Managed!vars
  <1> USE DEF cr, worker, history, Managed!cr, Managed!vars
  <1>0. ASSUME UNCHANGED <<pc, path, desired, latest>>
        PROVE  UNCHANGED <<Phase, Claim, Seen>>
    BY <1>0 DEF Phase, Claim, Seen, Thing
  <1>1. ASSUME NEW s \in Specs, CreateCR(s) PROVE Managed!CreateCR
    BY <1>0, <1>1 DEF CreateCR, Actual, Managed!CreateCR
  <1>2. ASSUME NEW s \in Specs, EditSpec(s) PROVE UNCHANGED Managed!vars
    BY <1>0, <1>2 DEF EditSpec, Actual
  <1>3. ASSUME DeleteCR PROVE Managed!DeleteCR
    BY <1>0, <1>3 DEF DeleteCR, Actual, Managed!DeleteCR
  <1>4. ASSUME NEW f \in Fields, NEW s \in RefWorlds, ChangeRef(f, s) PROVE UNCHANGED Managed!vars
    BY <1>0, <1>4 DEF ChangeRef, Actual
  <1>5. ASSUME NEW a \in OutsideStreams \cup {None}, OutsideChange(a) PROVE Managed!OutsideChange
    <2>1. Actual' \in Things \cup {None}
      BY <1>5, SpecsAssumption, ThingType DEF OutsideChange, Actual
    <2> QED
      BY <1>0, <1>5, <2>1 DEF OutsideChange, Managed!OutsideChange
  <1>6. ASSUME Crash PROVE Managed!GiveUp
    BY <1>6, GivesUp DEF Crash
  <1> QED
    BY <1>1, <1>2, <1>3, <1>4, <1>5, <1>6 DEF Environment, Managed!Next

(* Nothing is claimed while the references are resolved.                   *)
LEMMA ResolveMaps ==
  ASSUME TypeInv, TypeInv', PathInv, DutyInv, Begin \/ ResolveFirehose \/ ResolveRole
  PROVE  Managed!Next \/ UNCHANGED Managed!vars
  <1> USE DEF cr, worker, history, Managed!cr, Managed!vars
  <1>1. /\ UNCHANGED <<crState, finalizer, stream, Actual>> /\ latest = None
        /\ pc \in {"idle", "firehose", "role"} /\ Phase = "idle" /\ Claim = None /\ Seen = None
    BY PhaseAt DEF Begin, ResolveFirehose, ResolveRole, DutyInv, Claim, Seen, Actual
  <1>2. CASE Stop
    BY <1>1, <1>2, GivesUp DEF Managed!Next
  <1>3. CASE pc' \in {"firehose", "role"} /\ latest' = None
    BY <1>1, <1>3, PhaseAtNext DEF Claim, Seen
  <1>4. CASE pc' = "get" /\ latest' = None
    <2>1. desired' \in Object
      BY <1>4 DEF TypeInv, HandInv
    <2>2. Claim' \in Things \cup {None}
      BY <2>1, ThingType DEF Claim
    <2>3. Seen' = None
      BY <1>4 DEF Seen
    <2> QED
      BY <1>1, <1>4, <2>2, <2>3, PhaseAtNext DEF Managed!Take, Managed!Next
  <1> QED
    BY <1>1, <1>2, <1>3, <1>4 DEF Begin, ResolveFirehose, ResolveRole, RoleResolved, ResolveFails

LEMMA GetMaps ==
  ASSUME TypeInv, TypeInv', DutyInv, GetMetricStream PROVE Managed!Next
  <1> USE DEF cr, worker, history, Managed!cr
  <1>1. pc = "get" /\ Phase = "asked" /\ latest = None /\ desired \in Object
        /\ UNCHANGED <<crState, finalizer, stream, Actual>> /\ path \in {"sync", "delete"}
    BY PhaseAt DEF GetMetricStream, Actual, DutyInv, TypeInv, TypeOK, HandInv
  <1>2. CASE Stop \/ StopUnmanaged
    BY <1>1, <1>2, GivesUp DEF Managed!Next
  <1>3. CASE stream = None /\ Goto(IF path = "delete" THEN "unmanage" ELSE "manage")
    <2>1. pc' \in {"unmanage", "manage"} /\ UNCHANGED <<path, desired, latest>>
      BY <1>3 DEF Goto
    <2>2. Seen' = None /\ Claim' = Claim /\ Actual = None
      BY <1>1, <1>3, <2>1, PhaseAt, PhaseAtNext DEF Seen, Claim, Actual, Thing
    <2> QED
      BY <1>1, <2>1, <2>2, PhaseAtNext DEF Managed!Look, Managed!Next
  <1>4. CASE /\ stream # None /\ UNCHANGED path
             /\ latest' = [desired EXCEPT !.arn = stream.arn, !.rest = stream.rest]
             /\ desired' = [desired EXCEPT !.tags = MirrorAWSTags(@, latest'.tags)]
             /\ pc' = CASE path = "delete" -> "delete"
                        [] path = "sync" -> IF Delta(desired', latest') THEN "put" ELSE "patch"
    <2>1. /\ latest' \in Object /\ latest' # None
          /\ latest'.arn = stream.arn /\ latest'.rest = stream.rest
      <3>1. latest' \in Object
        BY <1>1, <1>4, ReadType
      <3> QED
        BY <1>1, <1>4, <3>1, NoneAssumption DEF Object
    <2>2. desired'.arn = desired.arn /\ desired'.rest = desired.rest
      BY <1>1, <1>4 DEF Object
    <2>3. pc' \in {"put", "patch", "delete"}
          /\ (pc' = "patch" => path = "sync" /\ ~Delta(desired', latest'))
      BY <1>1, <1>4
    <2>4. Actual = Thing(stream) /\ Actual \in Things /\ Actual # None
      BY <1>4, ThingType, NoneAssumption DEF Actual, TypeInv, TypeOK
    <2>5. Seen' = Actual
      BY <2>1, <2>3, <2>4 DEF Seen, Thing
    <2>6. Claim' = Claim
      BY <1>1, <1>4, <2>2, <2>3, PhaseAtNext DEF Claim, Thing
    <2>7. pc' = "patch" => Actual = Claim
      <3> SUFFICES ASSUME pc' = "patch" PROVE Actual = Claim
        OBVIOUS
      <3>1. desired.arn = stream.arn /\ desired.rest = stream.rest
        BY <2>1, <2>2, <2>3 DEF Delta
      <3>2. \A f \in Fields : desired.arn[f] # Nil
        BY <1>4, <3>1, NilArnAssumption DEF TypeInv, TypeOK, Stream
      <3> QED
        BY <1>1, <2>3, <2>4, <3>1, <3>2 DEF Claim, Thing
    <2> QED
      BY <1>1, <2>3, <2>4, <2>5, <2>6, <2>7, PhaseAtNext DEF Managed!Look, Managed!Next
  <1> QED
    BY <1>2, <1>3, <1>4 DEF GetMetricStream

(* A PutMetricStream that is applied, answered or not.                     *)
LEMMA PutsMap ==
  ASSUME TypeInv, PathInv, pc \in {"create", "put"}, Puts(desired)
  PROVE  Claim # None /\ Actual' = Claim
  <1>1. desired \in Object /\ stream \in Stream \cup {None} /\ path = "sync" /\ Phase # "idle"
    BY PhaseAt DEF TypeInv, TypeOK, HandInv, PathInv
  <1>2. \A f \in Fields : desired.arn[f] # Nil
    BY DEF Puts, PutRefused
  <1>3. Claim = Thing(desired) /\ Claim # None
    BY <1>1, <1>2, ThingType, NoneAssumption DEF Claim
  <1>4. stream' \in Stream /\ stream' # None
    BY <1>1, PutsType, NoneAssumption
  <1>5. stream'.arn = desired.arn /\ stream'.rest = desired.rest
    BY DEF Puts
  <1> QED
    BY <1>3, <1>4, <1>5 DEF Actual, Thing

LEMMA WritesMap ==
  ASSUME TypeInv, PathInv, DutyInv, Manage \/ Create \/ Update
  PROVE  Managed!Next
  <1> USE DEF cr, worker, history, Managed!cr
  <1>1. ASSUME NEW next \in {"create", "patch"}, pc \in {"manage", "create", "put"}, Goto(next)
        PROVE  UNCHANGED <<Claim, Seen>>
    BY <1>1, PhaseAt, PhaseAtNext DEF Goto, Claim, Seen, Thing
  <1>2. CASE Manage
    <2>1. CASE Stop /\ UNCHANGED finalizer
      BY <1>2, <2>1, GivesUp DEF Manage, Managed!Next
    <2>2. CASE crState # "absent" /\ finalizer' = TRUE /\ Goto("create")
      BY <1>1, <1>2, <2>2, PhaseAt, PhaseAtNext
         DEF Manage, Goto, Actual, Managed!Manage, Managed!Next
    <2> QED
      BY <1>2, <2>1, <2>2 DEF Manage
  <1>3. CASE Create
    <2>1. pc = "create" /\ finalizer /\ Phase = "absent"
      BY <1>3, PhaseAt DEF Create, DutyInv
    <2>2. CASE Puts(desired) /\ Goto("patch") /\ UNCHANGED <<crState, finalizer>>
      BY <1>1, <2>1, <2>2, PutsMap, PhaseAtNext DEF Goto, Managed!Write, Managed!Next
    <2>3. CreateFails => Managed!Stop /\ (UNCHANGED <<crState, finalizer>> \/ Managed!Release)
      BY <2>1, StopMaps DEF CreateFails, Managed!Release
    <2>4. CASE CreateFails /\ UNCHANGED stream
      BY <2>3, <2>4 DEF Actual, Managed!GiveUp, Managed!Next
    <2>5. CASE CreateFails /\ Puts(desired)
      BY <2>1, <2>3, <2>5, PutsMap DEF Managed!Write, Managed!Next
    <2> QED
      BY <1>3, <2>2, <2>4, <2>5 DEF Create
  <1>4. CASE Update
    <2>1. pc = "put" /\ finalizer /\ Phase = "present" /\ UNCHANGED <<crState, finalizer>>
      BY <1>4, PhaseAt DEF Update, DutyInv
    <2>2. CASE Puts(desired) /\ Goto("patch")
      BY <1>1, <2>1, <2>2, PutsMap, PhaseAtNext DEF Goto, Managed!Write, Managed!Next
    <2>3. CASE Stop /\ UNCHANGED stream
      BY <2>1, <2>3, GivesUp DEF Managed!Next
    <2>4. CASE Stop /\ Puts(desired)
      BY <2>1, <2>4, PutsMap, StopMaps DEF Managed!Write, Managed!Next
    <2> QED
      BY <1>4, <2>2, <2>3, <2>4 DEF Update
  <1> QED
    BY <1>2, <1>3, <1>4

LEMMA EndsMap ==
  ASSUME TypeInv, PathInv, DutyInv, PatchCR \/ Delete \/ Unmanage
  PROVE  Managed!Next
  <1> USE DEF cr, worker, history, Managed!cr
  <1>1. CASE PatchCR
    BY <1>1, GivesUp DEF PatchCR, Managed!Next
  <1>2. CASE Delete
    <2>1. pc = "delete" /\ path = "delete" /\ Phase = "present" /\ crState = "deleting"
          /\ finalizer /\ UNCHANGED <<crState, finalizer>>
      BY <1>2, PhaseAt DEF Delete, DutyInv, PathInv
    <2>2. CASE stream' = None /\ Goto("unmanage")
      <3>1. Seen' = None /\ Claim' = Claim /\ Actual' = None /\ pc' = "unmanage"
        BY <2>1, <2>2 DEF Seen, Claim, Actual, Goto
      <3> QED
        BY <2>1, <3>1, PhaseAtNext DEF Managed!Remove, Managed!Next
    <2>3. CASE Stop /\ stream' = None
      BY <2>1, <2>3, StopMaps DEF Actual, Managed!Remove, Managed!Next
    <2>4. CASE Stop /\ UNCHANGED stream
      BY <2>1, <2>4, GivesUp DEF Managed!Next
    <2> QED
      BY <1>2, <2>2, <2>3, <2>4 DEF Delete
  <1>3. CASE Unmanage
    <2>1. /\ Phase = "absent" /\ UNCHANGED stream /\ crState = "deleting" /\ Stop
          /\ UNCHANGED <<crState, finalizer>> \/ Managed!Release
      BY <1>3, PhaseAt DEF Unmanage, DutyInv, PathInv, Managed!Release
    <2> QED
      BY <2>1, GivesUp DEF Managed!Next
  <1> QED
    BY <1>1, <1>2, <1>3

(* The controller's streams are managed resources, for every set of specs  *)
(* and whatever the referenced CRs do: the finalizer comes before the      *)
(* stream, no stream gets an ARN that is missing or was not resolved in    *)
(* this round, and only a CR that is being deleted takes its stream along. *)
THEOREM StreamIsManaged == Spec => ImplementsManagedResource
  <1>1. Init => Managed!Init
    BY DEF Init, Phase, Claim, Seen, Actual, Managed!Init
  <1>2. ReconInv /\ TypeInv' /\ DutyInv /\ [Next]_vars => [Managed!Next]_(Managed!vars)
    <2>1. UNCHANGED vars => UNCHANGED Managed!vars
      BY DEF vars, cr, worker, Phase, Claim, Seen, Actual, Thing, Managed!vars, Managed!cr
    <2> QED
      BY <2>1, EnvironmentMaps, ResolveMaps, GetMaps, WritesMap, EndsMap
         DEF Next, Worker, ReconInv
  <1> QED
    BY <1>1, <1>2, Typed, Reconciled, OnDuty, PTL
       DEF Spec, ImplementsManagedResource, Managed!Spec
=============================================================================
