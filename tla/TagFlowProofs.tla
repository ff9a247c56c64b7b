--------------------------- MODULE TagFlowProofs ---------------------------
(* Proofs about TagFlow, for every set of keys, of aws: keys, of values    *)
(* and every default tags.                                                 *)
EXTENDS TagFlow, TLAPS

-----------------------------------------------------------------------------
(* The tag operators.                                                      *)

(* The operators take tag maps to tag maps.                                *)
LEMMA TagMapsClosed ==
  ASSUME NEW a \in TagMap, NEW b \in TagMap, NEW S
  PROVE  /\ Merge(a, b) \in TagMap
         /\ SyncAWSTags(a, b) \in TagMap
         /\ IgnoreSystemTags(a, S) \in TagMap
         /\ TagsToAdd(a, b) \in TagMap
         /\ UntagResource(a, S) \in TagMap
         /\ NoTags \in TagMap
  BY DEF TagMap, Merge, SyncAWSTags, IgnoreSystemTags, TagsToAdd, UntagResource, NoTags

(* What syncTags does to one key of the alarm: where the desired and the   *)
(* latest tags agree it leaves it alone, elsewhere it makes it the desired *)
(* one, whatever the alarm holds by now.                                   *)
LEMMA SyncEffect ==
  ASSUME NEW d \in TagMap, NEW l \in TagMap, NEW a \in TagMap, NEW k \in Keys
  PROVE  UntagResource(TagResource(a, TagsToAdd(d, l)), TagsToRemove(d, l))[k]
           = IF d[k] = l[k] THEN a[k] ELSE d[k]
  BY DEF UntagResource, TagResource, TagsToAdd, TagsToRemove, KeysOf, Merge, TagMap

(* EnsureTags never overrides a tag of the CR, whatever the defaults.      *)
LEMMA UserTagsWin ==
  ASSUME NEW t \in TagMap, NEW d \in TagMap, NEW k \in Keys
  PROVE  EnsureTags(t, d)[k] = IF t[k] # Absent THEN t[k] ELSE d[k]
  BY DEF EnsureTags, Merge

(* mirrorAWSTags changes aws: keys only, and makes each that the alarm has *)
(* the same in both.                                                       *)
LEMMA MirrorEffect ==
  ASSUME NEW d \in TagMap, NEW l \in TagMap, NEW k \in Keys
  PROVE  MirrorAWSTags(d, l)[k] =
           IF k \in AwsKeys /\ l[k] # Absent THEN l[k] ELSE d[k]
  BY DEF MirrorAWSTags, SyncAWSTags


-----------------------------------------------------------------------------
(* Type correctness of the rounds.                                         *)
THEOREM FlowTypeCorrect == TagSpec => []TagTypeOK
  <1>1. TagInit => TagTypeOK
    BY TagMapsAssumption, TagMapsClosed DEF TagInit, TagTypeOK, TagMap, NoTags
  <1>2. TagTypeOK /\ [TagNext]_tagVars => TagTypeOK'
    <2> SUFFICES ASSUME TagTypeOK, [TagNext]_tagVars PROVE TagTypeOK'
      OBVIOUS
    <2>0. /\ stage \in {"cr", "ensured", "mirrored", "synced"}
          /\ crTags \in TagMap /\ desired \in TagMap
          /\ latest \in TagMap /\ alarmTags \in TagMap
      BY DEF TagTypeOK
    <2>1. CASE Ensure
      <3>1. desired' \in TagMap
        BY <2>0, <2>1, TagMapsAssumption, TagMapsClosed DEF Ensure, EnsureTags
      <3> QED
        BY <2>0, <2>1, <3>1 DEF Ensure, TagTypeOK
    <2>2. CASE Read
      <3>1. desired' \in TagMap
        BY <2>0, <2>2, TagMapsClosed DEF Read, MirrorAWSTags
      <3> QED
        BY <2>0, <2>2, <3>1 DEF Read, TagTypeOK
    <2>3. CASE Sync
      <3>1. TagResource(alarmTags, TagsToAdd(desired, latest)) \in TagMap
        BY <2>0, TagMapsClosed DEF TagResource
      <3>2. alarmTags' \in TagMap
        BY <2>3, <3>1, TagMapsClosed DEF Sync
      <3> QED
        BY <2>0, <2>3, <3>2 DEF Sync, TagTypeOK
    <2>4. CASE WriteBack
      <3>1. crTags' \in TagMap /\ NoTags \in TagMap
        BY <2>0, <2>4, TagMapsClosed DEF WriteBack, FilterSystemTags
      <3> QED
        BY <2>0, <2>4, <3>1 DEF WriteBack, TagTypeOK
    <2>5. ASSUME NEW k \in AwsKeys, NEW v \in Values \cup {Absent}, Inject(k, v)
          PROVE  TagTypeOK'
      <3>1. alarmTags' \in TagMap
        BY <2>0, <2>5, AwsKeysAssumption DEF Inject, TagMap
      <3> QED
        BY <2>0, <2>5, <3>1 DEF Inject, TagTypeOK
    <2>6. CASE UNCHANGED tagVars
      BY <2>0, <2>6 DEF tagVars, TagTypeOK
    <2> QED
      BY <2>1, <2>2, <2>3, <2>4, <2>5, <2>6 DEF TagNext
  <1> QED
    BY <1>1, <1>2, PTL DEF TagSpec

-----------------------------------------------------------------------------
(* What desired is at each stage, and that the tags which are not aws:     *)
(* tags stay as they were read until syncTags makes them the desired ones. *)
DesiredInv ==
    /\ stage = "ensured" => desired = EnsureTags(crTags, DefaultTags)
    /\ stage \in {"mirrored", "synced"} =>
           desired = MirrorAWSTags(EnsureTags(crTags, DefaultTags), latest)

OthersInv ==
    \A k \in Keys \ AwsKeys :
        /\ stage = "mirrored" => alarmTags[k] = latest[k]
        /\ stage = "synced" => alarmTags[k] = desired[k]

FlowInv == DesiredInv /\ OthersInv

LEMMA FlowInvariant == TagSpec => []FlowInv
  <1>1. TagInit => FlowInv
    BY DEF TagInit, FlowInv, DesiredInv, OthersInv
  <1>2. TagTypeOK /\ FlowInv /\ [TagNext]_tagVars => FlowInv'
    <2> SUFFICES ASSUME TagTypeOK, FlowInv, [TagNext]_tagVars PROVE FlowInv'
      OBVIOUS
    <2>0. /\ crTags \in TagMap /\ desired \in TagMap
          /\ latest \in TagMap /\ alarmTags \in TagMap
      BY DEF TagTypeOK
    <2>1. CASE Ensure
      BY <2>1 DEF Ensure, FlowInv, DesiredInv, OthersInv
    <2>2. CASE Read
      BY <2>2 DEF Read, FlowInv, DesiredInv, OthersInv
    <2>3. CASE Sync
      <3>1. DesiredInv'
        BY <2>3 DEF Sync, FlowInv, DesiredInv
      <3>2. ASSUME NEW k \in Keys \ AwsKeys PROVE alarmTags'[k] = desired[k]
        <4>1. alarmTags[k] = latest[k]
          BY <2>3 DEF Sync, FlowInv, OthersInv
        <4>2. alarmTags'[k] = IF desired[k] = latest[k] THEN alarmTags[k] ELSE desired[k]
          BY <2>0, <2>3, SyncEffect DEF Sync
        <4> QED
          BY <4>1, <4>2
      <3> QED
        BY <2>3, <3>1, <3>2 DEF Sync, FlowInv, OthersInv
    <2>4. CASE WriteBack
      BY <2>4 DEF WriteBack, FlowInv, DesiredInv, OthersInv
    <2>5. ASSUME NEW k \in AwsKeys, NEW v \in Values \cup {Absent}, Inject(k, v)
          PROVE  FlowInv'
      <3>1. \A j \in Keys \ AwsKeys : alarmTags'[j] = alarmTags[j]
        BY <2>0, <2>5 DEF Inject, TagMap
      <3> QED
        BY <2>5, <3>1 DEF Inject, FlowInv, DesiredInv, OthersInv
    <2>6. CASE UNCHANGED tagVars
      BY <2>6 DEF tagVars, FlowInv, DesiredInv, OthersInv
    <2> QED
      BY <2>1, <2>2, <2>3, <2>4, <2>5, <2>6 DEF TagNext
  <1> QED
    BY <1>1, <1>2, FlowTypeCorrect, PTL DEF TagSpec

(* After syncTags the alarm has the CR's tags and, where the CR is silent, *)
(* the default ones, whatever AWS injected meanwhile.                      *)
THEOREM SyncedTags == TagSpec => []SyncedTagsAreWanted
  <1>1. TagTypeOK /\ FlowInv => SyncedTagsAreWanted
    <2> SUFFICES ASSUME TagTypeOK, FlowInv, stage = "synced", NEW k \in Keys \ AwsKeys
                 PROVE  alarmTags[k] = IF crTags[k] # Absent THEN crTags[k] ELSE DefaultTags[k]
      BY DEF SyncedTagsAreWanted
    <2>1. /\ crTags \in TagMap /\ latest \in TagMap
          /\ EnsureTags(crTags, DefaultTags) \in TagMap
      BY TagMapsAssumption, TagMapsClosed DEF TagTypeOK, EnsureTags
    <2>2. alarmTags[k] = MirrorAWSTags(EnsureTags(crTags, DefaultTags), latest)[k]
      BY DEF FlowInv, DesiredInv, OthersInv
    <2>3. alarmTags[k] = EnsureTags(crTags, DefaultTags)[k]
      BY <2>1, <2>2, MirrorEffect
    <2> QED
      BY <2>1, <2>3, UserTagsWin, TagMapsAssumption
  <1> QED
    BY <1>1, FlowInvariant, FlowTypeCorrect, PTL

(* syncTags changes an aws: tag only if the CR names its key and the alarm *)
(* did not have it when it was read.  The default tags must not be aws:    *)
(* tags, which --resource-tags cannot usefully set.                        *)
THEOREM AwsTagsSafe ==
  ASSUME SystemTags \cap AwsKeys = {}
  PROVE  TagSpec => AwsTagsUntouched
  <1>1. TagTypeOK /\ FlowInv /\ [TagNext]_tagVars =>
          [Sync => \A k \in AwsKeys :
              alarmTags'[k] # alarmTags[k] => latest[k] = Absent /\ crTags[k] # Absent]_tagVars
    <2> SUFFICES ASSUME TagTypeOK, FlowInv, Sync, NEW k \in AwsKeys,
                        alarmTags'[k] # alarmTags[k]
                 PROVE  latest[k] = Absent /\ crTags[k] # Absent
      OBVIOUS
    <2>1. /\ crTags \in TagMap /\ desired \in TagMap
          /\ latest \in TagMap /\ alarmTags \in TagMap /\ k \in Keys
          /\ EnsureTags(crTags, DefaultTags) \in TagMap
      BY TagMapsAssumption, TagMapsClosed, AwsKeysAssumption DEF TagTypeOK, EnsureTags
    <2>2. desired[k] # latest[k]
      BY <2>1, SyncEffect DEF Sync
    <2>3. desired[k] = IF latest[k] # Absent THEN latest[k]
                       ELSE EnsureTags(crTags, DefaultTags)[k]
      BY <2>1, MirrorEffect DEF Sync, FlowInv, DesiredInv
    <2>4. latest[k] = Absent
      BY <2>2, <2>3
    <2>5. DefaultTags[k] = Absent
      BY <2>1 DEF SystemTags, KeysOf
    <2> QED
      BY <2>1, <2>2, <2>3, <2>4, <2>5, UserTagsWin, TagMapsAssumption
  <1> QED
    BY <1>1, FlowInvariant, FlowTypeCorrect, PTL DEF TagSpec, AwsTagsUntouched
(* A CR whose tags hold no system tag is written back as it was: the tags  *)
(* that the controller adds for its own calls never leak into it.          *)
THEOREM WriteBackStable == TagSpec => WriteBackIsStable
  <1>1. TagTypeOK /\ FlowInv /\ [TagNext]_tagVars =>
          [WriteBack /\ KeysOf(crTags) \cap (AwsKeys \cup SystemTags) = {}
           => crTags' = crTags]_tagVars
    <2> SUFFICES ASSUME TagTypeOK, FlowInv, WriteBack,
                        KeysOf(crTags) \cap (AwsKeys \cup SystemTags) = {}
                 PROVE  crTags' = crTags
      OBVIOUS
    <2>1. /\ crTags \in TagMap /\ latest \in TagMap
          /\ EnsureTags(crTags, DefaultTags) \in TagMap
      BY TagMapsAssumption, TagMapsClosed DEF TagTypeOK, EnsureTags
    <2>2. crTags' = [k \in Keys |-> IF k \in AwsKeys \cup SystemTags
                                    THEN Absent ELSE desired[k]]
      BY DEF WriteBack, FilterSystemTags, IgnoreSystemTags
    <2>3. ASSUME NEW k \in AwsKeys \cup SystemTags PROVE crTags[k] = Absent
      BY AwsKeysAssumption DEF KeysOf, SystemTags
    <2>4. ASSUME NEW k \in Keys \ (AwsKeys \cup SystemTags) PROVE desired[k] = crTags[k]
      <3>1. desired = MirrorAWSTags(EnsureTags(crTags, DefaultTags), latest)
        BY DEF WriteBack, FlowInv, DesiredInv
      <3>2. desired[k] = EnsureTags(crTags, DefaultTags)[k]
        BY <2>1, <3>1, MirrorEffect
      <3>3. DefaultTags[k] = Absent
        BY DEF SystemTags, KeysOf
      <3> QED
        BY <2>1, <3>2, <3>3, UserTagsWin, TagMapsAssumption
    <2> QED
      BY <2>1, <2>2, <2>3, <2>4 DEF TagMap
  <1> QED
    BY <1>1, FlowInvariant, FlowTypeCorrect, PTL DEF TagSpec, WriteBackIsStable
=============================================================================
