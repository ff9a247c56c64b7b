------------------------------ MODULE TagLists ------------------------------
(***************************************************************************)
(* The same rounds on the representation of the CR: Spec.Tags is a list of *)
(* key/value pairs, either of them possibly nil, keys possibly repeated.   *)
(* Every manager method turns the list into a map and back into a list, in *)
(* the order of the keys it had; keys that are new come in the random      *)
(* order of a Go map.  The latest tags are compared as maps only.          *)
(***************************************************************************)
EXTENDS AckTags, SequencesExt

CONSTANTS DefaultTags, AlarmTags,
          TagListsOfUsers,    \* the tag lists users write
          Empty,              \* the empty string, a tag value
          NilPtr              \* a nil *string

VARIABLES stage, list, desiredList, latest, alarmTags

listVars == <<stage, list, desiredList, latest, alarmTags>>

SystemTags == KeysOf(DefaultTags)

Pair == [key : Keys \cup {NilPtr}, value : Values \cup {NilPtr}]

ASSUME KeysAssumption == IsFiniteSet(Keys)
ASSUME NilAssumption == Empty \in Values /\ NilPtr \notin Keys \cup Values
ASSUME TagsAssumption ==
    DefaultTags \in TagMap /\ AlarmTags \subseteq TagMap /\ TagListsOfUsers \subseteq Seq(Pair)

-----------------------------------------------------------------------------
(* convertToOrderedACKTags: the map, in which the last entry of a key wins *)
Entered(result, t) ==
    IF t.key = NilPtr THEN result
    ELSE [result EXCEPT ![t.key] = IF t.value = NilPtr THEN Empty ELSE t.value]

ConvertToACKTags(tags) ==
    LET result[n \in 0..Len(tags)] ==
            IF n = 0 THEN NoTags ELSE Entered(result[n - 1], tags[n])
    IN  result[Len(tags)]

(* ... and the keys in their order, repeated as in the list.  (The nil     *)
(* keys left in here are keys of no map.)                                  *)
KeyOrder(tags) == [i \in DOMAIN tags |-> tags[i].key]

PairsOf(tags, ks) == [i \in DOMAIN ks |-> [key |-> ks[i], value |-> tags[ks[i]]]]

(* Wrong variants of FromACKTags: entries not deleted when used; the new   *)
(* keys forgotten; the order of the Go map.                                *)
FromACKTagsRepeating(tags, keyOrder) ==
    {PairsOf(tags, SelectSeq(keyOrder, LAMBDA k : k \in KeysOf(tags)) \o rest) :
        rest \in SetToSeqs(KeysOf(tags) \ ToSet(keyOrder))}
FromACKTagsForgetting(tags, keyOrder) ==
    {PairsOf(tags, ks) : ks \in SetToSeqs(KeysOf(tags) \cap ToSet(keyOrder))}
FromACKTagsUnordered(tags, keyOrder) ==
    {PairsOf(tags, ks) : ks \in SetToSeqs(KeysOf(tags))}

(* fromACKTags: the keys of keyOrder that are in the map, each once since  *)
(* it is deleted when used, then what is left in any order.                *)
Taken(used, tags, k) ==
    IF k \in KeysOf(tags) \ ToSet(used) THEN Append(used, k) ELSE used

UsedKeys(tags, keyOrder) ==
    LET used[n \in 0..Len(keyOrder)] ==
            IF n = 0 THEN <<>> ELSE Taken(used[n - 1], tags, keyOrder[n])
    IN  used[Len(keyOrder)]

FromACKTags(tags, keyOrder) ==
    {PairsOf(tags, UsedKeys(tags, keyOrder) \o rest) :
        rest \in SetToSeqs(KeysOf(tags) \ ToSet(UsedKeys(tags, keyOrder)))}

-----------------------------------------------------------------------------
ListTypeOK ==
    /\ stage \in {"cr", "ensured", "mirrored", "synced"}
    /\ list \in Seq(Pair) /\ desiredList \in Seq(Pair)
    /\ latest \in TagMap /\ alarmTags \in TagMap

ListInit ==
    /\ stage = "cr"
    /\ list \in TagListsOfUsers /\ alarmTags \in AlarmTags
    /\ desiredList = <<>> /\ latest = NoTags

EnsureList ==
    /\ stage = "cr" /\ stage' = "ensured"
    /\ desiredList' \in
         FromACKTags(EnsureTags(ConvertToACKTags(list), DefaultTags), KeyOrder(list))
    /\ UNCHANGED <<list, latest, alarmTags>>

MirrorList ==
    /\ stage = "ensured" /\ stage' = "mirrored"
    /\ latest' = alarmTags
    /\ desiredList' \in
         FromACKTags(SyncAWSTags(ConvertToACKTags(desiredList), alarmTags),
                     KeyOrder(desiredList))
    /\ UNCHANGED <<list, alarmTags>>

SyncList ==
    /\ stage = "mirrored" /\ stage' = "synced"
    /\ LET d == ConvertToACKTags(desiredList)
       IN  alarmTags' = UntagResource(TagResource(alarmTags, TagsToAdd(d, latest)),
                                      TagsToRemove(d, latest))
    /\ UNCHANGED <<list, desiredList, latest>>

FilterList ==
    /\ stage = "synced" /\ stage' = "cr"
    /\ list' \in
         FromACKTags(IgnoreSystemTags(ConvertToACKTags(desiredList), SystemTags),
                     KeyOrder(desiredList))
    /\ desiredList' = <<>> /\ latest' = NoTags
    /\ UNCHANGED alarmTags

InjectTag(k, v) ==
    /\ alarmTags' = [alarmTags EXCEPT ![k] = v]
    /\ UNCHANGED <<stage, list, desiredList, latest>>

ListNext == \/ EnsureList \/ MirrorList \/ SyncList \/ FilterList
            \/ \E k \in AwsKeys, v \in Values \cup {Absent} : InjectTag(k, v)

ListSpec == ListInit /\ [][ListNext]_listVars

-----------------------------------------------------------------------------
(* The lists implement the maps of TagFlow.                                *)
Flow == INSTANCE TagFlow WITH
            CRTags  <- TagMap,
            crTags  <- ConvertToACKTags(list),
            desired <- ConvertToACKTags(desiredList)

ImplementsTagFlow == Flow!TagSpec

(* What the payloads of PutMetricAlarm copy entry by entry (sdk.go:651-664)*)
(* has no nil key, no nil value and no key twice, whatever the user wrote. *)
PayloadTagsWellFormed ==
    stage # "cr" =>
        /\ \A i \in DOMAIN desiredList : desiredList[i].key # NilPtr
                                         /\ desiredList[i].value # NilPtr
        /\ IsInjective(KeyOrder(desiredList))

(* However Go orders its maps, a list that is already clean is written     *)
(* back as it was: the user's tags are never reordered (no endless patch). *)
Clean(l) == /\ \A i \in DOMAIN l : l[i].key \notin AwsKeys \cup SystemTags \cup {NilPtr}
                                   /\ l[i].value # NilPtr
            /\ IsInjective(KeyOrder(l))

UserOrderKept == [][FilterList /\ Clean(list) => list' = list]_listVars
=============================================================================
