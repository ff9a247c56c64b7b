------------------------------ MODULE AckTags ------------------------------
(***************************************************************************)
(* The tag maps of the controller: acktags.Tags is a map[string]string,    *)
(* here a total function from Keys whose value is Absent where the Go map  *)
(* has no entry.  Map-level operators only; the ordered lists of the CR    *)
(* are in TagLists.                                                        *)
(***************************************************************************)
CONSTANTS
    Keys,         \* the tag keys that occur
    AwsKeys,      \* those that start with "aws:"
    Values,       \* tag values
    Absent        \* no entry for the key

ASSUME AwsKeysAssumption == AwsKeys \subseteq Keys
ASSUME AbsentAssumption  == Absent \notin Values

TagMap == [Keys -> Values \cup {Absent}]

NoTags == [k \in Keys |-> Absent]

KeysOf(tags) == {k \in Keys : tags[k] # Absent}

(* acktags.Merge(a, b) of the runtime, as EnsureTags documents it: the     *)
(* entries of a are kept, those of b are added "without overriding them".  *)
Merge(a, b) == [k \in Keys |-> IF a[k] # Absent THEN a[k] ELSE b[k]]

(* Wrong variants, which the checks must tell from the real operators.    *)
EnsureTagsOverriding(tags, defaultTags) == Merge(defaultTags, tags)
MirrorNothing(desired, latest) == desired
FilterNothing(tags, systemTags) == tags
TagsToAddIfMissing(desired, latest) ==
    [k \in Keys |-> IF latest[k] = Absent THEN desired[k] ELSE Absent]

(* EnsureTags: the controller's default tags join the resource's own.      *)
EnsureTags(tags, defaultTags) == Merge(tags, defaultTags)

(* ignoreSystemTags: drop the aws: keys and the keys of --resource-tags.   *)
IgnoreSystemTags(tags, systemTags) ==
    [k \in Keys |-> IF k \in AwsKeys \cup systemTags THEN Absent ELSE tags[k]]

FilterSystemTags(tags, systemTags) == IgnoreSystemTags(tags, systemTags)

(* syncAWSTags: every aws: entry of b is copied into a.                    *)
SyncAWSTags(a, b) ==
    [k \in Keys |-> IF k \in AwsKeys /\ b[k] # Absent THEN b[k] ELSE a[k]]

(* mirrorAWSTags(a, b): what becomes of the tags of the desired resource.  *)
MirrorAWSTags(desired, latest) == SyncAWSTags(desired, latest)

(* syncTags, the two differences: what to set and what to remove.          *)
TagsToAdd(desired, latest) ==
    [k \in Keys |-> IF desired[k] # latest[k] THEN desired[k] ELSE Absent]

TagsToRemove(desired, latest) == KeysOf(latest) \ KeysOf(desired)

(* The service: TagResource sets entries, UntagResource removes keys.      *)
TagResource(tags, add) == Merge(add, tags)

UntagResource(tags, remove) ==
    [k \in Keys |-> IF k \in remove THEN Absent ELSE tags[k]]
=============================================================================
