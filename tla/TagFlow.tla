------------------------------ MODULE TagFlow ------------------------------
(***************************************************************************)
(* What becomes of the tags of one alarm, as maps, round after round: from *)
(* the CR to CloudWatch (EnsureTags, ReadOne with mirrorAWSTags, syncTags) *)
(* and back to the CR (FilterSystemTags), while AWS services inject aws:   *)
(* tags of their own.  TagLists implements it with the lists of the CR.    *)
(***************************************************************************)
EXTENDS AckTags

CONSTANTS
    DefaultTags,    \* the tags of --resource-tags
    CRTags,         \* the tags CRs have, as maps
    AlarmTags       \* the tags alarms have

ASSUME TagMapsAssumption ==
    DefaultTags \in TagMap /\ CRTags \subseteq TagMap /\ AlarmTags \subseteq TagMap

VARIABLES stage, crTags, desired, latest, alarmTags

tagVars == <<stage, crTags, desired, latest, alarmTags>>

SystemTags == KeysOf(DefaultTags)

TagTypeOK ==
    /\ stage \in {"cr", "ensured", "mirrored", "synced"}
    /\ {crTags, desired, latest, alarmTags} \subseteq TagMap

TagInit ==
    /\ stage = "cr"
    /\ crTags \in CRTags /\ alarmTags \in AlarmTags
    /\ desired = NoTags /\ latest = NoTags

Ensure ==
    /\ stage = "cr" /\ stage' = "ensured"
    /\ desired' = EnsureTags(crTags, DefaultTags)
    /\ UNCHANGED <<crTags, latest, alarmTags>>

(* The tag half of ReadOne.                                                *)
Read ==
    /\ stage = "ensured" /\ stage' = "mirrored"
    /\ latest' = alarmTags
    /\ desired' = MirrorAWSTags(desired, alarmTags)
    /\ UNCHANGED <<crTags, alarmTags>>

(* syncTags: both calls, computed from what was read.                      *)
Sync ==
    /\ stage = "mirrored" /\ stage' = "synced"
    /\ alarmTags' = UntagResource(TagResource(alarmTags, TagsToAdd(desired, latest)),
                                  TagsToRemove(desired, latest))
    /\ UNCHANGED <<crTags, desired, latest>>

(* The patch of the CR's spec with FilterSystemTags applied.               *)
WriteBack ==
    /\ stage = "synced" /\ stage' = "cr"
    /\ crTags' = FilterSystemTags(desired, SystemTags)
    /\ desired' = NoTags /\ latest' = NoTags
    /\ UNCHANGED alarmTags

(* An AWS service sets or takes away its own tag on the alarm.             *)
Inject(k, v) ==
    /\ alarmTags' = [alarmTags EXCEPT ![k] = v]
    /\ UNCHANGED <<stage, crTags, desired, latest>>

TagNext == \/ Ensure \/ Read \/ Sync \/ WriteBack
           \/ \E k \in AwsKeys, v \in Values \cup {Absent} : Inject(k, v)

TagSpec == TagInit /\ [][TagNext]_tagVars

-----------------------------------------------------------------------------
(* syncTags never touches an aws: tag, even one that AWS set, changed or   *)
(* removed after the controller read the tags; the exception is a key that *)
(* the CR itself names and that was absent when read.                      *)
AwsTagsUntouched ==
    [][Sync => \A k \in AwsKeys :
          alarmTags'[k] # alarmTags[k] => latest[k] = Absent /\ crTags[k] # Absent]_tagVars

(* After syncTags every other tag of the alarm is the CR's, or the default *)
(* where the CR is silent, and there is no further one.                    *)
SyncedTagsAreWanted ==
    stage = "synced" =>
        \A k \in Keys \ AwsKeys :
            alarmTags[k] = IF crTags[k] # Absent THEN crTags[k] ELSE DefaultTags[k]

(* What was once written back to the CR holds no system tag and is a fixed *)
(* point: the next round neither changes it nor needs to.                  *)
WriteBackIsStable ==
    [][WriteBack /\ KeysOf(crTags) \cap (AwsKeys \cup SystemTags) = {}
       => crTags' = crTags]_tagVars
=============================================================================
