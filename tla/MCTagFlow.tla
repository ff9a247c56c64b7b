----------------------------- MODULE MCTagFlow -----------------------------
(* TagFlow on every tag map over four keys, two of them aws: keys. *)
EXTENDS TagFlow

CONSTANTS aws1, aws2, ackKey, userKey, v1, v2

MCKeys        == {aws1, aws2, ackKey, userKey}
MCAwsKeys     == {aws1, aws2}
MCValues      == {v1, v2}
MCDefaultTags == [k \in MCKeys |-> IF k = ackKey THEN v1 ELSE Absent]
MCAlarmTags   == {t \in TagMap : t[aws1] # v2 /\ t[aws2] = Absent}
=============================================================================
