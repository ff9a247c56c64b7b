----------------------------- MODULE MCTagLists -----------------------------
(* TagLists on all tag lists of at most three entries. *)
EXTENDS TagLists

CONSTANTS awsKey, ackKey, userKey, userKey2, v1

MCKeys        == {awsKey, ackKey, userKey, userKey2}
MCAwsKeys     == {awsKey}
MCValues      == {Empty, v1}
MCDefaultTags == [k \in MCKeys |-> IF k = ackKey THEN v1 ELSE Absent]

MCTagListsOfUsers == UNION {[1..n -> Pair] : n \in 0..3}

MCAlarmTags == {[k \in MCKeys |-> Absent],
                [k \in MCKeys |-> IF k = userKey THEN v1 ELSE Empty]}
=============================================================================
