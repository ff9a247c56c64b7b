--------------------------- MODULE MCMetricStream ---------------------------
(* Small instances of MetricStream for TLC. *)
EXTENDS MetricStream

CONSTANTS ackKey, userKey    \* a default-tag key, a user's key
CONSTANTS v1, v2
CONSTANTS a1, a2, a3         \* two ARNs of referenced CRs, one users write

MCKeys        == {ackKey, userKey}
MCDefaultTags == [k \in MCKeys |-> IF k = ackKey THEN v1 ELSE Absent]

Tags(s, u)  == [k \in MCKeys |-> IF k = ackKey THEN s ELSE u]
Both(x, y)  == [f \in Fields |-> IF f = "FirehoseARN" THEN x ELSE y]
O(r, a, rest, t) == [ref |-> r, arn |-> a, rest |-> rest, tags |-> t]

\* references; one reference and one ARN; both for the role; a reference
\* without From and a forbidden one
MCSpecs ==
    {O(Both("named", "named"), Both(Nil, Nil), "r1", Tags(Absent, v1)),
     O(Both("named", Nil), Both(Nil, a3), "r2", Tags(v2, v2)),
     O(Both("named", "named"), Both(Nil, a3), "r1", Tags(Absent, Absent)),
     O(Both("noFrom", "forbidden"), Both(Nil, Nil), "r1", Tags(Absent, Absent))}

MCOutsideStreams ==
    {[arn |-> Both(a3, a1), rest |-> "r2", tags |-> Tags(Absent, v2)]}

Ref(e, t, s, a) == [exists |-> e, terminal |-> t, synced |-> s, arn |-> a]

\* ready with either ARN, not synced, gone
MCRefWorlds ==
    {Ref(TRUE, FALSE, TRUE, a1), Ref(TRUE, FALSE, TRUE, a2),
     Ref(TRUE, FALSE, FALSE, a1), Ref(FALSE, FALSE, FALSE, Nil)}
=============================================================================
