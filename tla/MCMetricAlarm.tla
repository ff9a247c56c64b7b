--------------------------- MODULE MCMetricAlarm ---------------------------
(* Small instances of MetricAlarm for TLC. *)
EXTENDS MetricAlarm

CONSTANTS awsKey, ackKey, userKey    \* an aws: key, a default-tag key, a user's key
CONSTANTS v1, v2

MCKeys        == {awsKey, ackKey, userKey}
MCAwsKeys     == {awsKey}
MCValues      == {v1, v2}
MCDefaultTags == [k \in MCKeys |-> IF k = ackKey THEN v1 ELSE Absent]
MCRests       == {"r"}
MCMinInt32    == -4

Tags(a, s, u) == [k \in MCKeys |-> CASE k = awsKey -> a [] k = ackKey -> s [] k = userKey -> u]

Config(enabled, window, period) ==
    [ActionsEnabled |-> enabled, DatapointsToAlarm |-> Nil,
     EvaluationWindow |-> window, Period |-> period, Rest |-> "r"]

Plain     == Config(TRUE, {"SlidingWindow"}, 1)
Defaulted == Config(Nil, {}, 1)
TooLong   == Config(TRUE, Nil, MaxInt32 + 1)
TwoOfOne  == Config(TRUE, Windows, 1)

R(c, t) == [config |-> c, tags |-> t]

\* valid and invalid specs; an override of a default tag; a user's aws: tag
MCSpecs ==
    {R(Plain,     Tags(Absent, Absent, v1)),
     R(Defaulted, Tags(Absent, v2, Absent)),
     R(TooLong,   Tags(Absent, Absent, v2)),
     R(TwoOfOne,  Tags(v2, Absent, Absent))}

MCOutsideAlarms ==
    {R(Plain, Tags(v1, Absent, v2)), R(Config(FALSE, Nil, 2), Tags(Absent, v1, v1))}
=============================================================================
