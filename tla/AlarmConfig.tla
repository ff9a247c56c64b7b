---------------------------- MODULE AlarmConfig ----------------------------
(***************************************************************************)
(* The non-tag fields of a MetricAlarm spec on their way to CloudWatch and *)
(* back: newCreateRequestPayload / newUpdateRequestPayload (one text in    *)
(* the source), the field copies of sdkFind and newResourceDelta.          *)
(*                                                                         *)
(* Five fields stand for the twenty-five, one per shape of code: an        *)
(* optional field that the service defaults (ActionsEnabled), two integers *)
(* that are int64 in the CR and int32 in the API, one checked before and   *)
(* one after the union (DatapointsToAlarm and Period), a union of two      *)
(* members (EvaluationWindow, the set of the members given, which may be   *)
(* empty, or nil), and all the fields copied as they are (Rest).           *)
(***************************************************************************)
EXTENDS Integers

CONSTANTS
    Nil,                  \* a nil pointer
    MinInt32, MaxInt32,   \* the range of the API's integers
    Rests                 \* the values of the fields copied as they are

ASSUME Int32Assumption ==
    MinInt32 \in Int /\ MaxInt32 \in Int /\ MinInt32 <= MaxInt32
ASSUME NilAssumption == Nil \notin Int
ASSUME NilIsNoBoolean == Nil \notin BOOLEAN

Windows == {"SlidingWindow", "WallClockWindow"}

ASSUME NilIsNoWindow == \A w \in SUBSET Windows : Nil # w

Fields ==
    {"ActionsEnabled", "DatapointsToAlarm", "EvaluationWindow", "Period", "Rest"}

AlarmSpec == [ActionsEnabled    : BOOLEAN \cup {Nil},
              DatapointsToAlarm : Int \cup {Nil},
              EvaluationWindow  : (SUBSET Windows) \cup {Nil},
              Period            : Int \cup {Nil},
              Rest              : Rests]

-----------------------------------------------------------------------------
OutOfRange(n) == n # Nil /\ (n > MaxInt32 \/ n < MinInt32)

(* Go's int32(n): two's-complement truncation.                             *)
ToInt32(n) ==
    IF n = Nil THEN Nil
    ELSE ((n - MinInt32) % (MaxInt32 - MinInt32 + 1)) + MinInt32

(* The first check that fails decides the error: a plain one for a range,  *)
(* an ackerr.TerminalError for a union with two members.                   *)
PayloadError(s) ==
    CASE OutOfRange(s.DatapointsToAlarm) -> "recoverable"
      [] ~OutOfRange(s.DatapointsToAlarm) /\ s.EvaluationWindow = Windows -> "terminal"
      [] OTHER -> IF OutOfRange(s.Period) THEN "recoverable" ELSE "none"

(* A window without a member leaves the union of the request unset.        *)
WindowSent(w) == IF w = {} THEN Nil ELSE w

RequestPayload(s) ==
    [s EXCEPT !.DatapointsToAlarm = ToInt32(@), !.Period = ToInt32(@),
              !.EvaluationWindow = WindowSent(@)]

(* The alarm that a spec or a request asks for: "The default is TRUE" for  *)
(* ActionsEnabled, and a window without a member is none.                  *)
WithDefaults(s) ==
    [s EXCEPT !.ActionsEnabled = IF s.ActionsEnabled = Nil THEN TRUE ELSE @,
              !.EvaluationWindow = WindowSent(@)]

(* newResourceDelta, tags apart: nil against a value is a difference.      *)
Delta(a, b) == {f \in Fields : a[f] # b[f]}
=============================================================================
