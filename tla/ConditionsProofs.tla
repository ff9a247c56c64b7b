-------------------------- MODULE ConditionsProofs --------------------------
(* Proofs about Conditions, for every set of errors and of terminal ones.  *)
EXTENDS Conditions, TLAPS

-----------------------------------------------------------------------------
LEMMA ConditionTypes ==
  /\ NoConds \in Conds
  /\ \A e \in Results : Raised(e) \in Condition
  /\ \A c \in Condition : Cleared(c) \in Condition
  BY DEF NoConds, Conds, Unset, Condition, Results, Raised, Cleared

LEMMA UpdateType ==
  ASSUME NEW c \in Conds, NEW e \in Results PROVE UpdateConditions(c, e) \in Conds
  <1>1. CASE IsTerminal(e)
    BY <1>1, ConditionTypes DEF UpdateConditions, Conds
  <1>2. CASE ~IsTerminal(e)
    <2>1. c.Terminal \in Condition /\ c.Recoverable \in Condition
      BY DEF Conds
    <2>2. /\ Cleared(c.Terminal) \in Condition
          /\ (IF e # NoError THEN Raised(e) ELSE Cleared(c.Recoverable)) \in Condition
      BY <2>1, ConditionTypes
    <2> QED
      BY <1>2, <2>2 DEF UpdateConditions, Conds
  <1> QED
    BY <1>1, <1>2

(* What updateConditions does to any conditions: Terminal is True for a    *)
(* terminal error only, and what it says of the other errors.              *)
LEMMA UpdateEffect ==
  ASSUME NEW c \in Conds, NEW e \in Results
  PROVE  LET u == UpdateConditions(c, e)
         IN  /\ u.Terminal.status = "True" <=> IsTerminal(e)
             /\ ~IsTerminal(e) /\ e = NoError => u.Recoverable.status # "True"
             /\ ~IsTerminal(e) /\ e # NoError => u.Recoverable = Raised(e)
             /\ IsTerminal(e) => u.Recoverable = c.Recoverable
  <1>1. CASE IsTerminal(e)
    BY <1>1 DEF UpdateConditions, Conds, Raised
  <1>2. CASE ~IsTerminal(e)
    BY <1>2 DEF UpdateConditions, Cleared, Unset, Raised
  <1> QED
    BY <1>1, <1>2

LEMMA NoErrorIsNotTerminal == ~IsTerminal(NoError)
  BY ErrorsAssumption DEF IsTerminal

LEMMA AnswerType ==
  ASSUME NEW c \in Conds, NEW e \in Results, Answer(c, e)
  PROVE  /\ latest' \in Conds
         /\ returned' \in Results \cup {TerminalSentinel}
         /\ lastError' \in Results
  BY UpdateType DEF Answer

(* The Answer of any call, whatever conditions it started from.            *)
LEMMA AnswerEffect ==
  ASSUME NEW c \in Conds, NEW e \in Results, Answer(c, e)
  PROVE  StatusTellsTheTruth' /\ ReturnedMatchesStatus'
  <1>1. latest' = UpdateConditions(c, e) /\ lastError' = e
    BY DEF Answer
  <1>2. StatusTellsTheTruth'
    BY <1>1, UpdateEffect, NoErrorIsNotTerminal DEF StatusTellsTheTruth
  <1>3. ReturnedMatchesStatus'
    <2>1. returned' = IF e # NoError /\ latest'.Terminal.status = "True"
                      THEN TerminalSentinel ELSE e
      BY <1>1 DEF Answer
    <2>2. latest'.Terminal.status = "True" => e # NoError
      BY <1>1, UpdateEffect, NoErrorIsNotTerminal
    <2> QED
      BY <2>1, <2>2, SentinelAssumption DEF ReturnedMatchesStatus
  <1> QED
    BY <1>2, <1>3
-----------------------------------------------------------------------------
TypeAndStatus == TypeOK /\ StatusTellsTheTruth /\ ReturnedMatchesStatus

LEMMA StatusInit == Init => TypeAndStatus
  BY ConditionTypes, ErrorsAssumption
  DEF Init, TypeAndStatus, TypeOK, StatusTellsTheTruth, ReturnedMatchesStatus, Results

LEMMA StatusStep ==
  ASSUME TypeAndStatus, Next PROVE TypeAndStatus'
  <1>0. /\ {crConds, desired, latest, NoConds} \subseteq Conds
        /\ lastError \in Results /\ returned \in Results \cup {TerminalSentinel}
        /\ created \in BOOLEAN
    BY ConditionTypes DEF TypeAndStatus, TypeOK
  <1>1. ASSUME pc' # "report", TypeOK' PROVE TypeAndStatus'
    BY <1>1 DEF TypeAndStatus, StatusTellsTheTruth, ReturnedMatchesStatus
  <1>2. ASSUME NEW strip \in BOOLEAN, Begin(strip) PROVE TypeAndStatus'
    BY <1>0, <1>1, <1>2 DEF Begin, TypeOK
  <1>3. ASSUME NEW e \in Results, ReadOne(e) PROVE TypeAndStatus'
    <2>1. Answer(desired, e)
      BY <1>3 DEF ReadOne
    <2>2. TypeOK'
      BY <1>0, <1>3, <2>1, AnswerType DEF ReadOne, TypeOK
    <2> QED
      BY <1>0, <2>1, <2>2, AnswerEffect DEF TypeAndStatus
  <1>4. ASSUME NEW e \in Results, Create(e) PROVE TypeAndStatus'
    <2>1. Answer(desired, e)
      BY <1>4 DEF Create
    <2>2. TypeOK'
      BY <1>0, <1>4, <2>1, AnswerType DEF Create, TypeOK
    <2> QED
      BY <1>0, <2>1, <2>2, AnswerEffect DEF TypeAndStatus
  <1>5. ASSUME NEW e \in Results, Update(e) PROVE TypeAndStatus'
    <2> DEFINE c == IF e = NoError THEN desired ELSE latest
    <2>1. Answer(c, e) /\ c \in Conds
      BY <1>0, <1>5 DEF Update
    <2> HIDE DEF c
    <2>2. TypeOK'
      BY <1>0, <1>5, <2>1, AnswerType DEF Update, TypeOK
    <2> QED
      BY <2>1, <2>2, AnswerEffect DEF TypeAndStatus
  <1>6. ASSUME NEW e \in Results, Delete(e) PROVE TypeAndStatus'
    <2>1. CASE e # NoError
      <3>1. Answer(latest, e)
        BY <1>6, <2>1 DEF Delete
      <3>2. TypeOK'
        BY <1>0, <1>6, <2>1, <3>1, AnswerType DEF Delete, TypeOK
      <3> QED
        BY <1>0, <3>1, <3>2, AnswerEffect DEF TypeAndStatus
    <2>2. CASE e = NoError
      BY <1>0, <1>1, <1>6, <2>2 DEF Delete, TypeOK
    <2> QED
      BY <2>1, <2>2
  <1>7. ASSUME Report PROVE TypeAndStatus'
    BY <1>0, <1>1, <1>7 DEF Report, TypeOK
  <1> QED
    BY <1>2, <1>3, <1>4, <1>5, <1>6, <1>7 DEF Next

LEMMA StatusInvariant == Spec => []TypeAndStatus
  <1>1. TypeAndStatus /\ [Next]_vars => TypeAndStatus'
    <2>1. TypeAndStatus /\ UNCHANGED vars => TypeAndStatus'
      BY DEF TypeAndStatus, TypeOK, StatusTellsTheTruth, ReturnedMatchesStatus, vars
    <2> QED
      BY <2>1, StatusStep
  <1> QED
    BY <1>1, StatusInit, PTL DEF Spec

(* A condition never gets a status or a message of no error.               *)
THEOREM ConditionsTypeCorrect == Spec => []TypeOK
  BY StatusInvariant, PTL DEF TypeAndStatus

(* The conditions a reconciliation reports are true of its last call.      *)
THEOREM StatusIsTruthful == Spec => []StatusTellsTheTruth
  BY StatusInvariant, PTL DEF TypeAndStatus

(* The error returned and the Terminal condition never disagree.           *)
THEOREM ReturnedIsStatus == Spec => []ReturnedMatchesStatus
  BY StatusInvariant, PTL DEF TypeAndStatus

-----------------------------------------------------------------------------
(* The NotFound of ReadOne: the copy of the CR from which Create starts is *)
(* not the one that onError wrote the NotFound on.                         *)
TraceInv ==
    /\ pc # "idle" => desired = NoConds \/ desired = crConds
    /\ created => pc \in {"report", "idle"}
    /\ NotFoundLeavesNoTrace

LEMMA TraceStep ==
  ASSUME TypeAndStatus, TraceInv, Next PROVE TraceInv'
  <1>0. /\ {crConds, desired, latest} \subseteq Conds /\ created \in BOOLEAN
        /\ NotFound # NoError /\ NotFound \in Results
        /\ NoConds.Recoverable.message # NotFound
    BY ErrorsAssumption
    DEF TypeAndStatus, TypeOK, NoConds, Unset, Results
  <1>1. ASSUME NEW strip \in BOOLEAN, Begin(strip) PROVE TraceInv'
    BY <1>1 DEF Begin, TraceInv, NotFoundLeavesNoTrace
  <1>2. ASSUME NEW e \in Results, ReadOne(e) \/ Update(e) PROVE TraceInv'
    <2>1. ~created'
      BY <1>0, <1>2 DEF ReadOne, Update, TraceInv
    <2> QED
      BY <1>2, <2>1 DEF ReadOne, Update, TraceInv, NotFoundLeavesNoTrace
  <1>3. ASSUME NEW e \in Results, Create(e) PROVE TraceInv'
    <2>1. /\ latest' = UpdateConditions(desired, e) /\ lastError' = e
          /\ UNCHANGED <<crConds, desired>> /\ pc = "create" /\ pc' = "report"
      BY <1>3 DEF Create, Answer
    <2>2. desired = NoConds \/ desired = crConds
      BY <2>1 DEF TraceInv
    <2>3. CASE e = NoError
      <3>1. latest' = [Terminal |-> Cleared(desired.Terminal),
                       Recoverable |-> Cleared(desired.Recoverable)]
        BY <2>1, <2>3, NoErrorIsNotTerminal DEF UpdateConditions
      <3>2. latest'.Recoverable.message # NotFound
        BY <1>0, <3>1 DEF Cleared, Unset
      <3> QED
        BY <2>1, <2>2, <3>2 DEF TraceInv, NotFoundLeavesNoTrace
    <2>4. CASE e # NoError /\ ~IsTerminal(e)
      <3>1. latest'.Recoverable = Raised(e)
        BY <1>0, <2>1, <2>4, UpdateEffect
      <3> QED
        BY <2>1, <2>2, <3>1 DEF TraceInv, NotFoundLeavesNoTrace, Raised
    <2>5. CASE IsTerminal(e)
      <3>1. latest'.Recoverable = desired.Recoverable
        BY <1>0, <2>1, <2>5, UpdateEffect
      <3> QED
        BY <1>0, <2>1, <2>2, <3>1 DEF TraceInv, NotFoundLeavesNoTrace
    <2> QED
      BY <2>3, <2>4, <2>5
  <1>4. ASSUME NEW e \in Results, Delete(e) PROVE TraceInv'
    <2>1. pc = "delete" /\ ~created'
      BY <1>0, <1>4 DEF Delete, TraceInv
    <2> QED
      BY <1>4, <2>1 DEF Delete, TraceInv, NotFoundLeavesNoTrace
  <1>5. ASSUME Report PROVE TraceInv'
    BY <1>5 DEF Report, TraceInv, NotFoundLeavesNoTrace
  <1> QED
    BY <1>1, <1>2, <1>3, <1>4, <1>5 DEF Next

(* A created resource does not show the NotFound that led to its creation. *)
THEOREM NoTraceOfNotFound == Spec => []NotFoundLeavesNoTrace
  <1>1. Init => TraceInv
    BY DEF Init, TraceInv, NotFoundLeavesNoTrace
  <1>2. TypeAndStatus /\ TraceInv /\ [Next]_vars => TraceInv'
    <2>1. TraceInv /\ UNCHANGED vars => TraceInv'
      BY DEF TraceInv, NotFoundLeavesNoTrace, vars
    <2> QED
      BY <2>1, TraceStep
  <1> QED
    BY <1>1, <1>2, StatusInvariant, PTL DEF Spec, TraceInv
=============================================================================
