----------------------------- MODULE Conditions -----------------------------
(***************************************************************************)
(* The status conditions of one CR through its reconciliations: the        *)
(* wrappers ReadOne, Create, Update and Delete of manager.go, each of      *)
(* which ends in onError or onSuccess, and updateConditions behind them.   *)
(* The text is the same for the three kinds but for the error codes that   *)
(* terminalAWSError takes for terminal (none but for Dashboard).           *)
(* In which order the reconciler calls the wrappers, and whether it strips *)
(* the conditions first, is external.                                      *)
(***************************************************************************)
CONSTANTS
    Errors,             \* the errors of the SDK calls and payload builders
    TerminalErrors,     \* ackerr.TerminalError, SecretNotFound, ...
    TerminalCodes,      \* AWS errors whose code terminalAWSError knows
    NotFound,           \* ackerr.NotFound, one of the others
    NoError

ASSUME ErrorsAssumption ==
    /\ TerminalErrors \cup TerminalCodes \subseteq Errors
    /\ NotFound \in Errors \ (TerminalErrors \cup TerminalCodes)
    /\ NoError \notin Errors

Results == Errors \cup {NoError}

VARIABLES
    pc,        \* "idle", "read", "create", "update", "delete", "report"
    crConds,   \* the conditions stored in the CR
    desired,   \* those of the reconciler's copy of the CR
    latest,    \* those of the resource the last call returned
    returned,  \* the error the last call returned
    lastError, \* the error of the AWS side of the last call
    created    \* Create was called in this reconciliation

vars == <<pc, crConds, desired, latest, returned, lastError, created>>

\* a condition: whether it is in the list, its status, whose message it shows
Condition == [status : {"unset", "True", "False"}, message : Results]
Conds == [Terminal : Condition, Recoverable : Condition]

Unset   == [status |-> "unset", message |-> NoError]
Cleared(c) == IF c = Unset THEN Unset ELSE [status |-> "False", message |-> NoError]
Raised(e)  == [status |-> "True", message |-> e]
NoConds == [Terminal |-> Unset, Recoverable |-> Unset]

-----------------------------------------------------------------------------
IsTerminal(e) == e \in TerminalErrors \cup TerminalCodes

(* Wrong: Terminal is not cleared when it is no longer present.            *)
UpdateConditionsSticky(c, e) ==
    IF IsTerminal(e) THEN [c EXCEPT !.Terminal = Raised(e)]
    ELSE [c EXCEPT !.Recoverable = IF e # NoError THEN Raised(e) ELSE Cleared(@)]

(* A terminal error raises Terminal and leaves Recoverable alone; any      *)
(* other result clears Terminal and raises or clears Recoverable.          *)
UpdateConditions(c, e) ==
    IF IsTerminal(e) THEN [c EXCEPT !.Terminal = Raised(e)]
    ELSE [Terminal    |-> Cleared(c.Terminal),
          Recoverable |-> IF e # NoError THEN Raised(e) ELSE Cleared(c.Recoverable)]

TerminalSentinel == "ackerr.Terminal"

ASSUME SentinelAssumption == TerminalSentinel \notin Results

(* Wrong: the error is returned as it is.                                  *)
AnswerRaw(c, e) ==
    latest' = UpdateConditions(c, e) /\ returned' = e /\ lastError' = e

(* onError and onSuccess, on a copy of the resource they are given.        *)
Answer(c, e) ==
    LET c1 == UpdateConditions(c, e)
    IN  /\ latest' = c1
        /\ returned' = IF e # NoError /\ c1.Terminal.status = "True"
                       THEN TerminalSentinel ELSE e
        /\ lastError' = e

-----------------------------------------------------------------------------
TypeOK ==
    /\ pc \in {"idle", "read", "create", "update", "delete", "report"}
    /\ {crConds, desired, latest} \subseteq Conds
    /\ returned \in Results \cup {TerminalSentinel}
    /\ lastError \in Results
    /\ created \in BOOLEAN

Init ==
    /\ pc = "idle"
    /\ crConds = NoConds /\ desired = NoConds /\ latest = NoConds
    /\ returned = NoError /\ lastError = NoError /\ created = FALSE

Begin(strip) ==
    /\ pc = "idle" /\ pc' = "read"
    /\ desired' = IF strip THEN NoConds ELSE crConds
    /\ created' = FALSE
    /\ UNCHANGED <<crConds, latest, returned, lastError>>

(* Wrong: without the DeepCopy of updateConditions.                        *)
ReadOneInPlace(e) ==
    /\ pc = "read" /\ Answer(desired, e) /\ desired' = latest'
    /\ \/ e = NoError  /\ pc' \in {"update", "delete", "report"}
       \/ e = NotFound /\ pc' \in {"create", "report"}
       \/ e \notin {NoError, NotFound} /\ pc' = "report"
    /\ UNCHANGED <<crConds, created>>

ReadOne(e) ==
    /\ pc = "read"
    /\ Answer(desired, e)
    /\ \/ e = NoError  /\ pc' \in {"update", "delete", "report"}
       \/ e = NotFound /\ pc' \in {"create", "report"}
       \/ e \notin {NoError, NotFound} /\ pc' = "report"
    /\ UNCHANGED <<crConds, desired, created>>

(* sdkCreate returns a copy of the desired resource, or nil and the error. *)
Create(e) ==
    /\ pc = "create" /\ pc' = "report" /\ created' = TRUE
    /\ Answer(desired, e)
    /\ UNCHANGED <<crConds, desired>>

(* sdkUpdate returns a copy of the desired resource; its errors are put on *)
(* the latest one.                                                         *)
Update(e) ==
    /\ pc = "update" /\ pc' = "report"
    /\ Answer(IF e = NoError THEN desired ELSE latest, e)
    /\ UNCHANGED <<crConds, desired, created>>

(* sdkDelete returns no resource, and onSuccess nothing for it.            *)
Delete(e) ==
    /\ pc = "delete"
    /\ \/ e # NoError /\ pc' = "report" /\ Answer(latest, e) /\ UNCHANGED crConds
       \/ /\ e = NoError /\ pc' = "idle" /\ crConds' = NoConds
          /\ latest' = NoConds /\ returned' = e /\ lastError' = e
    /\ UNCHANGED <<desired, created>>

Report ==
    /\ pc = "report" /\ pc' = "idle"
    /\ crConds' = latest
    /\ UNCHANGED <<desired, latest, returned, lastError, created>>

Next == \/ \E strip \in BOOLEAN : Begin(strip)
        \/ \E e \in Results : ReadOne(e) \/ Create(e) \/ Update(e) \/ Delete(e)
        \/ Report

Spec == Init /\ [][Next]_vars

-----------------------------------------------------------------------------
(* The status a reconciliation reports is that of its last call, whatever  *)
(* conditions the CR had before and whatever the calls before it met:      *)
(* Terminal holds for a terminal error only, Recoverable shows the error,  *)
(* and after a success neither is True.                                    *)
StatusTellsTheTruth ==
    pc = "report" =>
        /\ latest.Terminal.status = "True" <=> IsTerminal(lastError)
        /\ lastError = NoError => latest.Recoverable.status # "True"
        /\ lastError # NoError /\ ~IsTerminal(lastError) =>
               latest.Recoverable = Raised(lastError)

(* The reconciler, which retries all but terminal errors, is told Terminal *)
(* exactly when the status it is about to store says so.                   *)
ReturnedMatchesStatus ==
    pc = "report" =>
        (returned = TerminalSentinel <=> latest.Terminal.status = "True")

(* The NotFound that makes the reconciler create the resource stays on the *)
(* discarded copy: it is not in the status that follows the creation,      *)
(* unless the CR showed it before.                                         *)
NotFoundLeavesNoTrace ==
    pc = "report" /\ created /\ lastError # NotFound
        /\ crConds.Recoverable.message # NotFound =>
            latest.Recoverable.message # NotFound
=============================================================================
