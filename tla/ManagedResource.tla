--------------------------- MODULE ManagedResource ---------------------------
(***************************************************************************)
(* What the controller promises of every kind: one CR, the AWS resource it *)
(* names and rounds of reconciliation, without the calls a round is made   *)
(* of.  A round takes a claim (what the CR asks for), looks at the         *)
(* resource and only then acts.  MetricAlarm, MetricStream and Dashboard   *)
(* implement it.                                                           *)
(***************************************************************************)
CONSTANTS Things,    \* what an AWS resource can be
          None       \* no resource, no claim

VARIABLES
    crState,      \* "absent", "live", or "deleting"
    finalizer,    \* the CR carries the controller's finalizer
    phase,        \* how far the round is
    claim,        \* what the round may make of the resource, or None
    seen,         \* the resource the round looked at, or None
    actual        \* the resource, or None

cr   == <<crState, finalizer>>
vars == <<cr, phase, claim, seen, actual>>

Phases == {"idle", "asked", "absent", "present", "done"}

Init ==
    /\ crState = "absent" /\ finalizer = FALSE
    /\ phase = "idle" /\ claim = None /\ seen = None
    /\ actual = None

-----------------------------------------------------------------------------
(* Users of the CR and of AWS.                                             *)

CreateCR ==
    /\ crState = "absent" /\ crState' = "live" /\ finalizer' = FALSE
    /\ UNCHANGED <<phase, claim, seen, actual>>

DeleteCR ==
    /\ crState = "live"
    /\ crState' = IF finalizer THEN "deleting" ELSE "absent"
    /\ UNCHANGED <<finalizer, phase, claim, seen, actual>>

OutsideChange ==
    /\ actual' \in Things \cup {None}
    /\ UNCHANGED <<cr, phase, claim, seen>>

-----------------------------------------------------------------------------
(* A round.                                                                *)

Take ==
    /\ phase = "idle" /\ phase' = "asked"
    /\ claim' \in Things \cup {None}
    /\ UNCHANGED <<cr, seen, actual>>

(* Nothing is left to do when what is seen is what is claimed.             *)
Look ==
    /\ phase = "asked" /\ seen' = actual
    /\ \/ actual = None /\ phase' = "absent"
       \/ actual # None /\ phase' = "present"
       \/ actual # None /\ actual = claim /\ phase' = "done"
    /\ UNCHANGED <<cr, claim, actual>>

Agree ==
    /\ phase = "present" /\ seen = claim /\ phase' = "done"
    /\ UNCHANGED <<cr, claim, seen, actual>>

(* The finalizer is put on a CR only, and before anything is made.         *)
Manage ==
    /\ phase = "absent" /\ crState # "absent" /\ finalizer' = TRUE
    /\ UNCHANGED <<crState, phase, claim, seen, actual>>

(* The finalizer is taken away only by a round for which the resource is   *)
(* not there.                                                              *)
Release ==
    /\ phase = "absent" /\ finalizer' = FALSE
    /\ crState' = IF crState = "deleting" THEN "absent" ELSE crState

Stop == phase' = "idle" /\ claim' = None /\ seen' = None

(* A round ends, in success, in an error or because the process stops.     *)
GiveUp == Stop /\ (Release \/ UNCHANGED cr) /\ UNCHANGED actual

(* Only under the finalizer, and only what is claimed; the answer may get  *)
(* lost.                                                                   *)
Write ==
    /\ phase \in {"absent", "present"} /\ finalizer /\ claim # None
    /\ actual' = claim
    /\ \/ phase' = "done" /\ UNCHANGED <<cr, claim, seen>>
       \/ Stop /\ (Release \/ UNCHANGED cr)

(* Only a resource whose CR is being deleted, and that was looked at.      *)
Remove ==
    /\ phase = "present" /\ crState = "deleting" /\ finalizer
    /\ actual' = None
    /\ \/ phase' = "absent" /\ seen' = None /\ UNCHANGED claim
       \/ Stop
    /\ UNCHANGED cr

Next == \/ CreateCR \/ DeleteCR \/ OutsideChange
        \/ Take \/ Look \/ Agree \/ Manage \/ GiveUp \/ Write \/ Remove

Spec == Init /\ [][Next]_vars
=============================================================================
