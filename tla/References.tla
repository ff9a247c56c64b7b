----------------------------- MODULE References -----------------------------
(***************************************************************************)
(* The two fields of a MetricStream that may name another CR instead of    *)
(* holding an ARN (metric_stream/references.go).  Operators only; the      *)
(* order in which the two are resolved is in MetricStream.                 *)
(***************************************************************************)
CONSTANTS Arns,     \* the ARNs of delivery streams and roles
          Nil       \* a nil pointer

ASSUME NilArnAssumption == Nil \notin Arns

Fields == {"FirehoseARN", "RoleARN"}

(* FirehoseRef or RoleRef: nil, without From, with a nil or empty name, to *)
(* a namespace that is not allowed, or naming a CR.                        *)
RefKinds == {Nil, "noFrom", "noName", "forbidden", "named"}

ASSUME NilRefAssumption == Nil \notin {"noFrom", "noName", "forbidden", "named"}

(* The CR that the reference names.                                        *)
RefStates ==
    [exists : BOOLEAN, terminal : BOOLEAN, synced : BOOLEAN, arn : Arns \cup {Nil}]

(* validateReferenceFields: exactly one of the two must be set.            *)
ValidationError(ko) == \E f \in Fields : ko.ref[f] # Nil <=> ko.arn[f] # Nil

HasReference(ko, f) == ko.ref[f] \notin {Nil, "noFrom"}

(* Wrong: the ResourceSynced condition not looked at.                      *)
ReferencedUnsynced(s) == s.exists /\ ~s.terminal /\ s.arn # Nil

(* getReferencedResourceState returned no error.                           *)
Referenced(s) == s.exists /\ ~s.terminal /\ s.synced /\ s.arn # Nil

Resolvable(ko, f, s) == ko.ref[f] = "named" /\ Referenced(s)

(* Wrong: the ARN that was resolved stays.                                 *)
ClearNothing(ko) == ko

(* ClearResolvedReferences                                                 *)
ClearResolvedReferences(ko) ==
    [ko EXCEPT !.arn = [f \in Fields |-> IF ko.ref[f] # Nil THEN Nil ELSE ko.arn[f]]]
=============================================================================
