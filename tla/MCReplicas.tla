----------------------------- MODULE MCReplicas ------------------------------
(* A small instance of Replicas for TLC. *)
EXTENDS Replicas

CONSTANTS d1, d2    \* two documents

B(t, d) == [text |-> t, doc |-> d]

\* the first document in two texts, and a text that does not parse
MCBodies == {B("a", d1), B("b", d1), B("c", d2), B("x", NotJson)}
=============================================================================
