---------------------------- MODULE MCDashboard -----------------------------
(* Small instances of Dashboard for TLC. *)
EXTENDS Dashboard

CONSTANTS d1, d2    \* two documents, the second of them warned about

B(t, d) == [text |-> t, doc |-> d]

\* the first document in two texts; two texts that do not parse
MCBodies == {B("a", d1), B("b", d1), B("c", d2), B("x", NotJson), B("y", NotJson)}
=============================================================================
