----------------------------- MODULE MCDoctorFix -----------------------------
(* Two facts of session a and one of b for a key without a property; two are *)
(* of the same date, where the ids decide.                                   *)
EXTENDS DoctorFix

CONSTANTS a, b, k, a1, a2, b1

MCFact == {a1, a2, b1}
MCKey  == {k}

MCSourceOf  == [f \in MCFact |-> IF f = b1 THEN b ELSE a]
MCKeyOf     == [f \in MCFact |-> k]
MCCreatedAt == [f \in MCFact |-> IF f = a1 THEN 0 ELSE 1]
MCIdRank    == [f \in MCFact |-> CASE f = a1 -> 4 [] f = a2 -> 2 [] f = b1 -> 3]
=============================================================================
