--------------------------- MODULE MCFactCuration ---------------------------
(* Session a has two ids for key k and one, which the operator holds outside *)
(* every property, for m; b has an older fact of k.  The judge compares all. *)
EXTENDS FactCuration

CONSTANTS a, b, k, m, a1, a2, a3, b1, j1, j2

MCSession == {a, b}
MCFact    == {a1, a2, a3, b1}
MCKey     == {k, m}

MCSourceOf  == [f \in MCFact |-> IF f = b1 THEN b ELSE a]
MCKeyOf     == [f \in MCFact |-> IF f = a3 THEN m ELSE k]
MCCreatedAt == [f \in MCFact |-> IF f = b1 THEN 0 ELSE 1]
MCIdRank    == [f \in MCFact |-> CASE f = a1 -> 1 [] f = b1 -> 2 [] f = a2 -> 3 [] f = a3 -> 4]
MCSlugOf    == [x \in MCKey |-> 1]
=============================================================================
