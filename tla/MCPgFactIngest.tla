--------------------------- MODULE MCPgFactIngest ---------------------------
(* Two ids for the facts of session a, so that it can be ingested again, and *)
(* one for b, which is older; all of them answer the same question.          *)
EXTENDS PgFactIngest

CONSTANTS a, b, k, a1, a2, b1

MCFact      == {a1, a2, b1}
MCSourceOf  == [f \in MCFact |-> IF f \in {a1, a2} THEN a ELSE b]
MCKeyOf     == [f \in MCFact |-> k]
MCCreatedAt == [f \in MCFact |-> IF f = b1 THEN 0 ELSE 1]
MCIdRank    == [f \in MCFact |-> CASE f = a1 -> 1 [] f = b1 -> 2 [] f = a2 -> 3]
=============================================================================
