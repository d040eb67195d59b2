-------------------------- MODULE MCFactEmbedding --------------------------
(* Two sessions with a fact each for the same key, b's the older, so that    *)
(* an ingest, a sweep and a correction can meet over one fact.               *)
EXTENDS FactEmbedding

CONSTANTS a, b, k, a1, b1

MCSession == {a, b}
MCFact    == {a1, b1}

MCSourceOf  == [f \in MCFact |-> IF f = a1 THEN a ELSE b]
MCKeyOf     == [f \in MCFact |-> k]
MCCreatedAt == [f \in MCFact |-> IF f = b1 THEN 0 ELSE 1]
MCIdRank    == [f \in MCFact |-> IF f = a1 THEN 1 ELSE 2]
=============================================================================
