--------------------------- MODULE MCSessionStore ---------------------------
(* Two sessions with a fact each for one key, b's the older, and a third     *)
(* that a correction can be redirected to and that says nothing on the key.  *)
(* An id is fresh again once its row is gone.                                *)
EXTENDS SessionStore

CONSTANTS a, b, c, k, a1, b1

MCSession == {a, b, c}
MCFact    == {a1, b1}

MCSourceOf  == [f \in MCFact |-> IF f = a1 THEN a ELSE b]
MCKeyOf     == [f \in MCFact |-> k]
MCCreatedAt == [f \in MCFact |-> IF f = b1 THEN 0 ELSE 1]
MCIdRank    == [f \in MCFact |-> IF f = a1 THEN 1 ELSE 2]
=============================================================================
