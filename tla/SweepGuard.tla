------------------------------ MODULE SweepGuard ------------------------------
(***************************************************************************)
(* evaluateSweep of sweep-guard.ts: may a bulk change touch that many rows *)
(* of its target?  An empty one may, and so may any on a small target;     *)
(* otherwise a share of num in den is the limit, and one row must be left  *)
(* (DEFAULT_MIN_REMAINING).  The audit line it appends is left out.        *)
(***************************************************************************)
EXTENDS Naturals

CONSTANT MinTarget   \* minTarget

ASSUME MinTargetIsNat == MinTarget \in Nat

GuardAllows(touching, total, num, den) ==
  touching = 0 \/ total < MinTarget \/ (touching * den <= total * num /\ touching < total)
=============================================================================
