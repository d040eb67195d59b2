-------------------------- MODULE MCScanScheduler --------------------------
(* Two sources, of which one grows, also while a tick handles what it was    *)
(* before; what happens to one while the other is waited for.                *)
EXTENDS ScanScheduler, TLC

CONSTANTS p1, p2

GrowingAndStill == p1 :> 2 @@ p2 :> 1
=============================================================================
