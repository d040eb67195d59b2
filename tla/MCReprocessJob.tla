---------------------------- MODULE MCReprocessJob ----------------------------
(* Two sessions, one restart without progress, and a handle for a child that *)
(* was killed and is not dead yet besides that of its successor.             *)
EXTENDS ReprocessJob

CONSTANTS c1, c2
=============================================================================
