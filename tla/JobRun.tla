-------------------------------- MODULE JobRun --------------------------------
(***************************************************************************)
(* What a supervised job promises its operator (the restart policy and the *)
(* state machine in the header of job-supervisor.ts), without processes,   *)
(* callbacks or timers.  A run begins only when none is active; its        *)
(* process is replaced at most MaxRestarts times between two advances; and *)
(* it ends once: completed, stopped, given up when the budget is spent, or *)
(* because no process would start.                                         *)
(***************************************************************************)
EXTENDS Naturals

CONSTANT MaxRestarts

VARIABLES
  phase,             \* idle, active, or how the last run ended
  left               \* replacements left before the run is given up

runVars == <<phase, left>>

Ended == {"completed", "exhausted", "spawn_failed", "stopped"}

RunInit == phase = "idle" /\ left = MaxRestarts

Begin == /\ phase # "active"
         /\ phase' \in {"active", "spawn_failed"}
         /\ left' = MaxRestarts

Advance == phase = "active" /\ left' = MaxRestarts /\ UNCHANGED phase

Replace == phase = "active" /\ left > 0 /\ left' = left - 1 /\ UNCHANGED phase

GiveUp == phase = "active" /\ left = 0 /\ phase' = "exhausted" /\ UNCHANGED left

Finish == /\ phase = "active"
          /\ phase' \in Ended \ {"exhausted"}
          /\ UNCHANGED left

RunNext == Begin \/ Advance \/ Replace \/ GiveUp \/ Finish

RunSpec == RunInit /\ [][RunNext]_runVars
=============================================================================
