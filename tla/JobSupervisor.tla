----------------------------- MODULE JobSupervisor -----------------------------
(***************************************************************************)
(* The daemon's supervisor of one child process: job-supervisor.ts and the *)
(* process adapter reprocess-job-adapters.ts.  The child is any program    *)
(* that prints progress lines and exits; ReprocessJob puts the real one in *)
(* its place.  Lines and exits reach the supervisor as callbacks, later,   *)
(* and an exit may overtake the lines printed before it: 'exit' and the    *)
(* 'data' of the pipes are events of their own.                            *)
(*                                                                         *)
(* A handle is the identity of one child.  It is used again only when its  *)
(* process is dead and has no callback left, when nothing can tell the two *)
(* children apart.  The clock is the one bit the code asks of it: have     *)
(* stallMinutes gone by since the last advance, or since the start?        *)
(***************************************************************************)
EXTENDS Naturals, Sequences

CONSTANTS
  Handle,            \* child handles
  NoChild,           \* this.child === null
  MaxRestarts        \* maxRestartsWithoutProgress

ASSUME SupervisorConstants == NoChild \notin Handle /\ MaxRestarts \in Nat

VARIABLES
  state, processed, total, restarts, restartsTotal, stallEpisodeFired,
  stopRequested, child,
  overdue,           \* now - (lastAdvanceAt ?? startedAt) >= stallMs
  event,             \* the last event of this run given to onEvent
  proc               \* the processes behind the handles

jobVars == <<state, processed, total, restarts, restartsTotal,
             stallEpisodeFired, stopRequested, child, overdue, event>>

supervisorVars == <<jobVars, proc>>

ActiveState == {"running", "stalled"}
Terminal    == {"completed", "exhausted", "stopped"}
Event       == {"none", "stalled", "exhausted", "spawn_failed"}

Line == Nat \X Nat

(* A process: is it running, was it killed, did it exit with code 0, the     *)
(* lines not delivered yet, and the exit callbacks not delivered yet.        *)
Process == [phase : {"dead", "alive", "hung"}, killed : BOOLEAN, ok : BOOLEAN,
            lines : Seq(Line), exits : Nat]

Dead == [phase |-> "dead", killed |-> FALSE, ok |-> FALSE, lines |-> <<>>, exits |-> 0]
Born == [Dead EXCEPT !.phase = "alive"]

SupervisorTypeOK ==
  /\ state \in {"idle"} \cup ActiveState \cup Terminal
  /\ processed \in Nat /\ total \in Nat
  /\ restarts \in 0..MaxRestarts /\ restartsTotal \in Nat
  /\ stallEpisodeFired \in BOOLEAN /\ stopRequested \in BOOLEAN
  /\ child \in Handle \cup {NoChild}
  /\ overdue \in BOOLEAN
  /\ event \in Event
  /\ proc \in [Handle -> Process]

SupervisorInit ==
  /\ state = "idle" /\ processed = 0 /\ total = 0
  /\ restarts = 0 /\ restartsTotal = 0
  /\ stallEpisodeFired = FALSE /\ stopRequested = FALSE
  /\ child = NoChild /\ overdue = FALSE /\ event = "none"
  /\ proc = [c \in Handle |-> Dead]

Running(c) == proc[c].phase # "dead"
Spare(c)   == ~Running(c) /\ proc[c].lines = <<>> /\ proc[c].exits = 0

(* spawnChild returns a handle nobody holds; which one makes no difference.  *)
IsFresh(d) == Spare(d) /\ d = CHOOSE e \in Handle : Spare(e)

-----------------------------------------------------------------------------
(* start: refused while a run is active.  spawnChild returns a handle, or    *)
(* throws and the run is over before it began.                               *)
ResetRun ==
  /\ processed' = 0 /\ total' = 0 /\ restarts' = 0 /\ restartsTotal' = 0
  /\ stallEpisodeFired' = FALSE /\ stopRequested' = FALSE /\ overdue' = FALSE

StartSpawns(d) ==
  /\ state \notin ActiveState /\ IsFresh(d)
  /\ ResetRun
  /\ state' = "running" /\ event' = "none" /\ child' = d
  /\ proc' = [proc EXCEPT ![d] = Born]

StartThrows ==
  /\ state \notin ActiveState
  /\ ResetRun
  /\ state' = "exhausted" /\ event' = "spawn_failed" /\ child' = NoChild
  /\ UNCHANGED proc

(* Mutant: a run that a stop ended keeps its child.                          *)
StopForgetsKill ==
  /\ state \in ActiveState
  /\ stopRequested' = TRUE /\ state' = "stopped" /\ child' = NoChild
  /\ UNCHANGED <<proc, processed, total, restarts, restartsTotal,
                 stallEpisodeFired, overdue, event>>

(* stop: the child is let go and killed; it dies in its own time.            *)
Stop ==
  /\ state \in ActiveState
  /\ stopRequested' = TRUE /\ state' = "stopped" /\ child' = NoChild
  /\ proc' = [c \in Handle |->
                IF c = child THEN [proc[c] EXCEPT !.killed = TRUE] ELSE proc[c]]
  /\ UNCHANGED <<processed, total, restarts, restartsTotal,
                 stallEpisodeFired, overdue, event>>

(* handleLine, behind the identity guard of onLine.                          *)
HandleLine(line) ==
  /\ processed' = line[1] /\ total' = line[2]
  /\ restarts' = 0 /\ overdue' = FALSE /\ stallEpisodeFired' = FALSE
  /\ state' = IF state = "stalled" THEN "running" ELSE state
  /\ UNCHANGED <<restartsTotal, stopRequested, child, event>>

DeliverLine(c) ==
  /\ proc[c].lines # <<>>
  /\ proc' = [proc EXCEPT ![c].lines = Tail(@)]
  /\ IF child = c THEN HandleLine(Head(proc[c].lines)) ELSE UNCHANGED jobVars

(* Mutant: an exit code is not looked at.                                    *)
TotalNotReached(ok) == total > 0 /\ processed < total

(* handleExit, behind the identity guard of onExit.                          *)
WorkRemaining(ok) == ~ok \/ (total > 0 /\ processed < total)

(* One callback less; with the last of them the handle is as good as new.    *)
OneExitLess(c) ==
  [proc EXCEPT ![c] = IF @.exits = 1 THEN [Dead EXCEPT !.lines = proc[c].lines]
                                     ELSE [proc[c] EXCEPT !.exits = @ - 1]]

ExitAfterStop(c) ==
  /\ stopRequested
  /\ child' = NoChild /\ proc' = OneExitLess(c)
  /\ UNCHANGED <<state, processed, total, restarts, restartsTotal,
                 stallEpisodeFired, stopRequested, overdue, event>>

Completes(c) ==
  /\ ~stopRequested /\ ~WorkRemaining(proc[c].ok)
  /\ state' = "completed" /\ child' = NoChild /\ proc' = OneExitLess(c)
  /\ UNCHANGED <<processed, total, restarts, restartsTotal,
                 stallEpisodeFired, stopRequested, overdue, event>>

(* Mutant: one respawn more than the cap.                                    *)
CapPassed == restarts > MaxRestarts

CapReached == restarts >= MaxRestarts

Exhausts(c) ==
  /\ ~stopRequested /\ WorkRemaining(proc[c].ok) /\ CapReached
  /\ state' = "exhausted" /\ event' = "exhausted"
  /\ child' = NoChild /\ proc' = OneExitLess(c)
  /\ UNCHANGED <<processed, total, restarts, restartsTotal,
                 stallEpisodeFired, stopRequested, overdue>>

Respawns(c, d) ==
  /\ ~stopRequested /\ WorkRemaining(proc[c].ok) /\ ~CapReached /\ IsFresh(d)
  /\ state' = "running" /\ stallEpisodeFired' = FALSE /\ child' = d
  /\ restarts' = restarts + 1 /\ restartsTotal' = restartsTotal + 1
  /\ proc' = [OneExitLess(c) EXCEPT ![d] = Born]
  /\ UNCHANGED <<processed, total, stopRequested, overdue, event>>

RespawnThrows(c) ==
  /\ ~stopRequested /\ WorkRemaining(proc[c].ok) /\ ~CapReached
  /\ state' = "exhausted" /\ stallEpisodeFired' = FALSE /\ event' = "spawn_failed"
  /\ child' = NoChild /\ proc' = OneExitLess(c)
  /\ UNCHANGED <<processed, total, restarts, restartsTotal, stopRequested, overdue>>

HandleExit(c) ==
  \/ ExitAfterStop(c) \/ Completes(c) \/ Exhausts(c) \/ RespawnThrows(c)
  \/ \E d \in Handle : Respawns(c, d)

StaleExit(c) == child # c /\ proc' = OneExitLess(c) /\ UNCHANGED jobVars

DeliverExit(c) ==
  /\ proc[c].exits > 0
  /\ StaleExit(c) \/ (child = c /\ HandleExit(c))

(* checkStall, called on an interval, and the clock it reads.                *)
TimePasses ==
  /\ state \in ActiveState /\ ~overdue
  /\ overdue' = TRUE
  /\ UNCHANGED <<state, processed, total, restarts, restartsTotal,
                 stallEpisodeFired, stopRequested, child, event, proc>>

(* Mutant: the stall is measured from the last advance only.                 *)
CheckStallAfterAdvance ==
  /\ state \in ActiveState /\ child # NoChild /\ total > 0
  /\ ~stallEpisodeFired /\ overdue
  /\ stallEpisodeFired' = TRUE /\ state' = "stalled" /\ event' = "stalled"
  /\ UNCHANGED <<processed, total, restarts, restartsTotal, stopRequested,
                 child, overdue, proc>>

CheckStall ==
  /\ state \in ActiveState /\ child # NoChild
  /\ ~stallEpisodeFired /\ overdue
  /\ stallEpisodeFired' = TRUE /\ state' = "stalled" /\ event' = "stalled"
  /\ UNCHANGED <<processed, total, restarts, restartsTotal, stopRequested,
                 child, overdue, proc>>

-----------------------------------------------------------------------------
(* The processes, as far as the supervisor can see.  A spawn that fails      *)
(* later reports 'error', and an 'exit' may still follow: two callbacks.     *)
Prints(c, line) ==
  /\ proc[c].phase = "alive"
  /\ proc' = [proc EXCEPT ![c].lines = Append(@, line)]

Exits(c, ok, callbacks) ==
  /\ Running(c)
  /\ proc' = [proc EXCEPT ![c].phase = "dead", ![c].ok = ok, ![c].exits = callbacks]

Hangs(c) ==
  /\ proc[c].phase = "alive" /\ ~proc[c].killed
  /\ proc' = [proc EXCEPT ![c].phase = "hung"]

SupervisorNext ==
  \/ \E d \in Handle : StartSpawns(d)
  \/ StartThrows \/ Stop \/ TimePasses \/ CheckStall
  \/ \E c \in Handle : DeliverLine(c) \/ DeliverExit(c)
  \/ \E c \in Handle :
       /\ \/ Hangs(c)
          \/ \E line \in Line : Prints(c, line)
          \/ \E ok \in BOOLEAN, callbacks \in 1..2 : Exits(c, ok, callbacks)
       /\ UNCHANGED jobVars

SupervisorSpec == SupervisorInit /\ [][SupervisorNext]_supervisorVars

-----------------------------------------------------------------------------
(* Every running process is the one the supervisor holds or has been killed, *)
(* and it holds one exactly while a run is active: no child is leaked by a   *)
(* respawn, a late exit of its predecessor or a stop, and no run is called   *)
(* active with nobody working (job-supervisor.ts 78-88).                     *)
ChildOwned ==
  /\ \A c \in Handle : Running(c) /\ ~proc[c].killed => c = child
  /\ state \in ActiveState <=> child # NoChild

(* What the operator is promised: JobRun, with the budget counted down.      *)
RunPhase ==
  CASE state \in ActiveState -> "active"
    [] state = "exhausted" /\ event = "spawn_failed" -> "spawn_failed"
    [] OTHER -> state

Run == INSTANCE JobRun WITH phase <- RunPhase, left <- MaxRestarts - restarts

(* The supervisor keeps the restart policy of its header whatever the child  *)
(* does and in whatever order its callbacks arrive.                          *)
KeepsRestartPolicy == Run!RunSpec
=============================================================================
