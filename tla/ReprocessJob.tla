----------------------------- MODULE ReprocessJob -----------------------------
(***************************************************************************)
(* The supervised job: JobSupervisor with `nlm reprocess` (reprocess.ts,   *)
(* run with a minimum confidence) as the child.  A child selects what the  *)
(* current classifier has not stamped, or stamped with low confidence, and *)
(* the state file does not name; it classifies and commits one session     *)
(* after another, reports each with a progress line, and writes the state  *)
(* file every SaveEvery successes and at its end.  Only the sessions' rows *)
(* and that file survive a crash.                                          *)
(***************************************************************************)
EXTENDS JobSupervisor, FiniteSets

CONSTANTS
  Item,              \* sessions with a body, numbered newest first
  SaveEvery,         \* SAVE_EVERY
  MaxStarts,         \* bound: runs the operator starts
  MaxFaults          \* bound: crashes, hangs, failures after a commit, exits that
                     \* overtake a line

ASSUME ReprocessConstants ==
  /\ Item \subseteq Nat /\ IsFiniteSet(Item)
  /\ SaveEvery \in Nat \ {0} /\ MaxStarts \in Nat /\ MaxFaults \in Nat

VARIABLES
  stamp,             \* per session: old, low or ok under this lane
  saved,             \* the done-set of the state file
  work,              \* the memory of the process behind a handle
  tried,             \* sessions the children of this run have attempted
  starts, faults

childVars == <<stamp, saved, work, tried, starts, faults>>
reprocessVars == <<supervisorVars, childVars>>

(* report: what the child has still to say about the session it just did.    *)
Asleep == [booted |-> FALSE, todo |-> {}, n |-> 0, loaded |-> {}, fresh |-> {},
           report |-> "none"]

ReprocessTypeOK ==
  /\ SupervisorTypeOK
  /\ stamp \in [Item -> {"old", "low", "ok"}]
  /\ saved \subseteq Item /\ tried \subseteq Item
  /\ work \in [Handle -> [booted : BOOLEAN, todo : SUBSET Item, n : Nat,
                          loaded : SUBSET Item, fresh : SUBSET Item,
                          report : {"none", "ok", "failed"}]]
  /\ starts \in 0..MaxStarts /\ faults \in 0..MaxFaults

ReprocessInit ==
  /\ SupervisorInit
  /\ stamp = [x \in Item |-> "old"] /\ saved = {} /\ tried = {}
  /\ work = [c \in Handle |-> Asleep]
  /\ starts = 0 /\ faults = 0

-----------------------------------------------------------------------------
Fault == faults < MaxFaults /\ faults' = faults + 1

(* POST and DELETE /api/jobs/reprocess.                                      *)
Start ==
  /\ starts < MaxStarts /\ starts' = starts + 1
  /\ tried' = {}
  /\ StartThrows \/ \E d \in Handle : StartSpawns(d)
  /\ UNCHANGED <<stamp, saved, work, faults>>

OperatorStops == Stop /\ UNCHANGED childVars

LineArrives(c) == DeliverLine(c) /\ UNCHANGED childVars

(* An exit that overtakes lines is a fault of the bound.                     *)
ExitArrives(c) ==
  /\ DeliverExit(c)
  /\ IF proc[c].lines # <<>> THEN Fault ELSE UNCHANGED faults
  /\ UNCHANGED <<stamp, saved, work, tried, starts>>

Ticks == (TimePasses \/ CheckStall) /\ UNCHANGED childVars

(* The candidates are read and the state file is loaded.                     *)
Candidates == {x \in Item : stamp[x] # "ok"}

ChildSelects(c) ==
  /\ proc[c].phase = "alive" /\ ~work[c].booted
  /\ work' = [work EXCEPT ![c] =
       [Asleep EXCEPT !.booted = TRUE, !.loaded = saved,
                      !.todo = Candidates \ saved,
                      !.n = Cardinality(Candidates \ saved)]]
  /\ UNCHANGED <<supervisorVars, stamp, saved, tried, starts, faults>>

(* One session: classify, insertSession, done.add.  Either call may fail, and*)
(* insertSession also after its commit, when it deletes or embeds chunks.    *)
ChildCommits(c, x) ==
  /\ proc[c].phase = "alive" /\ work[c].report = "none"
  /\ x \in work[c].todo /\ \A y \in work[c].todo : x <= y
  /\ tried' = IF c = child THEN tried \cup {x} ELSE tried
  /\ \/ /\ \E r \in {"low", "ok"} : stamp' = [stamp EXCEPT ![x] = r]
        /\ work' = [work EXCEPT ![c].todo = @ \ {x}, ![c].fresh = @ \cup {x},
                                ![c].report = "ok"]
        /\ UNCHANGED faults
     \/ /\ work' = [work EXCEPT ![c].todo = @ \ {x}, ![c].report = "failed"]
        /\ \/ UNCHANGED <<stamp, faults>>
           \/ Fault /\ \E r \in {"low", "ok"} : stamp' = [stamp EXCEPT ![x] = r]
  /\ UNCHANGED <<supervisorVars, saved, starts>>

(* Mutant: a session is recorded as done before its row is written.          *)
DoneAhead(c) == work[c].loaded \cup work[c].fresh \cup work[c].todo

DoneSet(c) == work[c].loaded \cup work[c].fresh

(* onProgress, and every SaveEvery successes the state file.  When it cannot *)
(* be written the session is reported once more, as failed: a second line    *)
(* with the numbers of the first, left out.                                  *)
SaveIsDue(c) == work[c].report = "ok" /\ Cardinality(work[c].fresh) % SaveEvery = 0

ChildReports(c) ==
  /\ work[c].report # "none"
  /\ Prints(c, <<work[c].n - Cardinality(work[c].todo), work[c].n>>)
  /\ work' = [work EXCEPT ![c].report = "none"]
  /\ \/ saved' = (IF SaveIsDue(c) THEN DoneSet(c) ELSE saved) /\ UNCHANGED faults
     \/ SaveIsDue(c) /\ Fault /\ UNCHANGED saved
  /\ UNCHANGED <<jobVars, stamp, tried, starts>>

ChildFinishes(c) ==
  /\ proc[c].phase = "alive" /\ work[c].booted
  /\ work[c].todo = {} /\ work[c].report = "none"
  /\ saved' = DoneSet(c)
  /\ Exits(c, TRUE, 1)
  /\ work' = [work EXCEPT ![c] = Asleep]
  /\ UNCHANGED <<jobVars, stamp, tried, starts, faults>>

(* Out of memory, or refused by the sweep guard or the lane check; a spawn   *)
(* that failed late; a call that never returns.                              *)
ChildCrashes(c) ==
  /\ ~proc[c].killed
  /\ \/ Exits(c, FALSE, 1)
     \/ ~work[c].booted /\ Exits(c, FALSE, 2)
  /\ Fault
  /\ work' = [work EXCEPT ![c] = Asleep]
  /\ UNCHANGED <<jobVars, stamp, saved, tried, starts>>

ChildHangs(c) ==
  Hangs(c) /\ Fault /\ UNCHANGED <<jobVars, stamp, saved, work, tried, starts>>

KilledDies(c) ==
  /\ proc[c].killed /\ Exits(c, FALSE, 1)
  /\ work' = [work EXCEPT ![c] = Asleep]
  /\ UNCHANGED <<jobVars, stamp, saved, tried, starts, faults>>

ChildSteps(c) ==
  \/ ChildSelects(c) \/ ChildReports(c) \/ ChildFinishes(c) \/ KilledDies(c)
  \/ \E x \in Item : ChildCommits(c, x)

Settled == state \notin ActiveState /\ \A c \in Handle : Spare(c)

Rests == Settled /\ UNCHANGED reprocessVars

ReprocessNext ==
  \/ Start \/ OperatorStops \/ Ticks \/ Rests
  \/ \E c \in Handle : \/ LineArrives(c) \/ ExitArrives(c) \/ ChildSteps(c)
                       \/ ChildCrashes(c) \/ ChildHangs(c)

(* The event loop delivers what is pending, the interval timer fires, and a  *)
(* process that neither crashes nor hangs goes on.                           *)
ReprocessSpec ==
  /\ ReprocessInit /\ [][ReprocessNext]_reprocessVars
  /\ WF_reprocessVars(Ticks)
  /\ \A c \in Handle : /\ WF_reprocessVars(LineArrives(c))
                       /\ WF_reprocessVars(ExitArrives(c))
                       /\ WF_reprocessVars(ChildSteps(c))

-----------------------------------------------------------------------------
(* A state file never names a session whose new classification was not       *)
(* committed, whatever crashed when and though a killed child and its        *)
(* successor both write it: what a later run skips is done                   *)
(* (reprocess.ts 15-16, 285).                                                *)
SavedMeansStamped == \A x \in saved : stamp[x] # "old"

(* A run reported completed has attempted every session of the corpus,       *)
(* across all the children it took (job-supervisor.ts 32-38).                *)
CompletedMeansAttempted ==
  state = "completed" => \A x \in Item : stamp[x] # "old" \/ x \in tried

(* The reason the supervisor exists (job-supervisor.ts 4-8): a run does not  *)
(* sit dead unobserved.  Whatever its children do, a running run ends or is  *)
(* reported as stalled.                                                      *)
NeverSilentlyDead == state = "running" ~> state \in Terminal \cup {"stalled"}
=============================================================================
