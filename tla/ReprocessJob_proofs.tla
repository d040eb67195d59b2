------------------------- MODULE ReprocessJob_proofs -------------------------
(***************************************************************************)
(* The supervisor owns its child and keeps its restart policy, for any     *)
(* number of handles, any restart budget and any program as the child.     *)
(* `nlm reprocess` is such a child: its state file names only what was     *)
(* committed, and a run reported completed has attempted everything, for   *)
(* any number of sessions, saves, crashes and overlapping children.        *)
(***************************************************************************)
EXTENDS ReprocessJob, SequenceTheorems, FiniteSetTheorems, TLAPS

(* An exit callback is of a process that is dead, and a run that was stopped *)
(* is no longer active: what makes the late callbacks harmless.              *)
ExitsAreOfDead == \A c \in Handle : proc[c].exits > 0 => ~Running(c)

StopLetsGo == stopRequested => state \notin ActiveState

SupervisorInv == SupervisorTypeOK /\ ChildOwned /\ ExitsAreOfDead /\ StopLetsGo

-----------------------------------------------------------------------------
LEMMA ProcessTypes ==
  ASSUME proc \in [Handle -> Process], NEW c \in Handle
  PROVE  /\ proc[c].phase \in {"dead", "alive", "hung"}
         /\ proc[c].killed \in BOOLEAN /\ proc[c].ok \in BOOLEAN
         /\ proc[c].lines \in Seq(Line) /\ proc[c].exits \in Nat
         /\ proc[c] \in Process
  BY DEF Process

Over(p, ok, n) == [p EXCEPT !.phase = "dead", !.ok = ok, !.exits = n]

LEMMA ProcessOver ==
  ASSUME NEW p \in Process, NEW ok \in BOOLEAN, NEW n \in Nat
  PROVE  Over(p, ok, n) \in Process /\ Over(p, ok, n).phase = "dead" /\ Over(p, ok, n).killed = p.killed
<1>1. Over(p, ok, n) \in Process
  BY DEF Process, Over
<1>2. Over(p, ok, n).phase = "dead"
  BY DEF Process, Over
<1>3. Over(p, ok, n).killed = p.killed
  BY DEF Process, Over
<1> QED  BY <1>1, <1>2, <1>3

LEMMA ZeroIsAllowed == 0 \in Nat /\ 0 \in 0..MaxRestarts
  BY SupervisorConstants

LEMMA DeadAndBorn == Dead \in Process /\ Born \in Process
<1>1. <<>> \in Seq(Line)
  BY EmptySeq
<1> QED  BY <1>1 DEF Dead, Born, Process

(* The callback that is handled is the handle's last, or one less is left.   *)
LEMMA OneExitLessFacts ==
  ASSUME proc \in [Handle -> Process], NEW c \in Handle, proc[c].exits > 0, ~Running(c)
  PROVE  /\ OneExitLess(c) \in [Handle -> Process]
         /\ OneExitLess(c)[c].phase = "dead"
         /\ \A d \in Handle \ {c} : OneExitLess(c)[d] = proc[d]
<1>1. CASE proc[c].exits = 1
  BY <1>1, ProcessTypes DEF OneExitLess, Dead, Process
<1>2. CASE proc[c].exits # 1
  BY <1>2, ProcessTypes DEF OneExitLess, Process, Running
<1> QED  BY <1>1, <1>2

(* What a step that does not hand the child over has to keep.                *)
LEMMA StartKeepsInv ==
  ASSUME SupervisorInv, StartThrows \/ \E d \in Handle : StartSpawns(d)
  PROVE  SupervisorInv'
<1> USE SupervisorConstants DEF SupervisorInv
<1>1. CASE StartThrows
  <2>1. SupervisorTypeOK'
    BY <1>1, ZeroIsAllowed, Zenon DEF StartThrows, ResetRun, SupervisorTypeOK, Terminal, Event
  <2>2. ChildOwned' /\ ExitsAreOfDead' /\ StopLetsGo'
    BY <1>1 DEF StartThrows, ResetRun, SupervisorTypeOK, ChildOwned, ExitsAreOfDead, StopLetsGo,
                ActiveState, Running
  <2> QED  BY <2>1, <2>2
<1>2. ASSUME NEW d \in Handle, StartSpawns(d) PROVE SupervisorInv'
  <2>1. /\ d \in Handle /\ proc[d].exits = 0 /\ Born \in Process
        /\ proc' = [proc EXCEPT ![d] = Born] /\ child' = d /\ state' = "running"
        /\ child = NoChild /\ d # NoChild
    BY <1>2, DeadAndBorn DEF StartSpawns, IsFresh, Spare, ChildOwned, ActiveState
  <2>2. proc' \in [Handle -> Process]
    BY <2>1 DEF SupervisorTypeOK
  <2>6. SupervisorTypeOK'
    BY <1>2, <2>1, <2>2, ZeroIsAllowed, Zenon
    DEF StartSpawns, ResetRun, SupervisorTypeOK, ActiveState, Event
  <2>3. ChildOwned'
    BY <2>1 DEF ChildOwned, Running, SupervisorTypeOK, ActiveState
  <2>4. ExitsAreOfDead'
    BY <2>1 DEF ExitsAreOfDead, Running, SupervisorTypeOK, Born, Dead
  <2>5. StopLetsGo'
    BY <1>2 DEF StopLetsGo, StartSpawns, ResetRun
  <2> QED  BY <2>3, <2>4, <2>5, <2>6
<1> QED  BY <1>1, <1>2

LEMMA StopKeepsInv ==
  ASSUME SupervisorInv, Stop
  PROVE  SupervisorInv'
<1> USE SupervisorConstants DEF SupervisorInv
<1>1. /\ proc \in [Handle -> Process] /\ child \in Handle
      /\ state' = "stopped" /\ child' = NoChild
      /\ proc' = [c \in Handle |-> IF c = child THEN [proc[c] EXCEPT !.killed = TRUE] ELSE proc[c]]
  BY DEF Stop, SupervisorTypeOK, ChildOwned
<1>2. \A c \in Handle : /\ proc'[c] \in Process /\ proc'[c].phase = proc[c].phase
                        /\ proc'[c].exits = proc[c].exits
                        /\ proc'[c].killed = (c = child \/ proc[c].killed)
  BY <1>1, ProcessTypes DEF Process
<1>3. proc' \in [Handle -> Process]
  BY <1>1, <1>2
<1>4. SupervisorTypeOK'
  BY <1>1, <1>3 DEF Stop, SupervisorTypeOK, Terminal
<1>5. ChildOwned'
  BY <1>1, <1>2 DEF ChildOwned, Running, ActiveState
<1>6. ExitsAreOfDead' /\ StopLetsGo'
  BY <1>1, <1>2 DEF ExitsAreOfDead, StopLetsGo, Running, ActiveState
<1> QED  BY <1>4, <1>5, <1>6

LEMMA LineKeepsInv ==
  ASSUME SupervisorInv, NEW c \in Handle, DeliverLine(c)
  PROVE  SupervisorInv'
<1> USE SupervisorConstants DEF SupervisorInv
<1>1. /\ proc[c].lines \in Seq(Line) /\ proc[c].lines # <<>>
      /\ proc[c] \in Process /\ proc \in [Handle -> Process]
      /\ proc' = [proc EXCEPT ![c].lines = Tail(@)]
  BY ProcessTypes DEF DeliverLine, SupervisorTypeOK
<1>2. Head(proc[c].lines) \in Line /\ Tail(proc[c].lines) \in Seq(Line)
  BY <1>1, HeadTailProperties
<1>3. /\ proc' \in [Handle -> Process]
      /\ \A d \in Handle : /\ proc'[d].phase = proc[d].phase
                            /\ proc'[d].killed = proc[d].killed
                            /\ proc'[d].exits = proc[d].exits
  BY <1>1, <1>2 DEF Process
<1>4. ASSUME NEW line \in Line, child = c, HandleLine(line)
      PROVE  SupervisorInv'
  <2>3. line[1] \in Nat /\ line[2] \in Nat
    BY DEF Line
  <2>1. SupervisorTypeOK'
    BY <1>3, <1>4, <2>3, ZeroIsAllowed, Zenon DEF HandleLine, SupervisorTypeOK, ActiveState
  <2>2. ChildOwned' /\ ExitsAreOfDead' /\ StopLetsGo'
    BY <1>3, <1>4 DEF HandleLine, ChildOwned, ExitsAreOfDead, StopLetsGo, Running, ActiveState
  <2> QED  BY <2>1, <2>2
<1>5. CASE UNCHANGED jobVars
  BY <1>3, <1>5 DEF jobVars, SupervisorTypeOK, ChildOwned, ExitsAreOfDead, StopLetsGo, Running
<1> QED  BY <1>2, <1>4, <1>5 DEF DeliverLine

LEMMA TickKeepsInv ==
  ASSUME SupervisorInv, TimePasses \/ CheckStall
  PROVE  SupervisorInv'
<1>1. SupervisorTypeOK'
  BY Zenon DEF SupervisorInv, TimePasses, CheckStall, SupervisorTypeOK, ActiveState, Event
<1>2. ChildOwned' /\ ExitsAreOfDead' /\ StopLetsGo'
  BY DEF SupervisorInv, TimePasses, CheckStall, ChildOwned, ExitsAreOfDead, StopLetsGo, Running,
         ActiveState
<1> QED  BY <1>1, <1>2 DEF SupervisorInv

(* The exit handlers: the process is dead, so none that runs is the child's. *)
LEMMA ExitKeepsInv ==
  ASSUME SupervisorInv, NEW c \in Handle, DeliverExit(c)
  PROVE  SupervisorInv'
<1> USE SupervisorConstants DEF SupervisorInv
<1>1. proc \in [Handle -> Process] /\ proc[c].exits > 0 /\ ~Running(c)
  BY DEF DeliverExit, SupervisorTypeOK, ExitsAreOfDead
<1>2. /\ OneExitLess(c) \in [Handle -> Process]
      /\ OneExitLess(c)[c].phase = "dead"
      /\ \A d \in Handle \ {c} : OneExitLess(c)[d] = proc[d]
  BY <1>1, OneExitLessFacts
<1>3. ASSUME proc' = OneExitLess(c)
      PROVE  /\ proc' \in [Handle -> Process] /\ ExitsAreOfDead' /\ ~Running(c)'
             /\ \A d \in Handle \ {c} : proc'[d] = proc[d]
  BY <1>2, <1>3 DEF ExitsAreOfDead, Running
<1>4. CASE StaleExit(c)
  <2>1. SupervisorTypeOK'
    BY <1>3, <1>4, Zenon DEF StaleExit, SupervisorTypeOK, jobVars
  <2>2. ChildOwned' /\ ExitsAreOfDead' /\ StopLetsGo'
    BY <1>3, <1>4 DEF StaleExit, ChildOwned, StopLetsGo, Running, jobVars
  <2> QED  BY <2>1, <2>2
<1>5. CASE child = c /\ (ExitAfterStop(c) \/ Completes(c) \/ Exhausts(c) \/ RespawnThrows(c))
  <2>1. proc' = OneExitLess(c) /\ child' = NoChild /\ ~stopRequested
    BY <1>5 DEF ExitAfterStop, Completes, Exhausts, RespawnThrows, ChildOwned, StopLetsGo
  <2>2. SupervisorTypeOK'
    BY <1>3, <1>5, <2>1, Zenon
    DEF ExitAfterStop, Completes, Exhausts, RespawnThrows, SupervisorTypeOK, Terminal, Event
  <2>3. ChildOwned' /\ ExitsAreOfDead' /\ StopLetsGo'
    BY <1>3, <1>5, <2>1
    DEF ExitAfterStop, Completes, Exhausts, RespawnThrows, ChildOwned, StopLetsGo, Running,
        ActiveState
  <2> QED  BY <2>2, <2>3
<1>6. ASSUME child = c, NEW d \in Handle, Respawns(c, d)
      PROVE  SupervisorInv'
  <2>1. /\ ~Running(d) /\ proc[d].exits = 0 /\ d # c /\ Born \in Process
        /\ proc' = [OneExitLess(c) EXCEPT ![d] = Born] /\ child' = d /\ state' = "running"
    BY <1>1, <1>6, DeadAndBorn DEF Respawns, IsFresh, Spare
  <2>2. restarts + 1 \in 0..MaxRestarts /\ restartsTotal + 1 \in Nat
    BY <1>6 DEF Respawns, CapReached, SupervisorTypeOK
  <2>3. proc' \in [Handle -> Process]
    BY <1>2, <2>1
  <2>4. SupervisorTypeOK'
    BY <1>6, <2>1, <2>2, <2>3, Zenon DEF Respawns, SupervisorTypeOK, ActiveState
  <2>5. /\ proc'[d] = Born /\ proc'[c].phase = "dead"
        /\ \A e \in Handle \ {c, d} : proc'[e] = proc[e]
        /\ proc'[c] = OneExitLess(c)[c]
    BY <1>2, <2>1
  <2>6. ChildOwned'
    BY <1>6, <2>1, <2>5 DEF ChildOwned, Running, ActiveState
  <2>7. ExitsAreOfDead'
    BY <2>5 DEF ExitsAreOfDead, Running, Born, Dead
  <2>8. StopLetsGo'
    BY <1>6 DEF Respawns, StopLetsGo
  <2> QED  BY <2>4, <2>6, <2>7, <2>8
<1> QED  BY <1>4, <1>5, <1>6 DEF DeliverExit, HandleExit

(* The processes go on by themselves.                                        *)
LEMMA ProcessKeepsInv ==
  ASSUME SupervisorInv, UNCHANGED jobVars, NEW c \in Handle,
         \/ Hangs(c)
         \/ \E line \in Line : Prints(c, line)
         \/ \E ok \in BOOLEAN, callbacks \in 1..2 : Exits(c, ok, callbacks)
  PROVE  SupervisorInv'
<1> USE DEF SupervisorInv
<1> DEFINE Kept == /\ proc' \in [Handle -> Process] /\ ExitsAreOfDead'
                   /\ \A d \in Handle : (Running(d)' => Running(d)) /\ proc'[d].killed = proc[d].killed
<1>1. Kept
  <2> USE DEF SupervisorTypeOK
  <2>1. CASE Hangs(c)
    BY <2>1, ProcessTypes DEF Hangs, Process, Running, ExitsAreOfDead
  <2>2. ASSUME NEW line \in Line, Prints(c, line) PROVE Kept
    <3>1. Append(proc[c].lines, line) \in Seq(Line)
      BY ProcessTypes, AppendProperties
    <3> QED  BY <2>2, <3>1, ProcessTypes DEF Prints, Process, Running, ExitsAreOfDead
  <2>3. ASSUME NEW ok \in BOOLEAN, NEW callbacks \in 1..2, Exits(c, ok, callbacks) PROVE Kept
    <3> DEFINE r == Over(proc[c], ok, callbacks)
    <3>1. proc' = [proc EXCEPT ![c] = r]
      BY <2>3 DEF Exits, Over
    <3>2. r \in Process /\ r.phase = "dead" /\ r.killed = proc[c].killed
      <4>1. proc[c] \in Process /\ callbacks \in Nat
        BY ProcessTypes
      <4> QED  BY <4>1, ProcessOver
    <3> HIDE DEF r
    <3>3. proc' \in [Handle -> Process] /\ \A d \in Handle : proc'[d] = IF d = c THEN r ELSE proc[d]
      BY <3>1, <3>2
    <3> QED  BY <3>2, <3>3 DEF Running, ExitsAreOfDead
  <2> QED  BY <2>1, <2>2, <2>3
<1>2. SupervisorTypeOK'
  BY <1>1, Zenon DEF jobVars, SupervisorTypeOK
<1>3. ChildOwned' /\ StopLetsGo'
  BY <1>1 DEF jobVars, ChildOwned, StopLetsGo
<1> QED  BY <1>1, <1>2, <1>3

LEMMA SupervisorStepKeepsInv ==
  ASSUME SupervisorInv, [SupervisorNext]_supervisorVars
  PROVE  SupervisorInv'
<1>1. CASE UNCHANGED supervisorVars
  BY <1>1 DEF supervisorVars, jobVars, SupervisorInv, SupervisorTypeOK, ChildOwned, ExitsAreOfDead,
              StopLetsGo, Running
<1>2. CASE SupervisorNext
  BY <1>2, StartKeepsInv, StopKeepsInv, LineKeepsInv, TickKeepsInv, ExitKeepsInv, ProcessKeepsInv
  DEF SupervisorNext
<1> QED  BY <1>1, <1>2

LEMMA SupervisorInitInv == SupervisorInit => SupervisorInv
<1> SUFFICES ASSUME SupervisorInit PROVE SupervisorInv
  OBVIOUS
<1>1. SupervisorTypeOK
  BY ZeroIsAllowed, DeadAndBorn, SupervisorConstants, Zenon DEF SupervisorInit, SupervisorTypeOK, Event
<1>2. ChildOwned /\ ExitsAreOfDead /\ StopLetsGo
  BY DEF SupervisorInit, ChildOwned, ExitsAreOfDead, StopLetsGo, Running, Dead, ActiveState
<1> QED  BY <1>1, <1>2 DEF SupervisorInv

(* Everything the supervisor keeps is well formed, and its count of restarts *)
(* without progress never passes the cap.                                    *)
THEOREM SupervisorTypeCorrect == SupervisorSpec => []SupervisorTypeOK
  BY SupervisorInitInv, SupervisorStepKeepsInv, PTL DEF SupervisorSpec, SupervisorInv

(* No child is leaked by a respawn, by a stop or by a late exit of the one   *)
(* before it, and an active run has a child.                                 *)
THEOREM SupervisorOwnsItsChild == SupervisorSpec => []ChildOwned
  BY SupervisorInitInv, SupervisorStepKeepsInv, PTL DEF SupervisorSpec, SupervisorInv

-----------------------------------------------------------------------------
(* The refinement: what the operator sees of a step.                         *)
LEMMA StepKeepsPolicy ==
  ASSUME SupervisorInv, [SupervisorNext]_supervisorVars
  PROVE  [Run!RunNext]_(Run!runVars)
<1> USE SupervisorConstants DEF SupervisorInv
<1> DEFINE Same == RunPhase' = RunPhase /\ restarts' = restarts
<1>0. SUFFICES \/ Run!RunNext
               \/ Same
  BY DEF Run!runVars
<1>1. restarts \in 0..MaxRestarts /\ MaxRestarts \in Nat
  BY DEF SupervisorTypeOK
<1>2. CASE StartThrows \/ \E d \in Handle : StartSpawns(d)
  <2>1. RunPhase # "active" /\ RunPhase' \in {"active", "spawn_failed"} /\ restarts' = 0
    BY <1>2 DEF StartThrows, StartSpawns, ResetRun, RunPhase, ActiveState, Terminal, SupervisorTypeOK
  <2> QED  BY <1>1, <2>1 DEF Run!RunNext, Run!Begin
<1>3. CASE Stop
  <2>1. RunPhase = "active" /\ RunPhase' = "stopped" /\ restarts' = restarts
    BY <1>3 DEF Stop, RunPhase, ActiveState
  <2> QED  BY <2>1 DEF Run!RunNext, Run!Finish, Run!Ended
<1>4. CASE TimePasses \/ CheckStall
  BY <1>4 DEF TimePasses, CheckStall, RunPhase, ActiveState
<1>5. ASSUME NEW c \in Handle, DeliverLine(c)
      PROVE  Run!RunNext \/ Same
  <2>1. CASE child # c
    BY <1>5, <2>1 DEF DeliverLine, jobVars, RunPhase
  <2>2. ASSUME child = c, NEW line, HandleLine(line)
        PROVE  Run!RunNext
    <3>1. RunPhase = "active" /\ RunPhase' = "active" /\ restarts' = 0
      BY <2>2 DEF HandleLine, RunPhase, ChildOwned, ActiveState
    <3> QED  BY <1>1, <3>1 DEF Run!RunNext, Run!Advance
  <2> QED  BY <1>5, <2>1, <2>2 DEF DeliverLine
<1>6. ASSUME NEW c \in Handle, DeliverExit(c)
      PROVE  Run!RunNext \/ Same
  <2>1. CASE StaleExit(c)
    BY <2>1 DEF StaleExit, jobVars, RunPhase
  <2>2. CASE child = c /\ HandleExit(c)
    <3>1. RunPhase = "active" /\ ~stopRequested
      BY <2>2 DEF RunPhase, ChildOwned, StopLetsGo, ActiveState
    <3>2. CASE Completes(c) \/ RespawnThrows(c)
      <4>1. RunPhase' \in {"completed", "spawn_failed"} /\ restarts' = restarts
        BY <3>2 DEF Completes, RespawnThrows, RunPhase, ActiveState
      <4> QED  BY <3>1, <4>1 DEF Run!RunNext, Run!Finish, Run!Ended
    <3>3. CASE Exhausts(c)
      <4>1. RunPhase' = "exhausted" /\ restarts' = restarts /\ restarts >= MaxRestarts
        BY <3>3 DEF Exhausts, CapReached, RunPhase, ActiveState
      <4> QED  BY <1>1, <3>1, <4>1 DEF Run!RunNext, Run!GiveUp
    <3>4. ASSUME NEW d \in Handle, Respawns(c, d)
          PROVE  Run!RunNext
      <4>1. RunPhase' = "active" /\ restarts' = restarts + 1 /\ restarts < MaxRestarts
        BY <1>1, <3>4 DEF Respawns, CapReached, RunPhase, ActiveState
      <4> QED  BY <1>1, <3>1, <4>1 DEF Run!RunNext, Run!Replace
    <3> QED  BY <2>2, <3>1, <3>2, <3>3, <3>4 DEF HandleExit, ExitAfterStop
  <2> QED  BY <1>6, <2>1, <2>2 DEF DeliverExit
<1>7. CASE UNCHANGED jobVars
  BY <1>7 DEF jobVars, RunPhase
<1>8. CASE UNCHANGED supervisorVars
  BY <1>7, <1>8 DEF supervisorVars
<1> QED  BY <1>2, <1>3, <1>4, <1>5, <1>6, <1>7, <1>8 DEF SupervisorNext

(* The supervisor implements the restart policy of its header: one run at a  *)
(* time, at most MaxRestarts replacements between two advances, given up     *)
(* exactly when they are spent, and one end, for every order in which lines, *)
(* exits, stops and starts arrive.                                           *)
THEOREM SupervisorImplementsPolicy == SupervisorSpec => KeepsRestartPolicy
<1>1. SupervisorInit => Run!RunInit
  BY SupervisorConstants DEF SupervisorInit, Run!RunInit, RunPhase, ActiveState
<1>2. SupervisorInv /\ [SupervisorNext]_supervisorVars => SupervisorInv'
  BY SupervisorStepKeepsInv
<1>3. SupervisorInv /\ [SupervisorNext]_supervisorVars => [Run!RunNext]_(Run!runVars)
  BY StepKeepsPolicy
<1> QED  BY <1>1, <1>2, <1>3, SupervisorInitInv, PTL
         DEF SupervisorSpec, KeepsRestartPolicy, Run!RunSpec

-----------------------------------------------------------------------------
(* The job: its child, and what outlives a crash of it.                      *)
Work == [booted : BOOLEAN, todo : SUBSET Item, n : Nat, loaded : SUBSET Item,
         fresh : SUBSET Item, report : {"none", "ok", "failed"}]

DataTypeOK ==
  /\ stamp \in [Item -> {"old", "low", "ok"}]
  /\ saved \subseteq Item /\ tried \subseteq Item
  /\ work \in [Handle -> Work]
  /\ starts \in 0..MaxStarts /\ faults \in 0..MaxFaults

(* A child never has more left than it set out with: its progress is a       *)
(* number.                                                                   *)
CountsAgree == \A c \in Handle : Cardinality(work[c].todo) <= work[c].n

(* What a child in memory would write to the file is committed as well.      *)
DoneIsStamped == \A c \in Handle : \A x \in DoneSet(c) : stamp[x] # "old"

ReprocessInv == DataTypeOK /\ CountsAgree /\ SavedMeansStamped /\ DoneIsStamped

-----------------------------------------------------------------------------
LEMMA TodoIsFinite ==
  ASSUME NEW S \in SUBSET Item
  PROVE  IsFiniteSet(S) /\ Cardinality(S) \in Nat
  BY ReprocessConstants, FS_Subset, FS_CardinalityType

LEMMA OneLessToDo ==
  ASSUME NEW S \in SUBSET Item, NEW x \in S
  PROVE  Cardinality(S \ {x}) <= Cardinality(S)
<1>1. IsFiniteSet(S) /\ Cardinality(S) \in Nat
  BY TodoIsFinite
<1>2. Cardinality(S \ {x}) = Cardinality(S) - 1
  BY <1>1, FS_RemoveElement
<1> QED  BY <1>1, <1>2

LEMMA WorkTypes ==
  ASSUME work \in [Handle -> Work], NEW c \in Handle
  PROVE  /\ work[c].todo \in SUBSET Item /\ work[c].n \in Nat
         /\ work[c].loaded \in SUBSET Item /\ work[c].fresh \in SUBSET Item
         /\ work[c].report \in {"none", "ok", "failed"} /\ work[c].booted \in BOOLEAN
         /\ work[c] \in Work
  BY DEF Work

LEMMA AsleepIsFit == Asleep \in Work /\ Cardinality(Asleep.todo) <= Asleep.n /\ Asleep.loaded = {} /\ Asleep.fresh = {}
  BY FS_EmptySet DEF Asleep, Work

-----------------------------------------------------------------------------
(* Every step of the composed job is a step of the supervisor or of a        *)
(* process as it knows them.                                                 *)
LEMMA ReportIsALine ==
  ASSUME ReprocessInv, NEW c \in Handle
  PROVE  <<work[c].n - Cardinality(work[c].todo), work[c].n>> \in Line
<1>1. /\ work[c].n \in Nat /\ Cardinality(work[c].todo) \in Nat
      /\ Cardinality(work[c].todo) <= work[c].n
  BY WorkTypes, TodoIsFinite DEF ReprocessInv, DataTypeOK, CountsAgree
<1> QED  BY <1>1 DEF Line

LEMMA StepIsSupervisorStep ==
  ASSUME ReprocessInv, [ReprocessNext]_reprocessVars
  PROVE  [SupervisorNext]_supervisorVars
<1>1. CASE Start \/ OperatorStops \/ Ticks
  <2>1. Start => StartThrows \/ \E d \in Handle : StartSpawns(d)
    BY DEF Start
  <2>2. OperatorStops => Stop
    BY DEF OperatorStops
  <2>3. Ticks => TimePasses \/ CheckStall
    BY DEF Ticks
  <2> QED  BY <1>1, <2>1, <2>2, <2>3 DEF SupervisorNext
<1>2. CASE Rests \/ UNCHANGED reprocessVars
  BY <1>2 DEF Rests, reprocessVars
<1>3. ASSUME NEW c \in Handle, LineArrives(c) \/ ExitArrives(c)
      PROVE  SupervisorNext
  BY <1>3 DEF LineArrives, ExitArrives, SupervisorNext
<1>4. ASSUME NEW c \in Handle, ChildSelects(c) \/ \E x \in Item : ChildCommits(c, x)
      PROVE  UNCHANGED supervisorVars
  BY <1>4 DEF ChildSelects, ChildCommits
<1>5. ASSUME NEW c \in Handle, ChildReports(c)
      PROVE  SupervisorNext
  BY <1>5, ReportIsALine DEF ChildReports, SupervisorNext
<1>6. ASSUME NEW c \in Handle,
             ChildFinishes(c) \/ ChildCrashes(c) \/ ChildHangs(c) \/ KilledDies(c)
      PROVE  SupervisorNext
  <2>1. ChildFinishes(c) => Exits(c, TRUE, 1) /\ UNCHANGED jobVars
    BY DEF ChildFinishes
  <2>2. ChildCrashes(c) => (Exits(c, FALSE, 1) \/ Exits(c, FALSE, 2)) /\ UNCHANGED jobVars
    BY DEF ChildCrashes
  <2>3. ChildHangs(c) => Hangs(c) /\ UNCHANGED jobVars
    BY DEF ChildHangs
  <2>4. KilledDies(c) => Exits(c, FALSE, 1) /\ UNCHANGED jobVars
    BY DEF KilledDies
  <2>. 1 \in 1..2 /\ 2 \in 1..2
    OBVIOUS
  <2>5. /\ UNCHANGED jobVars
        /\ Hangs(c) \/ \E ok \in BOOLEAN, callbacks \in 1..2 : Exits(c, ok, callbacks)
    <3>. DEFINE Dies == \E ok \in BOOLEAN, callbacks \in 1..2 : Exits(c, ok, callbacks)
    <3>1. /\ Exits(c, TRUE, 1) => Dies
          /\ Exits(c, FALSE, 1) => Dies
          /\ Exits(c, FALSE, 2) => Dies
      OBVIOUS
    <3>. HIDE DEF Dies
    <3>2. UNCHANGED jobVars /\ (Hangs(c) \/ Dies)
      BY <1>6, <2>1, <2>2, <2>3, <2>4, <3>1
    <3>. QED  BY <3>2 DEF Dies
  <2> QED  BY <2>5 DEF SupervisorNext
<1> QED  BY <1>1, <1>2, <1>3, <1>4, <1>5, <1>6 DEF ReprocessNext, ChildSteps

-----------------------------------------------------------------------------
(* A process whose memory becomes r; commits are never taken back.           *)
LEMMA MemoryChanges ==
  ASSUME ReprocessInv, NEW c \in Handle, NEW r \in Work, work' = [work EXCEPT ![c] = r],
         Cardinality(r.todo) <= r.n,
         \A x \in Item : stamp[x] # "old" => stamp'[x] # "old",
         \A x \in r.loaded \cup r.fresh : stamp'[x] # "old"
  PROVE  work' \in [Handle -> Work] /\ CountsAgree' /\ DoneIsStamped'
<1>1. work \in [Handle -> Work] /\ CountsAgree /\ DoneIsStamped
  BY DEF ReprocessInv, DataTypeOK
<1>2. /\ work' \in [Handle -> Work]
      /\ \A d \in Handle : work'[d] = IF d = c THEN r ELSE work[d]
  BY <1>1
<1>3. CountsAgree'
  BY <1>1, <1>2 DEF CountsAgree
<1>4. ASSUME NEW d \in Handle, NEW x, x \in work'[d].loaded \cup work'[d].fresh
      PROVE  stamp'[x] # "old"
  <2>1. CASE d = c
    BY <1>2, <1>4, <2>1
  <2>2. CASE d # c
    <3>1. x \in DoneSet(d) /\ x \in Item
      BY <1>1, <1>2, <1>4, <2>2, WorkTypes DEF DoneSet
    <3> QED  BY <1>1, <3>1 DEF DoneIsStamped
  <2> QED  BY <2>1, <2>2
<1> QED  BY <1>2, <1>3, <1>4 DEF DoneIsStamped, DoneSet

LEMMA FaultsAreBounded == ASSUME faults \in 0..MaxFaults, Fault PROVE faults' \in 0..MaxFaults
  BY ReprocessConstants DEF Fault

(* Steps of the supervisor leave the corpus, the file and the memories alone. *)
LEMMA SupervisorSideKeepsInv ==
  ASSUME ReprocessInv,
         \/ Start \/ OperatorStops \/ Ticks \/ Rests
         \/ \E c \in Handle : LineArrives(c) \/ ExitArrives(c) \/ ChildHangs(c)
         \/ UNCHANGED reprocessVars
  PROVE  ReprocessInv'
<1>1. UNCHANGED <<stamp, saved, work>> /\ tried' \in {tried, {}}
  BY DEF Start, OperatorStops, Ticks, Rests, LineArrives, ExitArrives, ChildHangs, reprocessVars,
         childVars
<1>2. starts' \in 0..MaxStarts
  BY ReprocessConstants
  DEF ReprocessInv, DataTypeOK, Start, OperatorStops, Ticks, Rests, LineArrives, ExitArrives,
      ChildHangs, reprocessVars, childVars
<1>3. faults' \in 0..MaxFaults
  <2>1. faults \in 0..MaxFaults
    BY DEF ReprocessInv, DataTypeOK
  <2>2. UNCHANGED faults \/ Fault
    BY DEF Start, OperatorStops, Ticks, Rests, LineArrives, ExitArrives, ChildHangs, reprocessVars,
           childVars
  <2> QED  BY <2>1, <2>2, FaultsAreBounded
<1> QED  BY <1>1, <1>2, <1>3
         DEF ReprocessInv, DataTypeOK, CountsAgree, SavedMeansStamped, DoneIsStamped, DoneSet

LEMMA SelectKeepsInv ==
  ASSUME ReprocessInv, NEW c \in Handle, ChildSelects(c)
  PROVE  ReprocessInv'
<1> DEFINE todo == Candidates \ saved
           r == [Asleep EXCEPT !.booted = TRUE, !.loaded = saved, !.todo = todo,
                               !.n = Cardinality(todo)]
<1>1. work' = [work EXCEPT ![c] = r] /\ UNCHANGED <<stamp, saved, tried, starts, faults>>
  BY DEF ChildSelects
<1>2. todo \in SUBSET Item /\ saved \in SUBSET Item
  BY DEF Candidates, ReprocessInv, DataTypeOK
<1>3. /\ r \in Work /\ r.todo = todo /\ r.n = Cardinality(todo)
      /\ r.loaded = saved /\ r.fresh = {} /\ Cardinality(todo) \in Nat
  <2>1. Cardinality(todo) \in Nat
    BY <1>2, TodoIsFinite
  <2> HIDE DEF todo
  <2> QED  BY <1>2, <2>1 DEF Asleep, Work
<1>4. \A x \in saved : stamp'[x] # "old"
  BY <1>1 DEF ReprocessInv, SavedMeansStamped
<1>a. /\ Cardinality(r.todo) <= r.n
      /\ \A x \in r.loaded \cup r.fresh : stamp'[x] # "old"
      /\ \A x \in Item : stamp[x] # "old" => stamp'[x] # "old"
  BY <1>1, <1>3, <1>4
<1> HIDE DEF r, todo
<1>5. work' \in [Handle -> Work] /\ CountsAgree' /\ DoneIsStamped'
  BY <1>1, <1>3, <1>a, MemoryChanges
<1> QED  BY <1>1, <1>5 DEF ReprocessInv, DataTypeOK, SavedMeansStamped

LEMMA CommitKeepsInv ==
  ASSUME ReprocessInv, NEW c \in Handle, NEW x \in Item, ChildCommits(c, x)
  PROVE  ReprocessInv'
<1> DEFINE ok == [work[c] EXCEPT !.todo = @ \ {x}, !.fresh = @ \cup {x}, !.report = "ok"]
           failed == [work[c] EXCEPT !.todo = @ \ {x}, !.report = "failed"]
<1>1. /\ work[c] \in Work /\ work[c].todo \in SUBSET Item /\ x \in work[c].todo
      /\ Cardinality(work[c].todo) <= work[c].n /\ work[c].n \in Nat
      /\ Cardinality(work[c].todo) \in Nat /\ Cardinality(work[c].todo \ {x}) \in Nat
      /\ stamp \in [Item -> {"old", "low", "ok"}]
      /\ work[c].loaded \in SUBSET Item /\ work[c].fresh \in SUBSET Item
  BY WorkTypes, TodoIsFinite DEF ChildCommits, ReprocessInv, DataTypeOK, CountsAgree
<1>2. Cardinality(work[c].todo \ {x}) <= work[c].n
  BY <1>1, OneLessToDo
<1>a. /\ work[c].todo \ {x} \in SUBSET Item
      /\ work[c].fresh \cup {x} \in SUBSET Item
  BY <1>1
<1>b. work[c] \in Work
  BY <1>1
<1>c. /\ ok.todo = work[c].todo \ {x} /\ ok.n = work[c].n
      /\ ok.loaded = work[c].loaded /\ ok.fresh = work[c].fresh \cup {x}
  BY <1>b DEF Work
<1>d. ok \in Work
  BY <1>a, <1>b DEF Work
<1>3. /\ ok \in Work /\ ok.todo = work[c].todo \ {x} /\ ok.n = work[c].n
      /\ ok.loaded = work[c].loaded /\ ok.fresh = work[c].fresh \cup {x}
  BY <1>c, <1>d
<1>4. /\ failed \in Work /\ failed.todo = work[c].todo \ {x} /\ failed.n = work[c].n
      /\ failed.loaded = work[c].loaded /\ failed.fresh = work[c].fresh
  BY <1>a, <1>b DEF Work
<1>5. \A y \in work[c].loaded \cup work[c].fresh : stamp[y] # "old"
  BY DEF ReprocessInv, DoneIsStamped, DoneSet
<1>6. /\ stamp' \in [Item -> {"old", "low", "ok"}]
      /\ \A y \in Item : stamp[y] # "old" => stamp'[y] # "old"
      /\ \/ work' = [work EXCEPT ![c] = ok] /\ stamp'[x] # "old"
         \/ work' = [work EXCEPT ![c] = failed]
      /\ tried' \subseteq Item /\ UNCHANGED <<saved, starts>>
  BY <1>1 DEF ChildCommits, ReprocessInv, DataTypeOK
<1>e. faults' \in 0..MaxFaults
  <2>1. UNCHANGED faults \/ Fault
    BY DEF ChildCommits
  <2> QED  BY <2>1, FaultsAreBounded DEF ReprocessInv, DataTypeOK
<1> HIDE DEF ok, failed
<1>7. work' \in [Handle -> Work] /\ CountsAgree' /\ DoneIsStamped'
  <2>1. CASE work' = [work EXCEPT ![c] = ok] /\ stamp'[x] # "old"
    <3>1. \A y \in ok.loaded \cup ok.fresh : stamp'[y] # "old"
      BY <1>1, <1>3, <1>5, <1>6, <2>1
    <3> QED  BY <1>2, <1>3, <1>6, <2>1, <3>1, MemoryChanges
  <2>2. CASE work' = [work EXCEPT ![c] = failed]
    <3>1. \A y \in failed.loaded \cup failed.fresh : stamp'[y] # "old"
      BY <1>1, <1>4, <1>5, <1>6
    <3> QED  BY <1>2, <1>4, <1>6, <2>2, <3>1, MemoryChanges
  <2> QED  BY <1>6, <2>1, <2>2
<1> QED  BY <1>6, <1>e, <1>7 DEF ReprocessInv, DataTypeOK, SavedMeansStamped

LEMMA ReportKeepsInv ==
  ASSUME ReprocessInv, NEW c \in Handle, ChildReports(c)
  PROVE  ReprocessInv'
<1>1. /\ work' = [work EXCEPT ![c] = [work[c] EXCEPT !.report = "none"]]
      /\ saved' \in {saved, DoneSet(c)}
      /\ UNCHANGED <<stamp, tried, starts>>
  BY DEF ChildReports
<1> DEFINE r == [work[c] EXCEPT !.report = "none"]
<1>a. faults' \in 0..MaxFaults
  <2>1. UNCHANGED faults \/ Fault
    BY DEF ChildReports
  <2> QED  BY <2>1, FaultsAreBounded DEF ReprocessInv, DataTypeOK
<1>2. /\ work[c] \in Work /\ Cardinality(work[c].todo) <= work[c].n
      /\ work[c].loaded \in SUBSET Item /\ work[c].fresh \in SUBSET Item
  BY WorkTypes DEF ReprocessInv, DataTypeOK, CountsAgree
<1>3. /\ r \in Work /\ r.todo = work[c].todo /\ r.n = work[c].n
      /\ r.loaded = work[c].loaded /\ r.fresh = work[c].fresh
  BY <1>2 DEF Work
<1>4. \A x \in DoneSet(c) : stamp'[x] # "old"
  BY <1>1 DEF ReprocessInv, DoneIsStamped
<1>b. work' = [work EXCEPT ![c] = r]
  BY <1>1
<1> HIDE DEF r
<1>5. work' \in [Handle -> Work] /\ CountsAgree' /\ DoneIsStamped'
  <2>1. \A x \in Item : stamp[x] # "old" => stamp'[x] # "old"
    BY <1>1
  <2>2. \A x \in r.loaded \cup r.fresh : stamp'[x] # "old"
    BY <1>3, <1>4 DEF DoneSet
  <2> QED  BY <1>b, <1>2, <1>3, <2>1, <2>2, MemoryChanges
<1>6. SavedMeansStamped' /\ saved' \subseteq Item
  BY <1>1, <1>2, <1>4 DEF ReprocessInv, DataTypeOK, SavedMeansStamped, DoneSet
<1> QED  BY <1>1, <1>a, <1>5, <1>6 DEF ReprocessInv, DataTypeOK

(* The end of a process, in order or not: its memory is gone.                *)
LEMMA EndKeepsInv ==
  ASSUME ReprocessInv, NEW c \in Handle, ChildFinishes(c) \/ ChildCrashes(c) \/ KilledDies(c)
  PROVE  ReprocessInv'
<1>1. /\ work' = [work EXCEPT ![c] = Asleep] /\ saved' \in {saved, DoneSet(c)}
      /\ UNCHANGED <<stamp, tried, starts>>
  BY DEF ChildFinishes, ChildCrashes, KilledDies
<1>2. /\ work[c].loaded \in SUBSET Item /\ work[c].fresh \in SUBSET Item
  BY WorkTypes DEF ReprocessInv, DataTypeOK
<1>3. work' \in [Handle -> Work] /\ CountsAgree' /\ DoneIsStamped'
  BY <1>1, AsleepIsFit, MemoryChanges
<1>4. SavedMeansStamped' /\ saved' \subseteq Item
  BY <1>1, <1>2 DEF ReprocessInv, DataTypeOK, SavedMeansStamped, DoneIsStamped, DoneSet
<1>5. faults' \in 0..MaxFaults
  <2>1. faults \in 0..MaxFaults
    BY DEF ReprocessInv, DataTypeOK
  <2>2. UNCHANGED faults \/ Fault
    BY DEF ChildFinishes, ChildCrashes, KilledDies
  <2> QED  BY <2>1, <2>2, FaultsAreBounded
<1> QED  BY <1>1, <1>3, <1>4, <1>5 DEF ReprocessInv, DataTypeOK

LEMMA ReprocessStepKeepsInv ==
  ASSUME ReprocessInv, [ReprocessNext]_reprocessVars
  PROVE  ReprocessInv'
  BY SupervisorSideKeepsInv, SelectKeepsInv, CommitKeepsInv, ReportKeepsInv, EndKeepsInv
  DEF ReprocessNext, ChildSteps

LEMMA ReprocessInitInv == ReprocessInit => ReprocessInv
<1> SUFFICES ASSUME ReprocessInit PROVE ReprocessInv
  OBVIOUS
<1>1. work = [c \in Handle |-> Asleep] /\ saved = {} /\ tried = {} /\ starts = 0 /\ faults = 0
  BY DEF ReprocessInit
<1>2. DataTypeOK
  BY <1>1, AsleepIsFit, ReprocessConstants DEF ReprocessInit, DataTypeOK
<1>3. CountsAgree /\ SavedMeansStamped /\ DoneIsStamped
  BY <1>1, AsleepIsFit DEF CountsAgree, SavedMeansStamped, DoneIsStamped, DoneSet
<1> QED  BY <1>2, <1>3 DEF ReprocessInv

-----------------------------------------------------------------------------
(* The job as a whole is the supervisor with a particular child, so what is  *)
(* proved of the supervisor holds of it.                                     *)
THEOREM ReprocessIsSupervised == ReprocessSpec => SupervisorSpec
<1>1. ReprocessInit => SupervisorInit
  BY DEF ReprocessInit
<1>2. ReprocessInv /\ [ReprocessNext]_reprocessVars => ReprocessInv'
  BY ReprocessStepKeepsInv
<1>3. ReprocessInv /\ [ReprocessNext]_reprocessVars => [SupervisorNext]_supervisorVars
  BY StepIsSupervisorStep
<1> QED  BY <1>1, <1>2, <1>3, ReprocessInitInv, PTL DEF ReprocessSpec, SupervisorSpec

(* A session a state file names was committed, whatever crashed when, and    *)
(* though a killed child and its successor write the same file.              *)
THEOREM SavedIsStamped == ReprocessSpec => []SavedMeansStamped
<1>1. ReprocessInv /\ [ReprocessNext]_reprocessVars => ReprocessInv'
  BY ReprocessStepKeepsInv
<1>2. ReprocessInv => SavedMeansStamped
  BY DEF ReprocessInv
<1> QED  BY <1>1, <1>2, ReprocessInitInv, PTL DEF ReprocessSpec

(* Type correctness of the job: the supervisor's and its child's.            *)
THEOREM ReprocessTypeCorrect == ReprocessSpec => []ReprocessTypeOK
<1>1. ReprocessInv /\ [ReprocessNext]_reprocessVars => ReprocessInv'
  BY ReprocessStepKeepsInv
<1>2. ReprocessInv /\ SupervisorTypeOK => ReprocessTypeOK
  BY DEF ReprocessInv, DataTypeOK, Work, ReprocessTypeOK
<1>3. ReprocessSpec => []ReprocessInv
  BY <1>1, ReprocessInitInv, PTL DEF ReprocessSpec
<1> QED  BY <1>2, <1>3, ReprocessIsSupervised, SupervisorTypeCorrect, PTL

(* No child of the job is leaked, with crashes, hangs and kills.             *)
THEOREM ReprocessOwnsItsChild == ReprocessSpec => []ChildOwned
  BY ReprocessIsSupervised, SupervisorOwnsItsChild, PTL

(* And the job keeps the supervisor's restart policy.                        *)
THEOREM ReprocessKeepsPolicy == ReprocessSpec => KeepsRestartPolicy
  BY ReprocessIsSupervised, SupervisorImplementsPolicy

-----------------------------------------------------------------------------
(* Completion.  What the run has left is in the hands of its child: once     *)
(* that has selected, whatever is not done is still to be done by it, and a  *)
(* clean end is of a child that had nothing left.  A process that is dead    *)
(* has no memory for the next child on its handle to find.                   *)
Attempted(x) == stamp[x] # "old" \/ x \in tried

DeadAreAsleep == \A c \in Handle : ~Running(c) => ~work[c].booted

ChildHasTheRest ==
  child # NoChild /\ work[child].booted => \A x \in Item : Attempted(x) \/ x \in work[child].todo

FinishedHasAttempted ==
  child # NoChild /\ proc[child].exits > 0 /\ proc[child].ok => \A x \in Item : Attempted(x)

AttemptInv == DeadAreAsleep /\ ChildHasTheRest /\ FinishedHasAttempted /\ CompletedMeansAttempted

LEMMA AttemptInitInv == ReprocessInit => AttemptInv
  BY DEF ReprocessInit, SupervisorInit, Asleep, AttemptInv, DeadAreAsleep, ChildHasTheRest,
         FinishedHasAttempted, CompletedMeansAttempted

(* The run gets a new child: its handle was spare, so it has not booted.     *)
LEMMA NewChildKeepsAttempts ==
  ASSUME AttemptInv, NEW d \in Handle, ~Running(d), child' = d, state' = "running", UNCHANGED work,
         proc'[d].exits = 0, \A c \in Handle \ {d} : Running(c)' = Running(c)
  PROVE  AttemptInv'
<1>1. ~work[d].booted
  BY DEF AttemptInv, DeadAreAsleep
<1>2. DeadAreAsleep'
  BY <1>1 DEF AttemptInv, DeadAreAsleep
<1> QED  BY <1>1, <1>2 DEF AttemptInv, ChildHasTheRest, FinishedHasAttempted, CompletedMeansAttempted

(* The run loses its child.                                                  *)
LEMMA NoChildKeepsAttempts ==
  ASSUME AttemptInv, child' = NoChild, UNCHANGED work, \A c \in Handle : Running(c)' = Running(c),
         state' = "completed" => \A x \in Item : Attempted(x)'
  PROVE  AttemptInv'
  BY DEF AttemptInv, DeadAreAsleep, ChildHasTheRest, FinishedHasAttempted, CompletedMeansAttempted, Attempted

(* The run keeps its child, and nobody works.                                *)
LEMMA SameChildKeepsAttempts ==
  ASSUME AttemptInv, UNCHANGED <<child, work, stamp, tried>>, \A c \in Handle : Running(c)' = Running(c),
         child \in Handle => proc'[child].exits = proc[child].exits /\ proc'[child].ok = proc[child].ok,
         child \in Handle \cup {NoChild},
         state' = "completed" => state = "completed"
  PROVE  AttemptInv'
<1>1. DeadAreAsleep'
  BY DEF AttemptInv, DeadAreAsleep
<1>2. ChildHasTheRest' /\ FinishedHasAttempted'
  BY DEF AttemptInv, ChildHasTheRest, FinishedHasAttempted, Attempted
<1>3. CompletedMeansAttempted'
  BY DEF AttemptInv, CompletedMeansAttempted
<1> QED  BY <1>1, <1>2, <1>3 DEF AttemptInv

LEMMA StartKeepsAttempts ==
  ASSUME SupervisorInv, AttemptInv, Start
  PROVE  AttemptInv'
<1>1. proc \in [Handle -> Process] /\ UNCHANGED work
  BY DEF SupervisorInv, SupervisorTypeOK, Start
<1>2. CASE StartThrows
  BY <1>1, <1>2, NoChildKeepsAttempts DEF StartThrows, Running
<1>3. ASSUME NEW d \in Handle, StartSpawns(d) PROVE AttemptInv'
  <2>1. ~Running(d) /\ child' = d /\ state' = "running" /\ proc' = [proc EXCEPT ![d] = Born] /\ Born.exits = 0
    BY <1>3 DEF StartSpawns, IsFresh, Spare, Born, Dead
  <2>2. proc'[d].exits = 0 /\ \A c \in Handle \ {d} : Running(c)' = Running(c)
    BY <1>1, <2>1 DEF Running
  <2> QED  BY <1>1, <2>1, <2>2, NewChildKeepsAttempts
<1> QED  BY <1>2, <1>3 DEF Start

LEMMA StopKeepsAttempts ==
  ASSUME SupervisorInv, AttemptInv, OperatorStops
  PROVE  AttemptInv'
<1>1. /\ proc \in [Handle -> Process] /\ UNCHANGED work /\ child' = NoChild /\ state' = "stopped"
      /\ proc' = [c \in Handle |-> IF c = child THEN [proc[c] EXCEPT !.killed = TRUE] ELSE proc[c]]
  BY DEF SupervisorInv, SupervisorTypeOK, OperatorStops, Stop, childVars
<1>2. \A c \in Handle : proc'[c].phase = proc[c].phase
  BY <1>1, ProcessTypes DEF Process
<1> QED  BY <1>1, <1>2, NoChildKeepsAttempts DEF Running

LEMMA TickKeepsAttempts ==
  ASSUME SupervisorInv, AttemptInv, Ticks \/ Rests \/ UNCHANGED reprocessVars
  PROVE  AttemptInv'
<1>1. UNCHANGED <<child, work, stamp, tried, proc>> /\ (state' = "completed" => state = "completed")
  BY DEF Ticks, TimePasses, CheckStall, Rests, reprocessVars, supervisorVars, jobVars, childVars
<1>2. child \in Handle \cup {NoChild}
  BY DEF SupervisorInv, SupervisorTypeOK
<1> QED  BY <1>1, <1>2, SameChildKeepsAttempts DEF Running

LEMMA LineKeepsAttempts ==
  ASSUME SupervisorInv, AttemptInv, NEW c \in Handle, LineArrives(c)
  PROVE  AttemptInv'
<1>1. /\ proc \in [Handle -> Process] /\ child \in Handle \cup {NoChild} /\ proc[c] \in Process
      /\ proc' = [proc EXCEPT ![c].lines = Tail(@)] /\ UNCHANGED <<work, stamp, tried>>
  BY ProcessTypes DEF SupervisorInv, SupervisorTypeOK, LineArrives, DeliverLine, childVars
<1>2. child' = child /\ (state' = "completed" => state = "completed")
  BY DEF LineArrives, DeliverLine, HandleLine, jobVars
<1>3. \A d \in Handle : proc'[d].phase = proc[d].phase /\ proc'[d].exits = proc[d].exits /\ proc'[d].ok = proc[d].ok
  BY <1>1 DEF Process
<1> QED  BY <1>1, <1>2, <1>3, SameChildKeepsAttempts DEF Running

(* The end of the child is where a run is called completed.                  *)
LEMMA ExitKeepsAttempts ==
  ASSUME SupervisorInv, AttemptInv, NEW c \in Handle, ExitArrives(c)
  PROVE  AttemptInv'
<1>1. /\ proc \in [Handle -> Process] /\ proc[c].exits > 0 /\ ~Running(c) /\ child \in Handle \cup {NoChild}
      /\ UNCHANGED <<work, stamp, tried>>
  BY DEF SupervisorInv, SupervisorTypeOK, ExitsAreOfDead, ExitArrives, DeliverExit
<1>2. /\ OneExitLess(c) \in [Handle -> Process] /\ OneExitLess(c)[c].phase = "dead"
      /\ \A d \in Handle \ {c} : OneExitLess(c)[d] = proc[d]
  BY <1>1, OneExitLessFacts
<1>3. ASSUME proc' = OneExitLess(c)
      PROVE  \A d \in Handle : Running(d)' = Running(d)
  BY <1>1, <1>2, <1>3 DEF Running
<1>4. CASE StaleExit(c)
  <2>1. proc' = OneExitLess(c) /\ child # c /\ UNCHANGED jobVars
    BY <1>4 DEF StaleExit
  <2>2. child \in Handle => proc'[child] = proc[child]
    BY <1>2, <2>1
  <2> QED  BY <1>1, <1>3, <2>1, <2>2, SameChildKeepsAttempts DEF jobVars
<1>5. CASE child = c /\ (ExitAfterStop(c) \/ Completes(c) \/ Exhausts(c) \/ RespawnThrows(c))
  <2>1. proc' = OneExitLess(c) /\ child' = NoChild
    BY <1>5 DEF ExitAfterStop, Completes, Exhausts, RespawnThrows
  <2>2. state' = "completed" => Completes(c) \/ state = "completed"
    BY <1>5 DEF ExitAfterStop, Exhausts, RespawnThrows
  <2>3. Completes(c) => \A x \in Item : Attempted(x)
    <3>1. c # NoChild
      BY SupervisorConstants
    <3> QED  BY <1>1, <1>5, <3>1 DEF Completes, WorkRemaining, AttemptInv, FinishedHasAttempted
  <2>4. state' = "completed" => \A x \in Item : Attempted(x)'
    BY <1>1, <2>2, <2>3 DEF AttemptInv, CompletedMeansAttempted, Attempted
  <2> QED  BY <1>1, <1>3, <2>1, <2>4, NoChildKeepsAttempts
<1>6. ASSUME child = c, NEW d \in Handle, Respawns(c, d)
      PROVE  AttemptInv'
  <2>1. /\ ~Running(d) /\ d # c /\ child' = d /\ state' = "running" /\ Born.exits = 0
        /\ proc' = [OneExitLess(c) EXCEPT ![d] = Born]
    BY <1>1, <1>6 DEF Respawns, IsFresh, Spare, Born, Dead
  <2>2. proc'[d].exits = 0 /\ \A e \in Handle \ {d} : Running(e)' = Running(e)
    BY <1>1, <1>2, <2>1 DEF Running
  <2> QED  BY <1>1, <2>1, <2>2, NewChildKeepsAttempts
<1> QED  BY <1>4, <1>5, <1>6 DEF ExitArrives, DeliverExit, HandleExit

(* The processes: only the run's child counts for what was attempted, and    *)
(* the others' commits only add to what is stamped.                          *)
LEMMA SelectKeepsAttempts ==
  ASSUME SupervisorInv, ReprocessInv, AttemptInv, NEW c \in Handle, ChildSelects(c)
  PROVE  AttemptInv'
<1> DEFINE todo == Candidates \ saved
           r == [Asleep EXCEPT !.booted = TRUE, !.loaded = saved, !.todo = todo, !.n = Cardinality(todo)]
<1>1. /\ Running(c) /\ work' = [work EXCEPT ![c] = r]
      /\ UNCHANGED <<proc, child, state, stamp, tried>>
  BY DEF ChildSelects, supervisorVars, jobVars, Running
<1>2. r.todo = todo
  BY DEF Asleep
<1>3. \A x \in Item : Attempted(x) \/ x \in todo
  BY DEF Candidates, Attempted, ReprocessInv, DataTypeOK, SavedMeansStamped
<1> HIDE DEF r
<1>4. work'[c] = r /\ \A d \in Handle : d # c => work'[d] = work[d]
  BY <1>1 DEF ReprocessInv, DataTypeOK
<1>5. DeadAreAsleep'
  BY <1>1, <1>4 DEF AttemptInv, DeadAreAsleep, Running
<1>6. ChildHasTheRest'
  <2>1. child \in Handle \cup {NoChild}
    BY DEF SupervisorInv, SupervisorTypeOK
  <2> QED  BY <1>1, <1>2, <1>3, <1>4, <2>1 DEF AttemptInv, ChildHasTheRest, Attempted
<1>7. FinishedHasAttempted' /\ CompletedMeansAttempted'
  BY <1>1 DEF AttemptInv, FinishedHasAttempted, CompletedMeansAttempted, Attempted
<1> QED  BY <1>5, <1>6, <1>7 DEF AttemptInv

LEMMA CommitKeepsAttempts ==
  ASSUME SupervisorInv, ReprocessInv, AttemptInv, NEW c \in Handle, NEW x \in Item, ChildCommits(c, x)
  PROVE  AttemptInv'
<1>1. /\ work[c] \in Work /\ work \in [Handle -> Work] /\ stamp \in [Item -> {"old", "low", "ok"}]
      /\ child \in Handle \cup {NoChild}
  BY WorkTypes DEF ReprocessInv, DataTypeOK, SupervisorInv, SupervisorTypeOK
<1>2. /\ UNCHANGED <<proc, child, state>> /\ Running(c)
      /\ \A y \in Item : stamp[y] # "old" => stamp'[y] # "old"
      /\ tried \subseteq tried' /\ (c = child => x \in tried')
  BY <1>1 DEF ChildCommits, supervisorVars, jobVars, Running
<1>3. /\ work'[c].todo = work[c].todo \ {x} /\ work'[c].booted = work[c].booted
      /\ \A d \in Handle : d # c => work'[d] = work[d]
  BY <1>1 DEF ChildCommits, Work
<1>4. \A y \in Item : Attempted(y) => Attempted(y)'
  BY <1>2 DEF Attempted
<1>5. DeadAreAsleep'
  BY <1>2, <1>3 DEF AttemptInv, DeadAreAsleep, Running
<1>6. ChildHasTheRest'
  <2>1. SUFFICES ASSUME child # NoChild, work'[child].booted, NEW y \in Item
                 PROVE  Attempted(y)' \/ y \in work'[child].todo
    BY <1>2 DEF ChildHasTheRest
  <2>2. Attempted(y) \/ y \in work[child].todo
    BY <1>1, <1>3, <2>1 DEF AttemptInv, ChildHasTheRest
  <2>3. child = c /\ y = x => Attempted(y)'
    BY <1>2 DEF Attempted
  <2> QED  BY <1>1, <1>3, <1>4, <2>1, <2>2, <2>3
<1>7. FinishedHasAttempted' /\ CompletedMeansAttempted'
  BY <1>2, <1>4 DEF AttemptInv, FinishedHasAttempted, CompletedMeansAttempted
<1> QED  BY <1>5, <1>6, <1>7 DEF AttemptInv

LEMMA ReportKeepsAttempts ==
  ASSUME SupervisorInv, ReprocessInv, AttemptInv, NEW c \in Handle, ChildReports(c) \/ ChildHangs(c)
  PROVE  AttemptInv'
<1>1. /\ work \in [Handle -> Work] /\ proc \in [Handle -> Process] /\ child \in Handle \cup {NoChild}
      /\ work[c] \in Work /\ proc[c] \in Process
  BY WorkTypes, ProcessTypes DEF ReprocessInv, DataTypeOK, SupervisorInv, SupervisorTypeOK
<1>2. UNCHANGED <<child, state, stamp, tried>>
  BY DEF ChildReports, ChildHangs, jobVars
<1>3. \A d \in Handle : work'[d].todo = work[d].todo /\ work'[d].booted = work[d].booted
  <2>1. CASE ChildHangs(c)
    BY <2>1 DEF ChildHangs
  <2>2. CASE ChildReports(c)
    BY <1>1, <2>2 DEF ChildReports, Work
  <2> QED  BY <2>1, <2>2
<1>4. \A d \in Handle : Running(d)' = Running(d) /\ proc'[d].exits = proc[d].exits /\ proc'[d].ok = proc[d].ok
  <2>1. CASE ChildHangs(c)
    BY <1>1, <2>1 DEF ChildHangs, Hangs, Running, Process
  <2>2. CASE ChildReports(c)
    BY <1>1, <2>2 DEF ChildReports, Prints, Running, Process
  <2> QED  BY <2>1, <2>2
<1>5. DeadAreAsleep'
  BY <1>3, <1>4 DEF AttemptInv, DeadAreAsleep
<1>6. ChildHasTheRest' /\ FinishedHasAttempted'
  BY <1>1, <1>2, <1>3, <1>4 DEF AttemptInv, ChildHasTheRest, FinishedHasAttempted, Attempted
<1>7. CompletedMeansAttempted'
  BY <1>2 DEF AttemptInv, CompletedMeansAttempted
<1> QED  BY <1>5, <1>6, <1>7 DEF AttemptInv

(* A clean end is of a child with nothing left to do.                        *)
LEMMA EndKeepsAttempts ==
  ASSUME SupervisorInv, ReprocessInv, AttemptInv, NEW c \in Handle,
         ChildFinishes(c) \/ ChildCrashes(c) \/ KilledDies(c)
  PROVE  AttemptInv'
<1>1. /\ work \in [Handle -> Work] /\ proc \in [Handle -> Process] /\ child \in Handle \cup {NoChild}
  BY DEF ReprocessInv, DataTypeOK, SupervisorInv, SupervisorTypeOK
<1>2. PICK ok \in BOOLEAN, n \in 1..2 :
        /\ proc' = [proc EXCEPT ![c] = Over(proc[c], ok, n)]
        /\ ok => ChildFinishes(c)
  <2> DEFINE Ends(ok, n) == proc' = [proc EXCEPT ![c] = Over(proc[c], ok, n)]
  <2>1. ASSUME NEW ok, NEW n, Exits(c, ok, n) PROVE Ends(ok, n)
    BY <2>1 DEF Exits, Over
  <2> HIDE DEF Ends
  <2>2. ChildFinishes(c) => Ends(TRUE, 1)
    BY <2>1 DEF ChildFinishes
  <2>3. ChildCrashes(c) \/ KilledDies(c) => Ends(FALSE, 1) \/ Ends(FALSE, 2)
    BY <2>1 DEF ChildCrashes, KilledDies
  <2>4. 1 \in 1..2 /\ 2 \in 1..2
    OBVIOUS
  <2>5. \E ok \in BOOLEAN, n \in 1..2 : Ends(ok, n) /\ (ok => ChildFinishes(c))
    BY <2>2, <2>3, <2>4
  <2> QED  BY <2>5 DEF Ends
<1>3. Over(proc[c], ok, n).phase = "dead" /\ Over(proc[c], ok, n).ok = ok
  <2>1. proc[c] \in Process
    BY <1>1, ProcessTypes
  <2> QED  BY <2>1 DEF Over, Process
<1>4. work' = [work EXCEPT ![c] = Asleep] /\ ~Asleep.booted /\ UNCHANGED <<child, state, stamp, tried>>
  BY DEF ChildFinishes, ChildCrashes, KilledDies, jobVars, Asleep
<1>5. /\ proc'[c].phase = "dead" /\ proc'[c].ok = ok /\ ~work'[c].booted
      /\ \A d \in Handle : d # c => proc'[d] = proc[d] /\ work'[d] = work[d]
  BY <1>1, <1>2, <1>3, <1>4
<1>6. DeadAreAsleep'
  BY <1>5 DEF AttemptInv, DeadAreAsleep, Running
<1>7. ChildHasTheRest'
  BY <1>1, <1>4, <1>5 DEF AttemptInv, ChildHasTheRest, Attempted
<1>8. FinishedHasAttempted'
  <2>1. child = c /\ ok => \A x \in Item : Attempted(x)
    <3>1. c # NoChild
      BY SupervisorConstants
    <3> QED  BY <1>2, <3>1 DEF ChildFinishes, AttemptInv, ChildHasTheRest
  <2> QED  BY <1>1, <1>4, <1>5, <2>1 DEF AttemptInv, FinishedHasAttempted, Attempted
<1>9. CompletedMeansAttempted'
  BY <1>4 DEF AttemptInv, CompletedMeansAttempted
<1> QED  BY <1>6, <1>7, <1>8, <1>9 DEF AttemptInv

(* A run reported completed has attempted every session, however many        *)
(* children it took, and though killed ones of earlier runs still commit.    *)
THEOREM CompletedHasAttempted == ReprocessSpec => []CompletedMeansAttempted
<1>1. SupervisorInv /\ [SupervisorNext]_supervisorVars => SupervisorInv'
  BY SupervisorStepKeepsInv
<1>2. SupervisorSpec => []SupervisorInv
  BY <1>1, SupervisorInitInv, PTL DEF SupervisorSpec
<1>3. ReprocessInv /\ [ReprocessNext]_reprocessVars => ReprocessInv'
  BY ReprocessStepKeepsInv
<1>4. SupervisorInv /\ ReprocessInv /\ AttemptInv /\ [ReprocessNext]_reprocessVars => AttemptInv'
  BY StartKeepsAttempts, StopKeepsAttempts, TickKeepsAttempts, LineKeepsAttempts, ExitKeepsAttempts,
     SelectKeepsAttempts, CommitKeepsAttempts, ReportKeepsAttempts, EndKeepsAttempts
  DEF ReprocessNext, ChildSteps
<1>5. AttemptInv => CompletedMeansAttempted
  BY DEF AttemptInv
<1> QED  BY <1>2, <1>3, <1>4, <1>5, ReprocessInitInv, AttemptInitInv, ReprocessIsSupervised, PTL DEF ReprocessSpec
=============================================================================
