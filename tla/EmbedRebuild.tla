----------------------------- MODULE EmbedRebuild -----------------------------
(***************************************************************************)
(* Changing the embedder: embedder-settings-service.ts saves the new lane, *)
(* swaps the live embedder and starts `nlm embed-backfill` under the       *)
(* supervisor (JobSupervisor); embed-backfill.ts drops the vector tables,  *)
(* statement by statement, and embeds every session again, while the       *)
(* daemon of ChunkVectors goes on ingesting and sweeping.                  *)
(* embedding_config names a lane; it is written when a rebuild completes,  *)
(* not when the tables are dropped.  The state file names the sessions     *)
(* done and the lane they were done for; it is written every SaveEvery     *)
(* sessions and at the end.                                                *)
(***************************************************************************)
EXTENDS ChunkVectors

CONSTANTS
  SaveEvery,         \* SAVE_EVERY
  MaxSaves,          \* bound: settings the operator saves
  MaxDeaths          \* bound: deaths of the daemon and of rebuild children

ASSUME RebuildConstants == SaveEvery \in Nat \ {0} /\ MaxSaves \in Nat /\ MaxDeaths \in Nat

VARIABLES
  row,               \* embedding_config, the prose lane
  file,              \* the state file
  saving,            \* saves that were checked and are being stored
  job,               \* idle, running or ended, as the supervisor reports it
  rebuild,           \* the memory of the child
  byRebuild,         \* sessions whose chunks a rebuild wrote or dropped last
  saves, deaths

rebuildVars == <<row, file, saving, job, rebuild, byRebuild, saves, deaths>>
embedVars == <<chunkVars, rebuildVars>>

File == [done : SUBSET Session, for : Lane \cup {None}]

Save == [lane : Lane, restarts : BOOLEAN]

Phase == {"none", "booting", "dropping", "creating", "unmapping", "selecting", "embedding"}

(* read: the texts the child selected at its start.                          *)
NoChild == [phase |-> "none", lane |-> None, todo |-> {}, done |-> {},
            read |-> [s \in Session |-> None], new |-> 0]

Spawned == [NoChild EXCEPT !.phase = "booting"]

RebuildTypeOK ==
  /\ ChunkTypeOK
  /\ row \in Lane /\ file \in File /\ job \in {"idle", "running", "ended"}
  /\ saving \subseteq Save
  /\ rebuild \in [phase : Phase, lane : Lane \cup {None},
                  todo : SUBSET Session, done : SUBSET Session,
                  read : [Session -> Version \cup {None}], new : Nat]
  /\ byRebuild \subseteq Session
  /\ saves \in 0..MaxSaves /\ deaths \in 0..MaxDeaths

RebuildInit ==
  /\ ChunkInit
  /\ row = live
  /\ file = [done |-> {}, for |-> None]
  /\ saving = {} /\ job = "idle" /\ rebuild = NoChild
  /\ byRebuild = {} /\ saves = 0 /\ deaths = 0

-----------------------------------------------------------------------------
(* saveEmbedderSettings.  A lane that embedding_config names is saved and    *)
(* swapped in, no more.  Any other makes the vectors stale: with the         *)
(* operator's confirmation, and no rebuild running, one is started.  The     *)
(* answer to both questions is from before the await on the settings.        *)
Stale(l) == row # l

SaveChecks(l) ==
  /\ saves < MaxSaves /\ saves' = saves + 1
  /\ Stale(l) => job # "running"
  /\ saving' = saving \cup {[lane |-> l, restarts |-> Stale(l)]}
  /\ UNCHANGED <<chunkVars, row, file, job, rebuild, byRebuild, deaths>>

(* jobs.start throws when another save got there first, or at the spawn.     *)
StartRebuild ==
  \/ job # "running" /\ job' = "running" /\ rebuild' = Spawned
  \/ job # "running" /\ job' = "ended" /\ UNCHANGED rebuild
  \/ job = "running" /\ UNCHANGED <<job, rebuild>>

SaveSwaps(x) ==
  /\ x \in saving /\ saving' = saving \ {x}
  /\ live' = x.lane
  /\ IF x.restarts THEN StartRebuild ELSE UNCHANGED <<job, rebuild>>
  /\ UNCHANGED <<text, vec, pending, tableLane, ingest, sweep, cut, row, file,
                 byRebuild, saves, deaths>>

(* The child takes the saved lane, which goes before its environment.  It    *)
(* drops and recreates the tables when neither embedding_config nor the      *)
(* state file names that lane, and then starts from nothing; otherwise what  *)
(* the state file names is skipped.                                          *)
NeedsRebuild(l) == row # l /\ file.for # l

Skipped(l) == IF NeedsRebuild(l) THEN {} ELSE file.done

ChildUnchanged == UNCHANGED <<text, pending, live, ingest, sweep, cut, row, file, saving, job, saves, deaths>>

ChildBoots ==
  /\ rebuild.phase = "booting"
  /\ rebuild' = [rebuild EXCEPT !.phase = IF NeedsRebuild(live) THEN "dropping" ELSE "selecting",
                               !.lane = live, !.done = Skipped(live)]
  /\ ChildUnchanged /\ UNCHANGED <<vec, tableLane, byRebuild>>

(* DROP TABLE, CREATE TABLE and DELETE FROM session_chunk_map, each on its   *)
(* own.  Vectors the daemon wrote in between are without a row then: lost.   *)
DropTable ==
  /\ rebuild.phase = "dropping"
  /\ rebuild' = [rebuild EXCEPT !.phase = "creating"]
  /\ tableLane' = None /\ byRebuild' = Session
  /\ vec' = [r \in Ref |-> [vec[r] EXCEPT !.of = None]]
  /\ ChildUnchanged

CreateTable ==
  /\ rebuild.phase = "creating"
  /\ rebuild' = [rebuild EXCEPT !.phase = "unmapping"]
  /\ tableLane' = rebuild.lane
  /\ ChildUnchanged /\ UNCHANGED <<vec, byRebuild>>

(* Mutant: the map is kept when the vectors are dropped.                     *)
MapKept == vec

MapEmptied == [r \in Ref |-> NoVector]

DeleteMap ==
  /\ rebuild.phase = "unmapping"
  /\ rebuild' = [rebuild EXCEPT !.phase = "selecting"]
  /\ vec' = MapEmptied /\ byRebuild' = Session
  /\ ChildUnchanged /\ UNCHANGED tableLane

ChildSelects ==
  /\ rebuild.phase = "selecting"
  /\ rebuild' = [rebuild EXCEPT !.phase = "embedding", !.read = text,
                               !.todo = {s \in Session : text[s] # None} \ rebuild.done]
  /\ ChildUnchanged /\ UNCHANGED <<vec, tableLane, byRebuild>>

(* One session: the chunks S that embedded replace its vectors, in one       *)
(* transaction, which fails when they do not fit the table.  With            *)
(* no chunk embedded, or no transaction, the session is not done.            *)
Rewritten(s, S) ==
  [r \in Ref |-> IF r[1] # s THEN vec[r]
                 ELSE IF r[2] \in S THEN [of |-> rebuild.read[s], by |-> rebuild.lane]
                 ELSE NoVector]

ChildEmbeds(s, S) ==
  LET done == rebuild.done \cup {s}
      new  == rebuild.new + 1
  IN  /\ rebuild.phase = "embedding" /\ s \in rebuild.todo
      /\ S # {} /\ S \subseteq ChunksIn[rebuild.read[s]]
      /\ Fits(rebuild.lane)
      /\ vec' = Rewritten(s, S)
      /\ byRebuild' = byRebuild \cup {s}
      /\ rebuild' = [rebuild EXCEPT !.todo = @ \ {s}, !.done = done, !.new = new]
      /\ file' = IF new % SaveEvery = 0 THEN [done |-> done, for |-> rebuild.lane] ELSE file
      /\ UNCHANGED <<text, pending, tableLane, live, ingest, sweep, cut, row, saving, job, saves, deaths>>

(* Mutant: a session of which nothing embedded is done all the same.         *)
FailsAsDone(s) ==
  /\ rebuild.phase = "embedding" /\ s \in rebuild.todo
  /\ rebuild' = [rebuild EXCEPT !.todo = @ \ {s}, !.done = @ \cup {s}]
  /\ UNCHANGED <<chunkVars, row, file, saving, job, byRebuild, saves, deaths>>

ChildFails(s) ==
  /\ rebuild.phase = "embedding" /\ s \in rebuild.todo
  /\ rebuild' = [rebuild EXCEPT !.todo = @ \ {s}]
  /\ UNCHANGED <<chunkVars, row, file, saving, job, byRebuild, saves, deaths>>

ChildCompletes ==
  /\ rebuild.phase = "embedding" /\ rebuild.todo = {}
  /\ row' = rebuild.lane /\ file' = [done |-> rebuild.done, for |-> rebuild.lane]
  /\ job' = "ended" /\ rebuild' = NoChild
  /\ UNCHANGED <<chunkVars, saving, byRebuild, saves, deaths>>

(* The child dies; the supervisor starts another, or gives the run up.       *)
ChildDies ==
  /\ rebuild.phase # "none" /\ deaths < MaxDeaths /\ deaths' = deaths + 1
  /\ \/ rebuild' = Spawned /\ UNCHANGED job
     \/ rebuild' = NoChild /\ job' = "ended"
  /\ UNCHANGED <<chunkVars, row, file, saving, byRebuild, saves>>

(* With the daemon goes the supervisor, and the child at its next line, into *)
(* a pipe nobody reads: before there is a daemon again.                      *)
DaemonDies ==
  /\ deaths < MaxDeaths /\ deaths' = deaths + 1
  /\ Crash
  /\ saving' = {} /\ job' = "idle" /\ rebuild' = NoChild
  /\ UNCHANGED <<row, file, byRebuild, saves>>

ReplacesChunks(i) ==
  /\ ClearChunks(i)
  /\ byRebuild' = byRebuild \ {ingest[i].s}
  /\ UNCHANGED <<row, file, saving, job, rebuild, saves, deaths>>

Sweeps(w) == SweepSteps(w) /\ UNCHANGED rebuildVars

ChildSteps ==
  \/ ChildBoots \/ DropTable \/ CreateTable \/ DeleteMap \/ ChildSelects \/ ChildCompletes
  \/ \E s \in Session : ChildFails(s) \/ \E S \in SUBSET Chunk : ChildEmbeds(s, S)

RebuildNext ==
  \/ \E l \in Lane : SaveChecks(l)
  \/ \E x \in saving : SaveSwaps(x)
  \/ ChildSteps \/ ChildDies \/ DaemonDies
  \/ \E i \in Ingester :
       \/ ReplacesChunks(i)
       \/ Embeds(i) /\ UNCHANGED rebuildVars
       \/ \E s \in Session, v \in Version : CommitText(i, s, v) /\ UNCHANGED rebuildVars
  \/ \E w \in Sweeper :
       \/ Sweeps(w)
       \/ SweepSheds(w) /\ UNCHANGED rebuildVars
       \/ \E due \in SUBSET DueNow : SweepReads(w, due) /\ UNCHANGED rebuildVars

(* The sweep comes on an interval and the embedder answers or fails.  A tick *)
(* that found no slot gave its batch up, but not every tick that takes up a  *)
(* chunk finds the cap full.                                                 *)
RebuildSpec ==
  /\ RebuildInit /\ [][RebuildNext]_embedVars
  /\ \A w \in Sweeper :
       /\ WF_embedVars(Sweeps(w))
       /\ \A r \in Ref :
            SF_embedVars((SweepCalls(w, r) \/ SweepClears(w, r)) /\ UNCHANGED rebuildVars)

-----------------------------------------------------------------------------
(* Every vector that an ingest or the sweep leaves behind was made from the  *)
(* stored text, though the sweep reads a text, waits and writes, and ticks   *)
(* overlap: only a rebuild may have read an older one, and an ingest that    *)
(* has committed its text has its clearing still to do                       *)
(* (sqlite-session-store.ts 606-612).                                        *)
Committed(s) == \E i \in Ingester : ingest[i].s = s /\ ~ingest[i].cleared

VectorsCurrent ==
  \A r \in Ref :
    Mapped(r) /\ r[1] \notin byRebuild \cup cut /\ ~Committed(r[1])
      => vec[r].of = text[r[1]]

(* No chunk is lost: once the ingest of a session is over, each chunk of its *)
(* text has a vector or is on record for a retry.  A crash during an ingest  *)
(* can lose chunks, and a rebuild keeps a session of which some embedded     *)
(* (sqlite-session-store.ts 575-583, embed-backfill.ts 296-300).             *)
NothingLost ==
  \A s \in Session : s \notin byRebuild \cup cut /\ ~Busy(s) =>
    \A c \in Chunk : Has(s, c) => Mapped(<<s, c>>) \/ pending[<<s, c>>] > 0

(* What the state file or the child calls done for the lane the table was    *)
(* made for has a vector that fits it, unless an ingest replaced its chunks  *)
(* since: however often the child died, also between the statements of the   *)
(* drop, and resumed (embed-backfill.ts 149-157, 296-298).  A table made for *)
(* another lane since (Detour) is left to SkippedHaveVectors.                *)
Embedded(done) ==
  \A s \in done \cap byRebuild :
    \E c \in Chunk : HasVector(<<s, c>>) /\ Dim[vec[<<s, c>>].by] = Dim[tableLane]

Detour(l) == tableLane # l

Works == rebuild.phase \in {"selecting", "embedding"}

DoneHasVectors ==
  /\ ~Detour(file.for) => Embedded(file.done)
  /\ Works /\ ~Detour(rebuild.lane) => Embedded(rebuild.done)

(* A child that embeds into a table of its lane finds no chunk that the map  *)
(* names and the drop took the vector of, whichever statement of the drop an *)
(* earlier child died after: those chunks would never be due again           *)
(* (embed-backfill.ts 216-234).                                              *)
MapIsWhole == Works /\ ~Detour(rebuild.lane) => \A r \in Ref : Mapped(r) => HasVector(r)

(* What embed-backfill.ts says of a resumed run (149-150): that the state    *)
(* file names its lane means that the tables were dropped for it, so what it *)
(* skips has vectors.                                                        *)
SkippedHaveVectors == Works => Embedded(rebuild.done)

(* A chunk that is due for a retry does not stay due: it gets its vector, is *)
(* given up to the doctor, or its text is replaced (chunk-retry.ts 1-9).     *)
DueGetsSettled ==
  \A r \in Ref, v \in Version :
    r \in DueNow /\ text[r[1]] = v ~> r \notin DueNow \/ text[r[1]] # v
=============================================================================
