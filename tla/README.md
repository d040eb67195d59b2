# A verification project for nlm-memory

nlm-memory is a local-first memory daemon for AI agents. It scans the transcripts
of coding agents, has a language model classify each session, stores sessions and
the facts extracted from them, keeps vectors for search, and lets people and
agents correct what it holds. It is one Node process (one event loop) over SQLite
with synchronous transactions, or over Postgres with a pool of connections; some
jobs are child processes of it or commands of their own on the same database.
The modules here are about what its tables promise, the tasks and processes that
work on them, the scan that feeds them and the supervisor of long jobs.

Paths below are relative to `src/src/`, line numbers to the commit in `src/`.

## Inventory

| Component | State | Operations | Interacts with | Hard part | Correct when |
|---|---|---|---|---|---|
| Session graph (`core/storage/sqlite-session-store.ts`) | `sessions.status`, `session_edges` | `insertSession`, `markSuperseded` | scan, push ingest, MCP and HTTP handlers | any order of re-ingest, renaming and correction | acyclic; statuses and edges agree; one correction per session |
| Fact store (`sqlite-fact-store.ts`, `fact-batch.ts`) | `facts(superseded_by, retired_at)`, `fact_embeddings` | `ingestSessionFactsInTxn`, cascade of `markSuperseded`, `retire`, `upsertEmbedding` | session transactions, embedding tasks, judge | out-of-order and repeated ingests, released facts judged again | one current fact per key; no dangling or circular supersedence; no vector without a fact |
| Session store transactions | both of the above | `insertSession`, `insertFactsForSession`, `markSuperseded` | all callers | two write paths to the same tables | sessions and facts never disagree |
| Fact embedding (`embed-sweep.ts`, `embedFacts`, `embed-inflight.ts`) | vectors, `fact_embed_pending`, the in-flight counter | ingest tail, two-minute sweep, recall's query embed | fact store, recall | awaits between reading and writing, overlap, shedding, crash | exact slot count; lost vectors come back |
| Scan (`scheduler.ts`, `scan-once.ts`) | `adapter_state`, backoffs, text hashes | `tick`: look, parse, gate, classify, store, record | adapters, classifier, session store | sources grow during a tick; failures and death at every await | what is recorded as seen was handled; everything is caught up with |
| Chunk embedding (`chunk-retry.ts`, `insertSession`) | chunk vectors, `chunk_embed_pending` | ingest tail, sweep | sessions, recall, rebuild | chunks are named by position, not identity | vectors are of the present text; no failure is forgotten |
| Embedder settings and rebuild (`embedder-settings-service.ts`, `embed-backfill.ts`) | `embedding_config`, the live embedder, vector tables, state file | save, swap, rebuild child | supervisor, ingest, sweep | a lane changes under running tasks; children die and resume | what is called done has vectors |
| Fact judge, reconciliation (`write-judge.ts`, `reconcile-facts.ts`) | `superseded_by`, `retired_at` | judge after ingest, bulk retirement | fact store, sweep guard | decisions on stale candidates | no cycles, one current fact per key |
| Job supervisor (`job-supervisor.ts`) | child, counters, episode | start, stop, line, exit, stall check | reprocess and backfill commands, alerts | late callbacks of a killed child | restarts bounded; one owned child; nothing dies silently |
| Reprocess (`reprocess.ts`) | state file, session rows | select, classify, store, report, save | supervisor, store | dies between commit and state file | what is skipped is done; completed means all attempted |
| Sweep guard (`sweep-guard.ts`) | | `evaluateSweep` | judge, reconcile, doctor, reprocess | thresholds | bulk changes are bounded |
| Integrity checks and repair (`check-invariants.ts`) | all tables | checks I1 to I7, `doctor --fix` | a running daemon | repair of any damage, beside commits | repaired tables satisfy the invariants |
| Postgres twins (`pg-*.ts`) | the same tables | the same operations | pool | concurrent transactions | same as SQLite |
| Properties (`sqlite-property-store.ts`) | slug and source of facts | attribution, `correctFact`, backfill | ingest | moves facts between keys | I5a after a correction |
| Push ingest, reclassification (`ingest-session.ts`, `reclassify-oversized.ts`) | session rows, `adapter_state` | ingest over HTTP; a repair command | store, scan | races the scan | the later text wins |
| Alerts, hooks, learner, signals, workstreams, exemplars, wiki, digests, entities, backups, CLI, HTTP, MCP, UI, evaluation | files, side tables, logs | see `PROJECT.json` | | mostly I/O, text and scoring | |

How they interact. A tick of the scan reads a transcript and calls
`insertSession`, one transaction over session rows, edges, facts and fact vectors.
After the commit the same call embeds chunks and facts, awaiting the embedder, and
lets the judge look at the new facts. Timers run the two embedding sweeps. Push
ingest (HTTP) calls `insertSession` directly; MCP and HTTP call `markSuperseded`
and `retire`. Recall shares the embed slots. The HTTP server starts `nlm reprocess`
under one supervisor, and a change of the embedder starts `nlm embed-backfill`
under another; `reconcile-facts` and `doctor --fix` are processes of their own.
Everything shares the tables.

The hazards that follow from this, each at its line, are in `PROJECT.json`; the
properties below were chosen from that list.

## Modules

| Module | Models | Depends on |
|---|---|---|
| `SessionGraph` | session statuses and the two kinds of supersedence edges | |
| `FactStore` | the fact tables and the transactions on them; the abstract specification of everything that writes facts | |
| `SessionStore` | the store's transactions on sessions and facts at once | extends `SessionGraph`, instantiates `FactStore`, implements both |
| `FactEmbedding` | the tasks that compute fact vectors | extends `FactStore`, implements it |
| `SweepGuard` | the decision of the guard on bulk changes | |
| `FactCuration` | the write-time judge and the bulk retirement, beside all other writers of facts | extends `FactStore`, `SweepGuard` |
| `DoctorFix` | `doctor --fix` on fact tables, from any damage, beside the daemon | extends `FactStore`, `SweepGuard` |
| `PgFactIngest` | the fact transactions on Postgres, statement by statement | extends `FactStore` |
| `ChunkVectors` | chunk vectors under ingest, sweep and crash | |
| `EmbedRebuild` | changing the embedder and the rebuild child | extends `ChunkVectors` |
| `JobRun` | abstract: the promise of a supervised job | |
| `JobSupervisor` | the supervisor with processes and callbacks | instantiates `JobRun`, implements it |
| `ReprocessJob` | the reprocess child in the place of the supervised process | extends `JobSupervisor` |
| `ScanScheduler` | the scan's tick with the sources, the classifier's outcomes, failure and restart | |
| `FactStore_proofs` | theorems about `FactStore` | extends it |
| `SessionStore_proofs` | about `SessionGraph` and `SessionStore` | extends `SessionStore` |
| `FactEmbedding_proofs` | about the embedding tasks | extends `FactEmbedding`, `FactStore_proofs` |
| `FactCuration_proofs` | about judges and reconciliation, and about `doctor --fix` | extends `FactCuration`, `DoctorFix`, `FactStore_proofs` |
| `PgFactIngest_proofs` | about the transactions on Postgres | extends `PgFactIngest`, `FactStore_proofs` |
| `EmbedRebuild_proofs` | about chunk vectors and the rebuild | extends `EmbedRebuild` |
| `ReprocessJob_proofs` | about the supervisor and the reprocess run | extends `ReprocessJob` |
| `ScanScheduler_proofs` | about the scan | extends `ScanScheduler` |
| `MC*` | instances for TLC | extend them |

### How state and actions correspond to the code

A SQLite transaction is synchronous, so it is one action. A chain of callbacks is
a sequence of actions, one from each await to the next. On Postgres each
statement is an action.

**SessionGraph.** `status` is `sessions.status` ("absent" without a row), `edges`
is `session_edges` of the kinds `supersedes` and `replaces`. `UpsertSession(s, prior)` is
the session part of `insertSession`; `prior` is the id under which the scan knew
the transcript, when that was another one. `SupersedeSession` is `markSuperseded` with
its guards. "Reaches" is defined as membership in every closed set, which needs
no recursion and can be reasoned about; the code walks breadth first, to a depth
of 100, so graphs with a chain of more than 100 corrections are outside the model.
`FreshReplacement` says that a transcript that comes back under a new id brings an
id not stored before: `insertSession` does not guard its 'replaces' edge, and the
graph's acyclicity rests on that. The constant is in the module so that the claim
names its premise.

**FactStore.** A fact id is a UUID made anew by every extraction, so session, key
and date are constant functions of the id; a key stands for (property, subject,
predicate), its values are not told apart. `Independent` are ids of facts the operator
took out of all properties. `IngestFacts` is `ingestSessionFactsInTxn` whole: delete,
release, insert, collapse the keys of the new and of the released facts, drop vectors.
The collapses of different keys are independent of each other and a key is left with
one active fact after the first, so all are taken at once. `last` is the last fact of
a key in extraction order, which wins ties (`newestFact`'s incoming id). `CascadeFacts`
is the fact part of `markSuperseded`, with a free choice where its query says
`LIMIT 1`. `Retire` and `UpsertEmbedding` are the methods of that name.
`fact_embeddings` is the set `vectors`.

**SessionStore.** `InsertSession`, `InsertFactsForSession`, `MarkSuperseded`: the two
modules' actions together, as the code's transactions join them.

**FactEmbedding.** Tasks are ingesters and sweepers; `cur[t]` is the fact whose
vector `t` awaits, `todo[t]` what it has still to do. `pending` is `fact_embed_pending`:
"waiting" until `next_attempt_at`, "due" afterwards. `inflight` is the counter of
`embed-inflight.ts`, `recalls` the queries among its holders. Sweeps may overlap, because
the timers do not check for a sweep under way. The awaits on the chunks before
`embedFacts` are the phase "chunks"; `insertFactsForSession`, which has none, is the
case that goes through it at once. `Restart` forgets tasks, slots and nothing else.

**FactCuration.** A judge is the tail of one ingest. `Ingest` commits and leaves its
batch to it; `PickNewFacts` takes the batch's winners that are still current once the
embedding is over; `AskAbout` reads the candidates of one fact and takes any answer
the model may give about them, which comes to `plan`; `GuardBatch` asks the sweep
guard; `ApplyNext` is one `markSuperseded(old, new)`, a transaction of its own, which
asks of both facts only that they exist, or the error that ends the batch. The two
queries of `findCandidates` are taken as one moment, and a decision as made at the time of the
question. `FindContradictions` and `ApplyRetirements` are `reconcile-facts --apply`
before and after its backup; only its end, or its death, ends a run of it. A fact
that is in a judge's hands is not among the ids a new ingest may choose, since ids
are fresh. The judge is off by default (`NLM_FACT_JUDGE`).

**DoctorFix.** `step` is the statement `applyFixOnSqlite` has come to. It starts from
any combination of rows, pointers (also to rows that are gone) and vectors, since
that is what it is for. `MakePlan` and `Apply` are the planner's read and the transaction
after it; between them, and between the deletions of ghosts, which are single
statements, `DaemonCommits` puts any of the store's transactions, the vector of a fact that is no longer
current included. `stale` remembers that one came between a plan and its use, `late` which
vectors came too late for the fix to find. The sweep guard or the operator's override decides about ghosts.

**PgFactIngest.** The variables of `FactStore` are committed rows; `txn[t]` is what
connection `t` has changed (`points`, `gone`, `unindexed`) and what it has read and
still to act upon (`marks`). A statement sees committed rows and its own
transaction's (READ COMMITTED). What the module takes from Postgres is external and
named as such: row locks held to the end, waits (as guards), foreign keys
(`ON DELETE SET NULL` on `superseded_by`, as in `migrations/pg/001_initial.sql`), and rollback on
deadlock, lost connection or a failed check (`Abort`). `SessionIsFree` is the lock every ingest and correction of a
session takes on its row. `generation` is not in the code: the batch of the last committed ingest of
a session.

**ChunkVectors.** A text is a version with so many chunks; a chunk of one version
differs from that of another at the same place. `vec` says of which version, and by
which embedder (a lane), the vector of a chunk was made. `CommitText`, `ClearChunks`, `CallEmbedder`,
`EmbedderAnswers` are the chunk part of `insertSession`, from await to await; the
sweep reads the due rows, then per chunk a text, waits, and writes if the chunk is
still pending with that text. Attempts are counted up to `MaxAttempts`, from which on the code
treats them alike. Which chunks are due depends on backoff and is left open. `ClearThrows` is the
clearing that fails because a rebuild has dropped the table. `Crash` drops ingests and
ticks; `cut` remembers which sessions either cut off. `Overlapping` says
whether two ingests of one session may overlap: a scan ingests one after the other, a
push may come in between. With it TRUE `VectorsCurrent` does not hold
(see "Known deviations"), so the run has FALSE.

**EmbedRebuild.** `row` is `embedding_config`, `file` the state file, `tableLane` the
lane the session table was created for (None: there is no table), which nothing on disk names by
itself. Saving a setting has two parts: `SaveChecks` asks whether the vectors are stale and
whether a rebuild runs, and after the await on the settings `SaveSwaps` swaps the live
embedder and, for another lane, starts the child, or finds that it cannot. Several saves may be between the two.
`ChildBoots` chooses between dropping the tables and resuming. The drop is three
statements, `DropTable`, `CreateTable` and `DeleteMap`, and the child may die, or the daemon ingest, between any of
them: a row of the map whose vector has gone is `Mapped` without `HasVector`. `ChildSelects`
reads the texts, and `ChildEmbeds` is the transaction that replaces a session's vectors by those
of the chunks that embedded; `ChildDies` leaves it to the supervisor to start another or not. With
the daemon its child goes: the next line it prints meets a closed pipe (`DaemonDies`). The state
file's `SAVE_EVERY` is `SaveEvery`. `byRebuild` (history) is which sessions a rebuild wrote or dropped last.

**JobSupervisor.** A handle is the identity of a child object; `proc` has what is
behind it: the process, whether it was killed, its undelivered lines and exit
callbacks. `LineArrives` and `ExitArrives` are the callbacks, with the identity guard in
the code; an exit may overtake lines, since 'exit' and 'data' are events of different
emitters. `overdue` is the one question the stall check asks of the clock. `Start`
has the spawn that throws, `ExitArrives` the respawn that does. A handle is used again
when nothing is left by which the two children could be told apart.

**ReprocessJob.** `work[c]` is what child `c` has loaded and still to do, `stamp` the
classification on a session's row, `saved` the state file, `tried` (history) the
sessions attempted. Commit, report and save are separate steps, because the process can die in between, and a
killed child goes on until its signal arrives. A store may fail before its commit or after it
(the row stamped, the session reported failed), and so may the writing of the state file.

**ScanScheduler.** A source has a `size`, a `text` (numbered as it appears) and the
session `id` found in it. `row` is `adapter_state`; `snapshot` is what the tick read of it;
`found`, `item` and `phase` are the tick's position. `session` is the text stored under a
source's id, `replaced` the 'replaced' status. `classified` is `classifiedHash`, `backoff`
the deferrals. `handled` is the one variable that is not in the code: the text of a
source that was last stored, failed, judged not worth a session or found stored
already. The gate's skip stores without classifying, as `item.gated`. What a commit
is followed by (vectors, record, workstream, exemplars) may fail before or after
the record, `FailsUnrecorded` and `FailsRecorded`. An error that no tick catches ends
the process (there is no handler for it), so it is `Restart`. One adapter is modelled;
adapters are scanned one after the other and share nothing but the classifier's outage.

Assumptions about the world, named where they are used: a write changes the size of
a source; a new id in a source comes with new text (otherwise `SameText` would record
an id that is not stored); sources are not deleted; nobody else writes
`adapter_state` (the command `reclassify-oversized` does).

### Simplifications

Where a definition says less than the code, and why that is taken to be harmless:

- `FactStore.UpsertEmbedding` is three statements of SQLite, each committed by itself
  (DELETE, INSERT, DELETE of the retry row, `sqlite-fact-store.ts:453-465`), with no await between
  them. A death of the process between the first two leaves a fact without a vector, as one before the first does.
- `JobSupervisor.Stop` takes `kill()` to succeed. The supervisor catches a `kill()` that throws
  (244-248), but Node's throws only for a signal the platform does not know, and the adapter sends the
  default one (`reprocess-job-adapters.ts:95-97`).
- `PgFactIngest.BeginCorrection` takes the cycle guard, the DELETE and the INSERT of the edge as one
  step, and its guard knows corrections only, not 'replaces' edges: it lets more corrections pass than the
  code does, so what holds of it holds of the code. Its ingests lock the session's row, as `insertSession`
  does; `ingestSessionFacts` of `pg-fact-store.ts:295`, which takes an advisory lock only, is called by tests alone.
- `EmbedRebuild.ChildBoots` reads the lane that is saved at that moment. The child gets the lane of its run in
  its environment too, but resolves it like the daemon, and settings win over the environment
  (`nlm.ts:393-396`, `embedder-config.ts:84-98`).
- A state file that cannot be written makes `nlm reprocess` report the session a second time, as failed
  (`reprocess.ts:389`, `ReprocessJob.ChildReports`); that line repeats the numbers of the first, and is left out.
- `ReprocessJob` has runs of `nlm reprocess` without `--limit`, `--dry-run` and `--only-null`
  (`app.ts:2254-2256` pass them on). With a limit, "completed" means the sessions within it.
- `DoctorFix` has commits between a plan and its use, but neither property speaks of a fix that met one: the code
  promises nothing of it, and what it leaves is found by the next.

## What the runs check

| Run | Shows | Bounds |
|---|---|---|
| `SessionStore` | refinement of `SessionGraph` and `FactStore`; acyclic, statuses with edges, one correction; facts have sessions; older wins only by correction | 3 sessions, 2 facts of one key |
| `SessionGraphStatus` | finding: re-ingest resets 'superseded' to 'closed' | 2 sessions |
| `FactCuration` | one current fact per key, no dangling or circular `superseded_by`, old never displaces new, only reconcile leaves ghosts | 2 sessions, 4 facts, 2 keys of one property, an independent fact, 1 judge, guard from 3 rows on |
| `FactCurationCycle` | finding: two judges close a cycle | 2 judges |
| `FactEmbedding` | type and cap, slot counter, refinement of `FactStore`, missing vectors come back | 2 facts of one key, 1 ingest, 1 sweep, cap 2 |
| `ScanScheduler` | recorded size means handled text, recorded ids are stored, hash skip loses nothing, sources are caught up with | 2 sources, one of which grows once with a change of id, `MaxFailures` 1 |
| `ReprocessJob` | one owned child, restart policy (refinement of `JobRun`), state file names done work only, completed means attempted, no silent death | 2 sessions, 2 handles, 1 restart without progress, 2 starts, 1 fault |
| `EmbedRebuild` | vectors are current, failures are on record, done sessions have vectors, the map names no dropped ones, due retries are settled | 1 session with texts of 2 and 1 chunks, 2 lanes of different dimension, 1 ingest, 1 sweep, 2 attempts, 1 save, 1 death |
| `EmbedRebuildResume` | finding: back from a detour a child skips a session without vectors | 1 session, 3 lanes, two of them of one dimension, 3 saves, 2 deaths, no sweep |
| `PgFactIngest` | one generation per session, no dangling successor | 2 connections, 2 sessions, 3 facts of one key |
| `PgFactIngestRace` | finding: two current facts of a key | as above |
| `DoctorFix` | a fix repairs any damage to facts; it never prefers an older value | 3 facts of one key without a property, 1 commit of the daemon, guard from 2 rows on |

Why the bounds are enough. The collapse looks at one key at a time and compares
pairs, so one key with three rivals plus a second key shows its cases; a
released fact needs another session and a second generation, for which session `a`
has two ids. A race of the embedding tasks is over one fact and at most two tasks that hold it; the cap
matters when holders of both sorts fill it. A judge compares a fact with candidates
one by one; a cycle within a batch needs two facts of it, which session `a` has in two keys. A tick
touches one source at a time; a second source only matters for what an outage or an
early end does to others. A run's supervisor knows one child and the one before. A rebuild's
trouble with a chunk is between its reader and one writer; the shorter second
text has the case of a chunk that is no more. One save and one death reach every statement of a drop
with its child dead after it, and the next child; what goes on over further saves and lanes is proved
(`DoneIsDone`, `MapIsWholeAgain`) as far as it holds, and where it does not takes three lanes (the file's, the table's and the one
that is saved) and a death in each of two rebuilds, in `EmbedRebuildResume`. The Postgres races are of two transactions.

What the bounds leave out, to be known: `MaxFailures` is 3 in the code and 1 in the
run, so strikes that add up below the ceiling are not reached. In `DoctorFix` a single commit of the daemon,
and no key with a property, so that `I5a`'s exemption of those is not exercised.
`MaxSize`, `MaxFaults`, `MaxStarts`, `MaxSaves`, `MaxDeaths` and `MaxCommits` bound what would
otherwise go on for ever; they stand in guards. For the modules with theorems the proofs remove
the bounds for what they state.

Deadlock is checked in every run but those of `EmbedRebuild`, where saves and deaths are used up,
the ingester waits for work that a bounded set of texts may no longer bring in a new
state, and the state graph ends where everything is settled; its liveness property says what must have happened by then.

## Fairness

`FairEmbeddingSpec`: weak fairness of the sweep's timer, of its end, and of backoffs:
timers fire and loops end. Strong fairness of a sweep's embed starting and
succeeding, fact by fact: the embedder is not down for ever, and slots that become
free again and again are got at last. That the latter can fail when recalls and
ingests hold the whole cap between them is the code's intention (a sweep yields), so
`CapIsShared` is a premise of `MissingGetsEmbedded`. No fairness for ingests, recalls,
corrections or restarts.

`FairScanSpec`: weak fairness of the tick as a whole (a tick is started by the timer
after the one before, its awaits have timeouts) and of sources coming to rest; strong
fairness of the elapse of a backoff (it is compared only between ticks), of a source's
parse succeeding and of its classification having an answer other than "unreachable";
failing stats and restarts come to an end. No outcome of the classifier is preferred.

`ReprocessSpec`: weak fairness of the timer's stall check, of the delivery of pending
callbacks and of a process that neither crashes nor hangs. None for operators; a
hung child stays hung, which is what the stall report is for.

`RebuildSpec`: weak fairness of a sweep's steps (an interval, an embedder that answers
or fails) and strong fairness of its getting round to each chunk: a tick that finds no
slot gives its batch up, but not all of them do.

## What is proved

Every safety invariant and action property of the passing runs is also a theorem, for every value
of the constants, under the named assumptions of each module and, where said, one more
premise. `PROJECT.json` ("theorems") lists which theorem states which property. Each
rests on an inductive invariant that TLC checked on the run's instance before it was
proved; what it adds to the property is the reason why the property holds.

- `SessionStore_proofs`. Of the graph: `SessionGraphInvariant` (types, edges between different
  stored sessions, statuses with edges, one correction) and, given `FreshReplacement`,
  `SupersedenceIsAcyclic`. A new 'replaces' edge comes from a session no edge leads
  to or from yet; a new 'supersedes' edge would close a cycle only if its target
  reached its source, which the guard refuses: from a set without a sink one
  gets a set closed under the old edges that holds both ends. Of the store: every
  transaction is a step of `SessionGraph` and a step of `FactStore` or a stutter of
  them, so that what is proved of both holds of the store; and, from an invariant
  over both halves (`StoreInv`), that facts have sessions and that a fact is
  superseded by an older one only where a correction of its session is on record. The
  pointers of facts that are released and collapsed again go to winners that are not
  older, by the collapse lemmas.
- `FactStore_proofs`: the invariant `Inv` is inductive: `Core` (types, `NoDanglingSuccessor`,
  `OneCurrentPerKey`, `VectorsHaveFacts`), `SuccessorHasTheKey` and `ChainsEnd`. The
  collapse lemmas say that every key with a standing fact keeps exactly one, that losers
  point at it, and that a winner is not older than its rivals (`Beats` is a strict order
  on the finite set of facts). `ChainsEnd` needs the others: a loser's successor stands,
  and so does not lead on; an heir is not superseded itself. The action properties
  `OlderNeverDisplaces` and `NoTransactionLeavesAGhost` follow from the invariant and
  one case per transaction. The lemmas per transaction ask for `Core` only and keep the rest
  where it held, so that they serve `FactCuration` too, where only `Core` survives.
- `FactEmbedding_proofs`: `TasksImplementFactStore`, each step of a task is a step of
  `FactStore` or leaves the fact tables alone, so that all theorems of
  `FactStore_proofs` hold of the daemon's tasks, for any number of them; and the task
  invariant: the counter is the number of holders (a cardinality argument over the
  finite set of tasks), it stays within the cap, and retry rows are of stored facts.
- `FactCuration_proofs`, judges and reconciliation: for any number of judges and any answers of the model,
  types, `OneCurrentPerKey`, `NoDanglingSuccessor`, `CurrentNeverGetsOlder` and
  `OnlyReconcileLeavesGhosts`. A stale decision can only take a fact out of the current
  ones, and what it writes it looks up in the same transaction. That `superseded_by` has
  no cycle is `LoneJudgeClosesNoCycle`, with two premises: one judge at most
  (`OneJudge`), and no fact outside all properties that shares its key with another
  (`HeldApart`). The facts a judge has still to decide on, or has decided and not
  touched yet, are each the end of their chain or were current when it looked, and what
  happened to them since leads away from the batch. Without either premise there is a cycle:
  `FactCurationCycle` has the one of two judges, "Findings" the other.
- `FactCuration_proofs`, `doctor --fix`: from any damage, for any number of commits beside it, types (`FixTypeOK`, which no run checks for itself),
  `FixRepairs` and `FixKeepsTheNewest`. That part has nothing of `Core` to start from but the types;
  `Healthier` says what a commit of the daemon keeps even so: it doubles no key that is
  single, makes no pointer dangle where none does, and no vector a ghost but one that comes late (`late`).
- `PgFactIngest_proofs`: for any number of connections, types, `OneGeneration` and
  `NoDanglingSuccessor`. The invariant says of a transaction that what it has deleted is all
  that is on file of its session, still at the commit (`Shape`: the session lock), and that its
  pointers lead to rows it sees (`Leads`); of two, that they are not of one session
  and that neither deletes what the other refers to (`Apart`: the foreign key's
  locks). `OneCurrentPerKey` is a theorem for one connection (`LoneConnectionKeepsOneValue`),
  with retirements and late vectors of others between its statements; two violate it.
- `EmbedRebuild_proofs`: for any sessions, texts, lanes, ingests, sweeps, saves and deaths, types,
  `DoneHasVectors` and `MapIsWhole`, also with overlapping ingests. Both are about a table that was made for the lane of
  the file, or of the child; a lane the operator returns to after another's rebuild (`Detour`) is not
  in them, for there the code goes wrong (`EmbedRebuildResume`). What makes them hold is that a child which drops tables does so
  for a lane that neither `embedding_config` nor the state file names (`DropsForItsLane`), so that neither comes to name a
  table whose map is still that of dropped vectors before the next child has emptied it (`TrustedIsWhole`).
  `VectorsCurrent` and `NothingLost` hold if ingests of a session do not overlap (`~Overlapping`), and fail
  otherwise. The invariant follows each piece of memory across its await: what an
  ingest or a tick is about to write is of the text that is stored, or else its chunk is
  no longer wanted.
- `ReprocessJob_proofs`, the supervisor: for any child that prints lines and exits, any number of
  handles and any cap: types with `restarts` within the cap, `ChildOwned`, and that
  the supervisor implements `JobRun`. `ChildOwned` is inductive only with two facts more: exit
  callbacks are pending of dead processes alone, and a stop has let its child go. The
  identity guard makes every late callback a stutter of the promise.
- `ReprocessJob_proofs`, the child: the reprocess run is a behaviour of `JobSupervisor`, so that the
  three results carry over; `SavedIsStamped`, from an invariant that what a child has
  loaded or finished is stamped, also for a killed child that still writes the file; and
  `CompletedHasAttempted`: what a live child has loaded and not yet attempted is
  in its list until it exits, and a run is completed only by the exit of the child it owns.
- `ScanScheduler_proofs`: for any sources that grow to any size, types,
  `UnchangedMeansHandled`, `RowsNameStoredSessions` and `SkippingLosesNothing`. A row is never
  ahead of its source and where it has the source's size it stands for its text; what a
  tick holds across an await (`snapshot`, `found`, `item`) is of a state the source
  was in, with the size from before the read.

Only model-checked: all liveness (`MissingGetsEmbedded`, `SourcesAreCaughtUp`, `NeverSilentlyDead`,
`DueGetsSettled`), since the prover does not reach liveness under fairness or
`ENABLED`. Nor does it reach induction over data, which is why closures are defined
over sets and no module has a RECURSIVE operator. No proof uses an assumption that is
neither an `ASSUME` of the module nor a premise named above: finite sets of facts and
tasks, an injective order of ids, `None` outside the ids, a positive cap.

## Findings

Four disagreements between the code and what the repository says of it, each with a
run that shows it (`PROJECT.json`, "findings"): a re-ingested superseded session is
closed again; the judges of two overlapping ingests make two facts each other's successor (so
does one judge, if one of the facts is independent: see below); on Postgres two concurrent ingests leave a key with two current
facts; and a rebuild for a lane the operator returned to skips sessions whose vectors another lane's rebuild dropped.

### Known deviations without a run

- A fact that is superseded or retired while its vector is awaited gets the vector all the same:
  `upsertEmbedding` asks only that the fact exists (`sqlite-fact-store.ts:453`), where
  `check-invariants.ts:18` (I7) and `corpus-retention.md:48` allow vectors of live facts only. In `FactEmbedding`
  the step is `EmbedOk`; two tasks suffice for it.
- A lane may be saved back without a rebuild although its vectors are gone: `embedder-settings-service.ts:7-8` takes
  `embedding_config` for the lane on disk, but the row is written when a rebuild completes
  (`embed-backfill.ts:383`) and the vectors are dropped at its start. In `EmbedRebuild` with two saves and a
  death: a save for another lane starts a child, which drops the table and dies, and the first lane, which the row
  still names, is saved again, with neither confirmation nor rebuild (257-260, 288-289). It has one cause with
  `EmbedRebuildResume`: nothing is written when the tables are dropped.
- A rebuild counts a session as done when any of its chunks embedded (`embed-backfill.ts:296-298`); its header
  (11-12) says all. `ChildEmbeds` does what the code does.
- A lone judge closes a cycle of `superseded_by` with an independent fact that has the key of
  another: `FactCuration` with `Independent = {b1}` violates `ChainsEnd` in nine states. `a1` is ingested, then
  the independent `b1`, whose judge decides that it supersedes `a1`; before that is written a
  correction between the sessions moves `b1` under `a1` (`findCandidates`, `write-judge.ts:171-196`,
  and the cascade compare slugs and do not leave independents out). In the run the independent fact has a
  key of its own; this is the premise `HeldApart` of the theorem.
- An operator-unassigned fact is collapsed by a neighbour ingested later
  (`sqlite-fact-store.ts:613` reads rivals by slug alone; `fact-batch.ts:4-8`).
- A single failed classification, not the ceiling of three, ends the attempts at a
  source that does not grow (`scan-once.ts:131`; `migrations/013` lines 3-5).
- Two overlapping ingests of one session may leave a vector of the text that lost
  (`sqlite-session-store.ts:641`): `EmbedRebuild` with two ingesters and `Overlapping`
  TRUE violates `VectorsCurrent` within eight steps.
- A crash between a session's commit and its chunks' embedding leaves chunks that no
  sweep looks for; so does a rebuild that drops the table while an ingest is about to clear it
  (`sqlite-session-store.ts:561`).

## Not modelled, and why

Properties, push ingest's own classification, `reclassify-oversized`, the alerts and the
scheduler's start and stop are state machines in reach and come next. Ranking,
classification, parsing, text, files, the CLI and the UI are scoring, I/O or wiring,
and make up most of the repository's lines; the modules have their outcomes where state
depends on them. Event-class facts (`NLM_FACT_CLASSES=on`, off by default) are kept out
of the collapse and of the model. The reasons component by component are in `PROJECT.json`.

## Plan

1. Properties: keys that change, over `FactStore` with `KeyOf` as a variable.
2. A Postgres session graph, for the cycle guard under concurrent corrections
   (`pg-session-store.ts:339`).
3. Alerts, scheduler start and stop, `reclassify-oversized` as a second writer of
   `adapter_state`.
4. Proofs: which properties of `SessionStore` carry over to Postgres for one connection.
