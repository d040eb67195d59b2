--------------------------- MODULE FactEmbedding ---------------------------
(***************************************************************************)
(* The tasks of the daemon that compute fact vectors.  A task is a chain   *)
(* of callbacks of one event loop: between two of its awaits it runs alone,*)
(* and while it awaits the embedder everything else may happen, so that    *)
(* the fact it is embedding may be superseded, retired or deleted.         *)
(*                                                                         *)
(*   an ingester   commits an ingest, embeds the chunks of the session     *)
(*                 (one step here), picks the facts to embed, embeds them; *)
(*   a sweeper     is a tick of the 2 minute timer: picks the facts due    *)
(*                 for embedding and embeds them; ticks may overlap;       *)
(*   recalls       embed a query: here they only hold slots.               *)
(*                                                                         *)
(* All share the in-flight cap.  The vectors and the fact rows are those   *)
(* of FactStore, whose specification this module implements.               *)
(***************************************************************************)
EXTENDS FactStore

CONSTANTS
  Ingester,          \* ingests that can be under way at once
  Sweeper,           \* sweep ticks that can be under way at once
  Cap,               \* NLM_RECALL_MAX_INFLIGHT_EMBEDS
  SweepLimit         \* facts a sweep takes up

ASSUME EmbeddingConstants ==
  /\ IsFiniteSet(Ingester) /\ IsFiniteSet(Sweeper) /\ Ingester \cap Sweeper = {}
  /\ Cap \in Nat \ {0}
  /\ SweepLimit \in Nat \ {0}

VARIABLES
  phase,             \* where a task is
  todo,              \* the facts a task still has to embed
  cur,               \* the fact whose vector a task is awaiting
  recalls,           \* queries that hold a slot
  inflight,          \* the counter of embed-inflight.ts
  pending            \* fact_embed_pending: no row, backing off, or due

taskVars == <<phase, todo, cur>>
embedVars == <<factVars, taskVars, recalls, inflight, pending>>

Task == Ingester \cup Sweeper

EmbeddingTypeOK ==
  /\ phase \in [Task -> {"idle", "chunks", "facts"}]
  /\ todo \in [Task -> SUBSET Fact]
  /\ cur \in [Task -> Fact \cup {None}]
  /\ recalls \in 0 .. Cap
  /\ inflight \in 0 .. Cap
  /\ pending \in [Fact -> {"none", "waiting", "due"}]

EmbeddingInit ==
  /\ FactInit
  /\ phase = [t \in Task |-> "idle"]
  /\ todo = [t \in Task |-> {}]
  /\ cur = [t \in Task |-> None]
  /\ recalls = 0
  /\ inflight = 0
  /\ pending = [f \in Fact |-> "none"]

-----------------------------------------------------------------------------
(* embed-inflight.ts *)
SlotFree == inflight < Cap

Acquire == inflight' = inflight + 1

Release == inflight' = IF inflight > 0 THEN inflight - 1 ELSE inflight

(* markEmbedPending: no row for a fact that is gone, else a (new) backoff.   *)
MarkPending(f) ==
  pending' = IF f \in stored THEN [pending EXCEPT ![f] = "waiting"] ELSE pending

Missing(f) == f \in Active /\ f \notin vectors

(* Mutant: only recorded failures are due; a task that died left no row.     *)
DueIfRecorded == {f \in stored : Missing(f) /\ pending[f] = "due"}

(* listFactsDueForEmbedding: missing, and not backing off; a missing fact    *)
(* without a row is one whose task died.  Oldest first up to the limit.      *)
Due == {f \in stored : Missing(f) /\ pending[f] # "waiting"}

DueBatches ==
  {B \in SUBSET Due :
     /\ Cardinality(B) <= SweepLimit
     /\ Cardinality(B) < SweepLimit => B = Due
     /\ \A f \in B, g \in Due \ B : CreatedAt[f] <= CreatedAt[g]}

-----------------------------------------------------------------------------
(* A fresh id is one nothing refers to any more.                             *)
Referenced == UNION {todo[t] : t \in Task} \cup {cur[t] : t \in Task}

(* insertSession and insertFactsForSession: the transaction; rows of         *)
(* deleted facts leave fact_embed_pending by the foreign key.                *)
CommitIngest(t, s) ==
  /\ phase[t] = "idle"
  /\ \E batch \in Batches(s) :
       /\ batch \cap Referenced = {}
       /\ \E last \in LastOfBatch(batch) : IngestFacts(s, batch, last)
       /\ todo' = [todo EXCEPT ![t] = batch]
       /\ pending' = [f \in Fact |-> IF f \in Stale(s) THEN "none" ELSE pending[f]]
  /\ phase' = [phase EXCEPT ![t] = "chunks"]
  /\ UNCHANGED <<cur, recalls, inflight>>

(* embedFacts starts when the chunks are done.  storedBatchWinners reads the *)
(* store once, for the whole batch: the last fact of each key that is still  *)
(* on file (and every independent one), if it is current now.                *)
PickBatchWinners(t) ==
  /\ phase[t] = "chunks"
  /\ phase' = [phase EXCEPT ![t] = "facts"]
  /\ \E last \in LastOfBatch(todo[t] \cap stored) :
       todo' = [todo EXCEPT ![t] = {f \in @ \cap Active : f \in Independent \/ f = last[KeyOf[f]]}]
  /\ UNCHANGED <<factVars, cur, recalls, inflight, pending>>

StartSweep(w) ==
  /\ phase[w] = "idle"
  /\ phase' = [phase EXCEPT ![w] = "facts"]
  /\ \E due \in DueBatches : todo' = [todo EXCEPT ![w] = due]
  /\ UNCHANGED <<factVars, cur, recalls, inflight, pending>>

Turn(t, f) == phase[t] = "facts" /\ cur[t] = None /\ f \in todo[t]

(* Mutant: the cap is not asked.                                             *)
StartEmbedUncapped(t, f) ==
  /\ Turn(t, f)
  /\ Acquire
  /\ cur' = [cur EXCEPT ![t] = f]
  /\ todo' = [todo EXCEPT ![t] = @ \ {f}]
  /\ UNCHANGED <<factVars, phase, recalls, pending>>

StartEmbed(t, f) ==
  /\ Turn(t, f) /\ SlotFree
  /\ Acquire
  /\ cur' = [cur EXCEPT ![t] = f]
  /\ todo' = [todo EXCEPT ![t] = @ \ {f}]
  /\ UNCHANGED <<factVars, phase, recalls, pending>>

(* Without a slot an ingest leaves the fact to the sweep and goes on; noting *)
(* it down is best effort.  A sweep gives up its batch.                      *)
ShedByIngest(t, f) ==
  /\ Turn(t, f) /\ ~SlotFree
  /\ todo' = [todo EXCEPT ![t] = @ \ {f}]
  /\ MarkPending(f) \/ UNCHANGED pending
  /\ UNCHANGED <<factVars, phase, cur, recalls, inflight>>

ShedBySweep(w, f) ==
  /\ Turn(w, f) /\ ~SlotFree
  /\ todo' = [todo EXCEPT ![w] = {}]
  /\ UNCHANGED <<factVars, phase, cur, recalls, inflight, pending>>

(* Mutant: the vector of a fact that went away in the meantime is written.   *)
EmbedOkUnchecked(t, f) ==
  /\ f # None /\ cur[t] = f
  /\ vectors' = vectors \cup {f} /\ pending' = [pending EXCEPT ![f] = "none"]
  /\ Release
  /\ cur' = [cur EXCEPT ![t] = None]
  /\ UNCHANGED <<stored, supersededBy, retired, phase, todo, recalls>>

(* The vector arrives: upsertEmbedding writes it and clears the pending row, *)
(* or does nothing for a fact that is gone; the slot is given back.          *)
EmbedOk(t, f) ==
  /\ f # None /\ cur[t] = f
  /\ IF f \in stored THEN UpsertEmbedding(f) /\ pending' = [pending EXCEPT ![f] = "none"]
                     ELSE UNCHANGED <<factVars, pending>>
  /\ Release
  /\ cur' = [cur EXCEPT ![t] = None]
  /\ UNCHANGED <<phase, todo, recalls>>

(* Mutant: the slot of a failed embed is not given back.                     *)
EmbedFailsHolding(t, f) ==
  /\ f # None /\ cur[t] = f
  /\ MarkPending(f)
  /\ cur' = [cur EXCEPT ![t] = None]
  /\ UNCHANGED <<factVars, phase, todo, recalls, inflight>>

(* The embedder fails or times out.  An ingest notes the fact down on a best *)
(* effort basis; in a sweep a failing note ends the batch.                   *)
EmbedFails(t, f) ==
  /\ f # None /\ cur[t] = f
  /\ \/ MarkPending(f) /\ UNCHANGED todo
     \/ t \in Ingester /\ UNCHANGED <<pending, todo>>
     \/ t \in Sweeper /\ UNCHANGED pending /\ todo' = [todo EXCEPT ![t] = {}]
  /\ Release
  /\ cur' = [cur EXCEPT ![t] = None]
  /\ UNCHANGED <<factVars, phase, recalls>>

Finish(t) ==
  /\ phase[t] = "facts" /\ cur[t] = None /\ todo[t] = {}
  /\ phase' = [phase EXCEPT ![t] = "idle"]
  /\ UNCHANGED <<factVars, todo, cur, recalls, inflight, pending>>

BackoffElapses(f) ==
  /\ pending[f] = "waiting"
  /\ pending' = [pending EXCEPT ![f] = "due"]
  /\ UNCHANGED <<factVars, taskVars, recalls, inflight>>

RecallAcquires ==
  /\ SlotFree
  /\ Acquire
  /\ recalls' = recalls + 1
  /\ UNCHANGED <<factVars, taskVars, pending>>

RecallReleases ==
  /\ recalls > 0
  /\ Release
  /\ recalls' = recalls - 1
  /\ UNCHANGED <<factVars, taskVars, pending>>

(* Corrections and retirements go on meanwhile.                              *)
Correct(pred, succ) ==
  /\ pred # succ
  /\ \E heir \in HeirChoices(succ) : CascadeFacts(pred, succ, heir)
  /\ UNCHANGED <<taskVars, recalls, inflight, pending>>

RetireFact(f) ==
  /\ Retire(f)
  /\ UNCHANGED <<taskVars, recalls, inflight, pending>>

(* The daemon dies and starts again: tables stay, tasks and slots do not.    *)
Restart ==
  /\ phase' = [t \in Task |-> "idle"]
  /\ todo' = [t \in Task |-> {}]
  /\ cur' = [t \in Task |-> None]
  /\ recalls' = 0
  /\ inflight' = 0
  /\ UNCHANGED <<factVars, pending>>

EmbeddingNext ==
  \/ \E t \in Ingester, s \in Session : CommitIngest(t, s)
  \/ \E t \in Ingester : PickBatchWinners(t)
  \/ \E t \in Ingester, f \in Fact : ShedByIngest(t, f)
  \/ \E w \in Sweeper : StartSweep(w)
  \/ \E w \in Sweeper, f \in Fact : ShedBySweep(w, f)
  \/ \E t \in Task, f \in Fact : StartEmbed(t, f) \/ EmbedOk(t, f) \/ EmbedFails(t, f)
  \/ \E t \in Task : Finish(t)
  \/ \E f \in Fact : BackoffElapses(f) \/ RetireFact(f)
  \/ \E pred, succ \in Session : Correct(pred, succ)
  \/ RecallAcquires \/ RecallReleases \/ Restart

EmbeddingSpec == EmbeddingInit /\ [][EmbeddingNext]_embedVars

(* Timers fire, a finished task ends and backoffs elapse (weak fairness).    *)
(* The embedder is not down for ever: an embed a sweep asks for again and    *)
(* again starts when slots are free and at last succeeds (strong fairness,   *)
(* which is about the daemon's surroundings).                                *)
FairEmbeddingSpec ==
  /\ EmbeddingSpec
  /\ \A f \in Fact : WF_embedVars(BackoffElapses(f))
  /\ \A w \in Sweeper : WF_embedVars(StartSweep(w)) /\ WF_embedVars(Finish(w))
  /\ \A w \in Sweeper, f \in Fact :
       SF_embedVars(StartEmbed(w, f)) /\ SF_embedVars(EmbedOk(w, f))

-----------------------------------------------------------------------------
Holders == {t \in Task : cur[t] # None}

(* embed-inflight.ts counts by hand: on every path, success, failure, a fact *)
(* that went away or a restart, the counter is the number of those who hold  *)
(* a slot.  A path that forgets to release would starve recall for good.     *)
SlotsAreHeld == inflight = recalls + Cardinality(Holders)

(* fact_embed_pending never keeps a row of a fact that was deleted while its *)
(* vector was awaited.                                                       *)
PendingIsOfStoredFacts == \A f \in Fact : pending[f] # "none" => f \in stored

(* What the tasks do to the fact tables is what FactStore allows.            *)
ImplementsFactStore == FactSpec

(* T732: a current fact does not stay without a vector, whether its embed    *)
(* failed, was shed or died with the daemon; it is embedded or stops being   *)
(* current, provided recalls and ingests do not for ever take the whole cap  *)
(* between them (a sweep yields to them by design).                          *)
CapIsShared == recalls + Cardinality({t \in Ingester : cur[t] # None}) < Cap

MissingGetsEmbedded ==
  <>[]CapIsShared => \A f \in Fact : Missing(f) ~> ~Missing(f)
=============================================================================
