------------------------ MODULE FactEmbedding_proofs ------------------------
(***************************************************************************)
(* The embedding tasks do to the fact tables only what FactStore allows,   *)
(* so everything proved of FactStore holds while they run; and the count   *)
(* of slots kept by hand is right, for any number of tasks and any cap.    *)
(***************************************************************************)
EXTENDS FactEmbedding, FactStore_proofs

-----------------------------------------------------------------------------
(* The refinement. *)

LEMMA StepImplementsFactStore ==
  ASSUME EmbeddingNext
  PROVE  [FactNext]_factVars
<1>1. ASSUME NEW t \in Ingester, NEW s \in Session, CommitIngest(t, s)
      PROVE  FactNext
  BY <1>1 DEF CommitIngest, FactNext
<1>2. ASSUME NEW t \in Task, NEW f \in Fact, EmbedOk(t, f)
      PROVE  [FactNext]_factVars
  BY <1>2 DEF EmbedOk, FactNext
<1>3. ASSUME NEW f \in Fact, RetireFact(f)
      PROVE  FactNext
  BY <1>3 DEF RetireFact, FactNext
<1>4. ASSUME NEW pred \in Session, NEW succ \in Session, Correct(pred, succ)
      PROVE  FactNext
  BY <1>4 DEF Correct, FactNext
<1>5. ASSUME NEW t \in Ingester, PickBatchWinners(t)
      PROVE  UNCHANGED factVars
  BY <1>5 DEF PickBatchWinners
<1>6. ASSUME NEW t \in Ingester, NEW f \in Fact, ShedByIngest(t, f)
      PROVE  UNCHANGED factVars
  BY <1>6 DEF ShedByIngest
<1>7. ASSUME NEW w \in Sweeper, StartSweep(w) \/ \E f \in Fact : ShedBySweep(w, f)
      PROVE  UNCHANGED factVars
  BY <1>7 DEF StartSweep, ShedBySweep
<1>8. ASSUME NEW t \in Task, NEW f \in Fact, StartEmbed(t, f) \/ EmbedFails(t, f)
      PROVE  UNCHANGED factVars
  BY <1>8 DEF StartEmbed, EmbedFails
<1>9. ASSUME \/ \E t \in Task : Finish(t)
             \/ \E f \in Fact : BackoffElapses(f)
             \/ RecallAcquires \/ RecallReleases \/ Restart
      PROVE  UNCHANGED factVars
  BY <1>9 DEF Finish, BackoffElapses, RecallAcquires, RecallReleases, Restart
<1> QED  BY <1>1, <1>2, <1>3, <1>4, <1>5, <1>6, <1>7, <1>8, <1>9 DEF EmbeddingNext

(* Whatever the tasks do, however they interleave and wherever they die, the *)
(* fact tables behave as FactStore specifies.                                *)
THEOREM TasksImplementFactStore == EmbeddingSpec => ImplementsFactStore
<1>1. EmbeddingInit => FactInit
  BY DEF EmbeddingInit
<1>2. [EmbeddingNext]_embedVars => [FactNext]_factVars
  BY StepImplementsFactStore DEF embedVars, factVars
<1> QED  BY <1>1, <1>2, PTL DEF EmbeddingSpec, ImplementsFactStore, FactSpec

-----------------------------------------------------------------------------
(* The slots. *)

TaskInv == EmbeddingTypeOK /\ SlotsAreHeld /\ PendingIsOfStoredFacts

LEMMA HoldersAreFinite ==
  IsFiniteSet(Holders) /\ Cardinality(Holders) \in Nat
<1>1. IsFiniteSet(Task)
  BY EmbeddingConstants, FS_Union DEF Task
<1>2. Holders \in SUBSET Task
  BY DEF Holders
<1> QED  BY <1>1, <1>2, FS_Subset, FS_CardinalityType

LEMMA AcquireTakesASlot ==
  ASSUME TaskInv, NEW t \in Task, NEW f \in Fact,
         cur[t] = None, SlotFree, Acquire, cur' = [cur EXCEPT ![t] = f], recalls' = recalls
  PROVE  SlotsAreHeld' /\ inflight' \in 0 .. Cap
<1>1. Holders' = Holders \cup {t} /\ t \notin Holders
  BY FactConstants DEF Holders, TaskInv, EmbeddingTypeOK
<1>2. Cardinality(Holders') = Cardinality(Holders) + 1
  BY <1>1, HoldersAreFinite, FS_AddElement
<1> QED  BY <1>2, HoldersAreFinite, EmbeddingConstants
            DEF TaskInv, EmbeddingTypeOK, SlotsAreHeld, SlotFree, Acquire

LEMMA ReleaseGivesItBack ==
  ASSUME TaskInv, NEW t \in Task, NEW f \in Fact,
         cur[t] = f, Release, cur' = [cur EXCEPT ![t] = None], recalls' = recalls
  PROVE  SlotsAreHeld' /\ inflight' \in 0 .. Cap
<1>1. Holders' = Holders \ {t} /\ t \in Holders
  BY FactConstants DEF Holders, TaskInv, EmbeddingTypeOK
<1>2. Cardinality(Holders') = Cardinality(Holders) - 1
  BY <1>1, HoldersAreFinite, FS_RemoveElement
<1>3. Cardinality(Holders) # 0
  BY <1>1, HoldersAreFinite, FS_EmptySet
<1> QED  BY <1>2, <1>3, HoldersAreFinite, EmbeddingConstants
            DEF TaskInv, EmbeddingTypeOK, SlotsAreHeld, Release

(* A task that neither starts nor ends an embed leaves the count right.      *)
LEMMA OthersKeepTheSlots ==
  ASSUME TaskInv, UNCHANGED <<cur, recalls, inflight>>
  PROVE  SlotsAreHeld' /\ inflight' \in 0 .. Cap
BY DEF TaskInv, EmbeddingTypeOK, SlotsAreHeld, Holders

LEMMA MarkingKeepsPending ==
  ASSUME TaskInv, NEW f \in Fact, MarkPending(f) \/ UNCHANGED pending, UNCHANGED stored
  PROVE  PendingIsOfStoredFacts' /\ pending' \in [Fact -> {"none", "waiting", "due"}]
BY DEF TaskInv, EmbeddingTypeOK, PendingIsOfStoredFacts, MarkPending

(* An ingest keeps the pending rows of facts it keeps.                       *)
LEMMA IngestKeepsTaskInv ==
  ASSUME TaskInv, FactTypeOK, NEW t \in Ingester, NEW s \in Session, CommitIngest(t, s)
  PROVE  TaskInv'
<1>1. PICK batch \in Batches(s) :
             /\ batch \cap Referenced = {}
             /\ \E last \in LastOfBatch(batch) : IngestFacts(s, batch, last)
             /\ todo' = [todo EXCEPT ![t] = batch]
             /\ pending' = [f \in Fact |-> IF f \in Stale(s) THEN "none" ELSE pending[f]]
  BY DEF CommitIngest
<1>2. batch \in SUBSET Fact /\ stored' = (stored \ Stale(s)) \cup batch
  BY <1>1 DEF Batches, FactsOf, IngestFacts, Kept
<1>3. UNCHANGED <<cur, recalls, inflight>> /\ phase' = [phase EXCEPT ![t] = "chunks"]
  BY DEF CommitIngest
<1>4. SlotsAreHeld' /\ inflight' \in 0 .. Cap
  BY <1>3, OthersKeepTheSlots
<1>5. PendingIsOfStoredFacts'
  BY <1>1, <1>2 DEF TaskInv, PendingIsOfStoredFacts, EmbeddingTypeOK
<1>6. EmbeddingTypeOK'
  BY <1>1, <1>2, <1>3, <1>4 DEF TaskInv, EmbeddingTypeOK
<1> QED  BY <1>4, <1>5, <1>6 DEF TaskInv

LEMMA PickKeepsTaskInv ==
  ASSUME TaskInv, FactTypeOK, NEW t \in Ingester, PickBatchWinners(t)
  PROVE  TaskInv'
<1>1. SlotsAreHeld' /\ inflight' \in 0 .. Cap
  BY OthersKeepTheSlots DEF PickBatchWinners
<1>2. PendingIsOfStoredFacts'
  BY DEF PickBatchWinners, TaskInv, PendingIsOfStoredFacts, factVars
<1>3. todo' \in [Task -> SUBSET Fact]
  BY DEF PickBatchWinners, TaskInv, EmbeddingTypeOK
<1> QED  BY <1>1, <1>2, <1>3 DEF PickBatchWinners, TaskInv, EmbeddingTypeOK

LEMMA SweepStartKeepsTaskInv ==
  ASSUME TaskInv, FactTypeOK, NEW w \in Sweeper, StartSweep(w)
  PROVE  TaskInv'
<1>1. SlotsAreHeld' /\ inflight' \in 0 .. Cap
  BY OthersKeepTheSlots DEF StartSweep
<1>2. PendingIsOfStoredFacts'
  BY DEF StartSweep, TaskInv, PendingIsOfStoredFacts, factVars
<1>3. todo' \in [Task -> SUBSET Fact]
  BY DEF StartSweep, TaskInv, EmbeddingTypeOK, FactTypeOK, DueBatches, Due
<1> QED  BY <1>1, <1>2, <1>3 DEF StartSweep, TaskInv, EmbeddingTypeOK

LEMMA StartEmbedKeepsTaskInv ==
  ASSUME TaskInv, NEW t \in Task, NEW f \in Fact, StartEmbed(t, f)
  PROVE  TaskInv'
<1>1. cur[t] = None /\ SlotFree /\ Acquire /\ cur' = [cur EXCEPT ![t] = f] /\ recalls' = recalls
  BY DEF StartEmbed, Turn
<1>2. SlotsAreHeld' /\ inflight' \in 0 .. Cap
  BY <1>1, AcquireTakesASlot
<1>3. PendingIsOfStoredFacts'
  BY DEF StartEmbed, TaskInv, PendingIsOfStoredFacts, factVars
<1> QED  BY <1>1, <1>2, <1>3 DEF StartEmbed, TaskInv, EmbeddingTypeOK

LEMMA ShedKeepsTaskInv ==
  ASSUME TaskInv, NEW t \in Task, NEW f \in Fact, ShedByIngest(t, f) \/ ShedBySweep(t, f)
  PROVE  TaskInv'
<1>1. SlotsAreHeld' /\ inflight' \in 0 .. Cap
  BY OthersKeepTheSlots DEF ShedByIngest, ShedBySweep
<1>2. PendingIsOfStoredFacts' /\ pending' \in [Fact -> {"none", "waiting", "due"}]
  BY MarkingKeepsPending DEF ShedByIngest, ShedBySweep, factVars
<1> QED  BY <1>1, <1>2 DEF ShedByIngest, ShedBySweep, TaskInv, EmbeddingTypeOK

LEMMA EmbedOkKeepsTaskInv ==
  ASSUME TaskInv, NEW t \in Task, NEW f \in Fact, EmbedOk(t, f)
  PROVE  TaskInv'
<1>1. cur[t] = f /\ Release /\ cur' = [cur EXCEPT ![t] = None] /\ recalls' = recalls
  BY DEF EmbedOk
<1>2. SlotsAreHeld' /\ inflight' \in 0 .. Cap
  BY <1>1, ReleaseGivesItBack
<1>3. stored' = stored
  BY DEF EmbedOk, UpsertEmbedding, factVars
<1>4. pending' = [pending EXCEPT ![f] = "none"] \/ pending' = pending
  BY DEF EmbedOk
<1>5. PendingIsOfStoredFacts'
  BY <1>3, <1>4 DEF TaskInv, EmbeddingTypeOK, PendingIsOfStoredFacts
<1> QED  BY <1>1, <1>2, <1>4, <1>5 DEF EmbedOk, TaskInv, EmbeddingTypeOK

LEMMA EmbedFailsKeepsTaskInv ==
  ASSUME TaskInv, NEW t \in Task, NEW f \in Fact, EmbedFails(t, f)
  PROVE  TaskInv'
<1>1. cur[t] = f /\ Release /\ cur' = [cur EXCEPT ![t] = None] /\ recalls' = recalls
  BY DEF EmbedFails
<1>2. SlotsAreHeld' /\ inflight' \in 0 .. Cap
  BY <1>1, ReleaseGivesItBack
<1>3. PendingIsOfStoredFacts' /\ pending' \in [Fact -> {"none", "waiting", "due"}]
  BY MarkingKeepsPending DEF EmbedFails, factVars
<1>4. todo' \in [Task -> SUBSET Fact]
  BY DEF EmbedFails, TaskInv, EmbeddingTypeOK
<1> QED  BY <1>1, <1>2, <1>3, <1>4 DEF EmbedFails, TaskInv, EmbeddingTypeOK

(* The rest: nobody starts or ends the embed of a fact, except a restart,    *)
(* which ends them all.                                                      *)
LEMMA OthersKeepTaskInv ==
  ASSUME TaskInv,
         \/ \E t \in Task : Finish(t)
         \/ \E f \in Fact : BackoffElapses(f) \/ RetireFact(f)
         \/ \E pred, succ \in Session : Correct(pred, succ)
  PROVE  TaskInv'
<1>1. UNCHANGED <<cur, recalls, inflight, todo, stored>>
  BY DEF Finish, BackoffElapses, RetireFact, Retire, Correct, CascadeFacts, factVars, taskVars
<1>2. SlotsAreHeld' /\ inflight' \in 0 .. Cap
  BY <1>1, OthersKeepTheSlots
<1>3. phase' \in [Task -> {"idle", "chunks", "facts"}]
  BY DEF Finish, BackoffElapses, RetireFact, Correct, taskVars, TaskInv, EmbeddingTypeOK
<1>4. pending' = pending \/ \E f \in Fact : pending[f] = "waiting" /\ pending' = [pending EXCEPT ![f] = "due"]
  BY DEF Finish, BackoffElapses, RetireFact, Correct
<1>5. PendingIsOfStoredFacts' /\ pending' \in [Fact -> {"none", "waiting", "due"}]
  BY <1>1, <1>4 DEF TaskInv, EmbeddingTypeOK, PendingIsOfStoredFacts
<1> QED  BY <1>1, <1>2, <1>3, <1>5 DEF TaskInv, EmbeddingTypeOK

LEMMA RecallsKeepTaskInv ==
  ASSUME TaskInv, RecallAcquires \/ RecallReleases
  PROVE  TaskInv'
<1>1. UNCHANGED <<factVars, taskVars, pending>> /\ Holders' = Holders
  BY DEF RecallAcquires, RecallReleases, taskVars, Holders
<1>2. SlotsAreHeld' /\ inflight' \in 0 .. Cap /\ recalls' \in 0 .. Cap
  BY <1>1, HoldersAreFinite, EmbeddingConstants
     DEF RecallAcquires, RecallReleases, Acquire, Release, SlotFree, TaskInv, EmbeddingTypeOK, SlotsAreHeld
<1> QED  BY <1>1, <1>2 DEF TaskInv, EmbeddingTypeOK, PendingIsOfStoredFacts, factVars, taskVars

LEMMA RestartKeepsTaskInv ==
  ASSUME TaskInv, Restart
  PROVE  TaskInv'
<1>1. Holders' = {}
  BY DEF Restart, Holders
<1>2. SlotsAreHeld'
  BY <1>1, FS_EmptySet DEF Restart, SlotsAreHeld
<1>3. EmbeddingTypeOK'
  BY EmbeddingConstants DEF Restart, TaskInv, EmbeddingTypeOK
<1>4. PendingIsOfStoredFacts'
  BY DEF Restart, TaskInv, PendingIsOfStoredFacts, factVars
<1> QED  BY <1>2, <1>3, <1>4 DEF TaskInv

LEMMA EmbeddingNextKeepsTaskInv ==
  ASSUME TaskInv, FactTypeOK, [EmbeddingNext]_embedVars
  PROVE  TaskInv'
<1>1. CASE \E t \in Ingester, s \in Session : CommitIngest(t, s)
  BY <1>1, IngestKeepsTaskInv
<1>2. CASE \E t \in Ingester : PickBatchWinners(t)
  BY <1>2, PickKeepsTaskInv
<1>3. CASE \/ \E t \in Ingester, f \in Fact : ShedByIngest(t, f)
           \/ \E w \in Sweeper, f \in Fact : ShedBySweep(w, f)
  BY <1>3, ShedKeepsTaskInv DEF Task
<1>4. CASE \E w \in Sweeper : StartSweep(w)
  BY <1>4, SweepStartKeepsTaskInv
<1>5. CASE \E t \in Task, f \in Fact : StartEmbed(t, f) \/ EmbedOk(t, f) \/ EmbedFails(t, f)
  BY <1>5, StartEmbedKeepsTaskInv, EmbedOkKeepsTaskInv, EmbedFailsKeepsTaskInv
<1>6. CASE \/ \E t \in Task : Finish(t)
           \/ \E f \in Fact : BackoffElapses(f) \/ RetireFact(f)
           \/ \E pred, succ \in Session : Correct(pred, succ)
  BY <1>6, OthersKeepTaskInv
<1>7. CASE RecallAcquires \/ RecallReleases
  BY <1>7, RecallsKeepTaskInv
<1>8. CASE Restart
  BY <1>8, RestartKeepsTaskInv
<1>9. CASE UNCHANGED embedVars
  <2>1. SlotsAreHeld' /\ inflight' \in 0 .. Cap
    BY <1>9, OthersKeepTheSlots DEF embedVars, taskVars
  <2> QED  BY <1>9, <2>1 DEF embedVars, factVars, taskVars, TaskInv, EmbeddingTypeOK, PendingIsOfStoredFacts
<1> QED  BY <1>1, <1>2, <1>3, <1>4, <1>5, <1>6, <1>7, <1>8, <1>9 DEF EmbeddingNext

LEMMA EmbeddingInitHasTaskInv == EmbeddingInit => TaskInv
<1> SUFFICES ASSUME EmbeddingInit PROVE TaskInv
  OBVIOUS
<1>1. Holders = {}
  BY DEF EmbeddingInit, Holders
<1>2. SlotsAreHeld
  BY <1>1, FS_EmptySet DEF EmbeddingInit, SlotsAreHeld
<1>3. EmbeddingTypeOK
  BY EmbeddingConstants DEF EmbeddingInit, EmbeddingTypeOK
<1> QED  BY <1>2, <1>3 DEF TaskInv, EmbeddingInit, PendingIsOfStoredFacts

-----------------------------------------------------------------------------
(* The invariant of the tasks, in the presence of that of the fact tables.   *)
THEOREM EmbeddingInvariant == EmbeddingSpec => [](Inv /\ TaskInv)
<1>1. EmbeddingSpec => []Inv
  BY TasksImplementFactStore, FactStoreInvariant, PTL DEF ImplementsFactStore
<1>2. Inv /\ TaskInv /\ [EmbeddingNext]_embedVars => TaskInv'
  BY EmbeddingNextKeepsTaskInv DEF Inv, Core
<1> QED  BY <1>1, <1>2, EmbeddingInitHasTaskInv, PTL DEF EmbeddingSpec

(* The slot counter is the number of slots held, on every path and for any   *)
(* number of overlapping ingests and sweeps.                                 *)
THEOREM SlotCounterIsExact == EmbeddingSpec => []SlotsAreHeld
<1>1. TaskInv => SlotsAreHeld
  BY DEF TaskInv
<1> QED  BY <1>1, EmbeddingInvariant, PTL

(* The tasks keep their types: in particular the cap is never exceeded.      *)
THEOREM CapIsKept == EmbeddingSpec => []EmbeddingTypeOK
<1>1. TaskInv => EmbeddingTypeOK
  BY DEF TaskInv
<1> QED  BY <1>1, EmbeddingInvariant, PTL

(* No pending row outlives its fact.                                         *)
THEOREM PendingRowsHaveFacts == EmbeddingSpec => []PendingIsOfStoredFacts
<1>1. TaskInv => PendingIsOfStoredFacts
  BY DEF TaskInv
<1> QED  BY <1>1, EmbeddingInvariant, PTL
=============================================================================
