----------------------------- MODULE FactCuration -----------------------------
(***************************************************************************)
(* Who else decides about facts: the judge that looks at newly ingested    *)
(* facts (write-judge.ts, NLM_FACT_JUDGE=on) and the bulk retirement of    *)
(* facts that contradict an authority (reconcile-facts.ts), both under the *)
(* sweep guard (sweep-guard.ts).  Each reads the facts, waits (for the     *)
(* model, for a backup), and then acts on what it read, while ingests,     *)
(* corrections and retirements go on.                                      *)
(*                                                                         *)
(* The judge is a tail of every ingest, so an ingest takes a judge with it.*)
(* What the model will answer is chosen when it is asked; it is acted upon *)
(* when the whole batch has been asked about.                              *)
(***************************************************************************)
EXTENDS FactStore, SweepGuard, Sequences

CONSTANTS
  Judge,             \* ingests whose judge can be under way at once
  SlugOf             \* the property of a key

ASSUME CurationConstants == DOMAIN SlugOf = Key

VARIABLES
  judge,             \* per judge: what it has still to ask about, and to do
  findings           \* facts the running reconcile-facts is about to retire

curationVars == <<factVars, judge, findings>>

(* plan: the pairs (loser, winner) decided; touched: those already used.     *)
Idle == [phase |-> "idle", todo |-> {}, total |-> 0, plan |-> <<>>, touched |-> {}]

CurationTypeOK ==
  /\ FactTypeOK
  /\ judge \in [Judge -> [phase : {"idle", "ingested", "asking", "applying"},
                          todo : SUBSET Fact, total : Nat,
                          plan : Seq(Fact \X Fact), touched : SUBSET Fact]]
  /\ findings \subseteq Fact

CurationInit ==
  /\ FactInit
  /\ judge = [j \in Judge |-> Idle]
  /\ findings = {}

-----------------------------------------------------------------------------
PlannedFacts(j) == UNION {{judge[j].plan[i][1], judge[j].plan[i][2]} : i \in DOMAIN judge[j].plan}

Referenced == findings \cup UNION {judge[j].todo \cup PlannedFacts(j) : j \in Judge}

(* insertSession or insertFactsForSession, up to the commit.                 *)
Ingest(j, s) ==
  /\ judge[j].phase = "idle"
  /\ \E batch \in Batches(s) :
       /\ batch \cap Referenced = {}
       /\ \E last \in LastOfBatch(batch) : IngestFacts(s, batch, last)
       /\ judge' = [judge EXCEPT ![j] = [Idle EXCEPT !.phase = "ingested", !.todo = batch]]
  /\ UNCHANGED findings

(* judgeNewFacts, after the vectors: the batch winners that are still current. *)
PickNewFacts(j) ==
  /\ judge[j].phase = "ingested"
  /\ \E last \in LastOfBatch(judge[j].todo \cap stored) :
       LET B == {f \in judge[j].todo \cap Active : f \in Independent \/ f = last[KeyOf[f]]}
       IN  judge' = [judge EXCEPT ![j] = IF B = {} THEN Idle
                       ELSE [Idle EXCEPT !.phase = "asking", !.todo = B, !.total = Cardinality(B)]]
  /\ UNCHANGED <<factVars, findings>>

(* findCandidates: other active facts of the property, the key's own or near *)
(* by embedding.                                                             *)
Candidates(f) == {g \in Active \ {f} : SlugOf[KeyOf[g]] = SlugOf[KeyOf[f]]}

(* KEEP_BOTH, also forced; or SUPERSEDE_OLD; or SKIP_NEW.                    *)
AskAbout(j, f) ==
  /\ judge[j].phase = "asking" /\ f \in judge[j].todo
  /\ \E decided \in {<<>>} \cup {<< <<g, f>> >> : g \in Candidates(f)}
                           \cup {<< <<f, g>> >> : g \in Candidates(f)} :
       judge' = [judge EXCEPT ![j].todo = @ \ {f}, ![j].plan = @ \o decided]
  /\ UNCHANGED <<factVars, findings>>

(* All asked: the guard lets the batch through, or nothing is done.          *)
GuardBatch(j) ==
  /\ judge[j].phase = "asking" /\ judge[j].todo = {}
  /\ judge' = [judge EXCEPT ![j] =
       IF GuardAllows(Len(@.plan), @.total, 1, 2) THEN [@ EXCEPT !.phase = "applying"] ELSE Idle]
  /\ UNCHANGED <<factVars, findings>>

(* Mutants: a fact may be used twice in a batch; a loser keeps its vector.   *)
NobodyTouched(pair, touched) == FALSE

SupersedeKeepingVector(loser, winner) ==
  /\ loser \in stored /\ winner \in stored
  /\ supersededBy' = [supersededBy EXCEPT ![loser] = winner]
  /\ UNCHANGED <<stored, retired, vectors>>

AlreadyTouched(pair, touched) == pair[1] \in touched \/ pair[2] \in touched

(* The store's markSuperseded for facts: both must exist, no more is asked.  *)
SupersedeFact(loser, winner) ==
  /\ loser \in stored /\ winner \in stored
  /\ supersededBy' = [supersededBy EXCEPT ![loser] = winner]
  /\ vectors' = vectors \ {loser}
  /\ UNCHANGED <<stored, retired>>

(* One decision; a fact that is gone ends the batch with an error.           *)
ApplyNext(j) ==
  LET pair == Head(judge[j].plan)
      rest == [judge[j] EXCEPT !.plan = Tail(@)]
      used == [rest EXCEPT !.touched = @ \cup {pair[1], pair[2]}]
  IN  /\ judge[j].phase = "applying" /\ judge[j].plan # <<>>
      /\ \/ /\ AlreadyTouched(pair, judge[j].touched)
            /\ judge' = [judge EXCEPT ![j] = rest]
            /\ UNCHANGED factVars
         \/ /\ ~AlreadyTouched(pair, judge[j].touched)
            /\ SupersedeFact(pair[1], pair[2])
            /\ judge' = [judge EXCEPT ![j] = used]
         \/ /\ ~AlreadyTouched(pair, judge[j].touched)
            /\ {pair[1], pair[2]} \ stored # {}
            /\ judge' = [judge EXCEPT ![j] = Idle]
            /\ UNCHANGED factVars
      /\ UNCHANGED findings

JudgeDone(j) ==
  /\ judge[j].phase = "applying" /\ judge[j].plan = <<>>
  /\ judge' = [judge EXCEPT ![j] = Idle]
  /\ UNCHANGED <<factVars, findings>>

-----------------------------------------------------------------------------
(* reconcile-facts --apply: the contradicted facts are found, the guard is   *)
(* asked, the database is backed up; then those still current are retired.   *)
FindContradictions(F) ==
  /\ findings = {} /\ F # {} /\ F \subseteq Active
  /\ GuardAllows(Cardinality(F), Cardinality(Active), 4, 5)
  /\ findings' = F
  /\ UNCHANGED <<factVars, judge>>

StillContradicted == findings \cap Active

ApplyRetirements ==
  /\ findings # {}
  /\ retired' = retired \cup StillContradicted
  /\ findings' = {}
  /\ UNCHANGED <<stored, supersededBy, vectors, judge>>

(* The daemon dies, its judges with it; reconcile-facts is a process of its  *)
(* own and dies alone.                                                       *)
DaemonDies ==
  /\ judge' = [j \in Judge |-> Idle]
  /\ UNCHANGED <<factVars, findings>>

ReconcileDies == findings' = {} /\ UNCHANGED <<factVars, judge>>

Others ==
  \/ \E f \in Fact : Retire(f) \/ UpsertEmbedding(f)
  \/ \E pred, succ \in Session :
       pred # succ /\ \E heir \in HeirChoices(succ) : CascadeFacts(pred, succ, heir)

CurationNext ==
  \/ \E j \in Judge :
       \/ PickNewFacts(j) \/ GuardBatch(j) \/ ApplyNext(j) \/ JudgeDone(j)
       \/ \E s \in Session : Ingest(j, s)
       \/ \E f \in Fact : AskAbout(j, f)
  \/ \E F \in SUBSET Fact : FindContradictions(F)
  \/ ApplyRetirements \/ DaemonDies \/ ReconcileDies
  \/ Others /\ UNCHANGED <<judge, findings>>

CurationSpec == CurationInit /\ [][CurationNext]_curationVars

-----------------------------------------------------------------------------
(* Nobody but reconcile-facts turns a searchable vector into a ghost (NLM    *)
(* #351); it retires facts and leaves their vectors in the index.            *)
OnlyReconcileLeavesGhosts ==
  [][\A f \in Ghosts' \ Ghosts : f \in vectors => f \in findings /\ findings' = {}]_curationVars
=============================================================================
