------------------------- MODULE FactCuration_proofs -------------------------
(***************************************************************************)
(* Judges and reconcile-facts leave the fact tables sound, and the judge   *)
(* closes no cycle when it is alone, for any sessions, facts, keys and     *)
(* answers of the model.  At the end, doctor --fix (DoctorFix): what it    *)
(* does to a damaged database, for any damage and any number of commits of *)
(* the daemon next to it.                                                  *)
(***************************************************************************)
EXTENDS FactCuration, DoctorFix, FactStore_proofs, SequenceTheorems

-----------------------------------------------------------------------------
(* The plan of a judge, as a sequence of pairs.                              *)
Pair == Fact \X Fact

PairFacts(p) == UNION {{p[i][1], p[i][2]} : i \in DOMAIN p}

OfTwo(p) == \A i \in DOMAIN p : p[i][1] # p[i][2]

LEMMA HeadOfPlan ==
  ASSUME NEW p \in Seq(Pair), p # <<>>
  PROVE  /\ Head(p) \in Pair /\ Tail(p) \in Seq(Pair)
         /\ Head(p)[1] \in PairFacts(p) /\ Head(p)[2] \in PairFacts(p)
         /\ PairFacts(Tail(p)) \subseteq PairFacts(p)
         /\ OfTwo(p) => Head(p)[1] # Head(p)[2] /\ OfTwo(Tail(p))
<1>1. /\ Len(p) \in Nat \ {0} /\ DOMAIN p = 1..Len(p) /\ 1 \in DOMAIN p
      /\ Head(p) = p[1] /\ p[1] \in Pair /\ Tail(p) \in Seq(Pair)
      /\ DOMAIN Tail(p) = 1..(Len(p) - 1)
      /\ \A i \in 1..(Len(p) - 1) : Tail(p)[i] = p[i + 1] /\ i + 1 \in DOMAIN p
  OBVIOUS
<1>2. PairFacts(Tail(p)) \subseteq PairFacts(p)
  BY <1>1 DEF PairFacts
<1>3. Head(p)[1] \in PairFacts(p) /\ Head(p)[2] \in PairFacts(p)
  BY <1>1 DEF PairFacts
<1>4. OfTwo(p) => Head(p)[1] # Head(p)[2] /\ OfTwo(Tail(p))
  BY <1>1 DEF OfTwo
<1> QED  BY <1>1, <1>2, <1>3, <1>4

LEMMA LongerPlan ==
  ASSUME NEW p \in Seq(Pair), NEW g \in Fact, NEW f \in Fact, g # f
  PROVE  /\ p \o << <<g, f>> >> \in Seq(Pair)
         /\ PairFacts(p \o << <<g, f>> >>) \subseteq PairFacts(p) \cup {f, g}
         /\ OfTwo(p) => OfTwo(p \o << <<g, f>> >>)
<1> DEFINE x == <<g, f>>
           q == p \o <<x>>
<1>1. x \in Pair /\ x[1] = g /\ x[2] = f
  BY DEF Pair
<1> HIDE DEF x
<1>2. /\ q \in Seq(Pair) /\ DOMAIN p = 1..Len(p) /\ DOMAIN q = 1..(Len(p) + 1) /\ Len(p) \in Nat
      /\ \A i \in 1..Len(p) : q[i] = p[i]
      /\ q[Len(p) + 1] = x
  BY <1>1
<1> HIDE DEF q
<1>3. \A i \in DOMAIN q : q[i] = x \/ (i \in DOMAIN p /\ q[i] = p[i])
  BY <1>2
<1>4. PairFacts(q) \subseteq PairFacts(p) \cup {f, g}
  BY <1>1, <1>3 DEF PairFacts
<1>5. OfTwo(p) => OfTwo(q)
  BY <1>1, <1>3 DEF OfTwo
<1> QED  BY <1>2, <1>4, <1>5 DEF q, x

-----------------------------------------------------------------------------
(* Types and the invariants of the fact tables.                              *)
JudgeState == [phase : {"idle", "ingested", "asking", "applying"}, todo : SUBSET Fact, total : Nat,
               plan : Seq(Pair), touched : SUBSET Fact]

CuratedInv == judge \in [Judge -> JudgeState] /\ findings \subseteq Fact /\ Core

LEMMA IdleIsTyped ==
  Idle \in JudgeState /\ Idle.phase = "idle" /\ Idle.plan = <<>> /\ Idle.todo = {} /\ Idle.touched = {}
BY DEF Idle, JudgeState, Pair

(* An answer adds at most one pair to the plan, of the fact asked about and  *)
(* one that is current.                                                      *)
LEMMA AskedFacts ==
  ASSUME stored \subseteq Fact, judge \in [Judge -> JudgeState],
         NEW j \in Judge, NEW f \in Fact, AskAbout(j, f)
  PROVE  /\ judge' \in [Judge -> JudgeState] /\ \A i \in Judge \ {j} : judge'[i] = judge[i]
         /\ judge[j].phase = "asking" /\ f \in judge[j].todo
         /\ judge'[j].todo = judge[j].todo \ {f} /\ judge'[j].touched = judge[j].touched
         /\ PairFacts(judge'[j].plan) \subseteq PairFacts(judge[j].plan) \cup {f} \cup Active
         /\ OfTwo(judge[j].plan) => OfTwo(judge'[j].plan)
<1>1. judge[j].plan \in Seq(Pair)
  BY DEF JudgeState
<1>2. PICK decided \in {<<>>} \cup {<< <<g, f>> >> : g \in Candidates(f)} \cup {<< <<f, g>> >> : g \in Candidates(f)} :
        judge' = [judge EXCEPT ![j].todo = judge[j].todo \ {f}, ![j].plan = judge[j].plan \o decided]
  BY DEF AskAbout
<1> DEFINE p == judge[j].plan \o decided
<1>3. /\ p \in Seq(Pair)
      /\ PairFacts(p) \subseteq PairFacts(judge[j].plan) \cup {f} \cup Active
      /\ OfTwo(judge[j].plan) => OfTwo(p)
  <2>1. CASE decided = <<>>
    BY <1>1, <2>1
  <2>2. ASSUME NEW g \in Candidates(f), decided = << <<g, f>> >> \/ decided = << <<f, g>> >>
        PROVE  /\ p \in Seq(Pair)
               /\ PairFacts(p) \subseteq PairFacts(judge[j].plan) \cup {f} \cup Active
               /\ OfTwo(judge[j].plan) => OfTwo(p)
    <3>1. g \in Fact /\ g # f /\ g \in Active
      BY <2>2 DEF Candidates, Active
    <3>2. CASE decided = << <<g, f>> >>
      BY <1>1, <3>1, <3>2, LongerPlan
    <3>3. CASE decided = << <<f, g>> >>
      BY <1>1, <3>1, <3>3, LongerPlan
    <3> QED  BY <2>2, <3>2, <3>3
  <2> QED  BY <1>2, <2>1, <2>2
<1> DEFINE x == [judge[j] EXCEPT !.todo = judge[j].todo \ {f}, !.plan = p]
<1>4. judge' = [judge EXCEPT ![j] = x]
  BY <1>2
<1> HIDE DEF p
<1>5. x \in JudgeState /\ x.todo = judge[j].todo \ {f} /\ x.touched = judge[j].touched /\ x.plan = p
  BY <1>3 DEF JudgeState
<1> HIDE DEF x
<1>6. judge[j].phase = "asking" /\ f \in judge[j].todo
  BY DEF AskAbout
<1> QED  BY <1>3, <1>4, <1>5, <1>6

(* What they do to the facts: nothing but take some from the current ones.   *)
LEMMA SupersedeKeeps ==
  ASSUME Core, NEW loser, NEW winner, SupersedeFact(loser, winner)
  PROVE  Core' /\ Active' \subseteq Active
<1>1. /\ loser \in Fact /\ winner \in Fact /\ winner \in stored
      /\ stored' = stored /\ retired' = retired /\ vectors' = vectors \ {loser}
      /\ supersededBy' \in [Fact -> Fact \cup {None}] /\ supersededBy'[loser] = winner
      /\ \A f \in Fact : f # loser => supersededBy'[f] = supersededBy[f]
  BY DEF SupersedeFact, Core, FactTypeOK
<1>2. stored \subseteq Fact /\ None \notin Fact
  BY FactConstants DEF Core, FactTypeOK
<1>3. Active' \subseteq Active
  BY <1>1, <1>2 DEF Active
<1>4. FactTypeOK' /\ VectorsHaveFacts'
  BY <1>1 DEF Core, FactTypeOK, VectorsHaveFacts
<1>5. OneCurrentPerKey'
  BY <1>3 DEF Core, OneCurrentPerKey
<1>6. NoDanglingSuccessor'
  BY <1>1, <1>2 DEF Core, NoDanglingSuccessor
<1> QED  BY <1>3, <1>4, <1>5, <1>6 DEF Core

LEMMA RetirementsKeep ==
  ASSUME Core, ApplyRetirements
  PROVE  Core' /\ Active' \subseteq Active /\ ChainsKept
<1>1. /\ UNCHANGED <<stored, supersededBy, vectors>>
      /\ retired' = retired \cup (findings \cap Active)
  BY DEF ApplyRetirements, StillContradicted
<1>2. Active' \subseteq Active /\ Active \subseteq stored
  BY <1>1 DEF Active
<1> QED  BY <1>1, <1>2 DEF Core, FactTypeOK, OneCurrentPerKey, NoDanglingSuccessor, VectorsHaveFacts,
                           ChainsKept, ChainsEnd, SuccessorHasTheKey

(* A step changes the facts in one of three ways.                            *)
LEMMA WhoChangesFacts ==
  ASSUME CuratedInv, [CurationNext]_curationVars
  PROVE  \/ [FactNext]_factVars
         \/ \E loser, winner : SupersedeFact(loser, winner)
         \/ ApplyRetirements
<1>1. CASE \E j \in Judge : PickNewFacts(j) \/ GuardBatch(j) \/ JudgeDone(j) \/ \E f \in Fact : AskAbout(j, f)
  BY <1>1 DEF PickNewFacts, GuardBatch, JudgeDone, AskAbout
<1>2. CASE \E j \in Judge : ApplyNext(j)
  BY <1>2 DEF ApplyNext
<1>3. CASE \E j \in Judge, s \in Session : Ingest(j, s)
  <2>1. \E s \in Session : \E batch \in Batches(s) : \E last \in LastOfBatch(batch) : IngestFacts(s, batch, last)
    BY <1>3 DEF Ingest
  <2> QED  BY <2>1 DEF FactNext
<1>4. CASE ApplyRetirements \/ DaemonDies \/ ReconcileDies \/ \E F \in SUBSET Fact : FindContradictions(F)
  BY <1>4 DEF DaemonDies, ReconcileDies, FindContradictions
<1>5. CASE Others
  BY <1>5 DEF Others, FactNext
<1>6. CASE UNCHANGED curationVars
  BY <1>6 DEF curationVars
<1> QED  BY <1>1, <1>2, <1>3, <1>4, <1>5, <1>6 DEF CurationNext

LEMMA JudgeStaysTyped ==
  ASSUME CuratedInv, [CurationNext]_curationVars
  PROVE  judge' \in [Judge -> JudgeState] /\ findings' \subseteq Fact
<1>1. judge \in [Judge -> JudgeState] /\ findings \subseteq Fact /\ stored \subseteq Fact
  BY DEF CuratedInv, Core, FactTypeOK
<1>2. ASSUME NEW j \in Judge, NEW x \in JudgeState, judge' = [judge EXCEPT ![j] = x], findings' = findings
      PROVE  judge' \in [Judge -> JudgeState] /\ findings' \subseteq Fact
  BY <1>1, <1>2
<1>3. ASSUME NEW j \in Judge, NEW s \in Session, Ingest(j, s)
      PROVE  judge' \in [Judge -> JudgeState] /\ findings' \subseteq Fact
  <2>1. PICK batch \in Batches(s) :
          judge' = [judge EXCEPT ![j] = [Idle EXCEPT !.phase = "ingested", !.todo = batch]]
    BY <1>3 DEF Ingest
  <2>2. [Idle EXCEPT !.phase = "ingested", !.todo = batch] \in JudgeState
    BY IdleIsTyped DEF JudgeState, Batches, FactsOf
  <2> QED  BY <1>2, <1>3, <2>1, <2>2 DEF Ingest
<1>4. ASSUME NEW j \in Judge, PickNewFacts(j)
      PROVE  judge' \in [Judge -> JudgeState] /\ findings' \subseteq Fact
  <2>1. PICK B \in SUBSET judge[j].todo :
          judge' = [judge EXCEPT ![j] = IF B = {} THEN Idle
                      ELSE [Idle EXCEPT !.phase = "asking", !.todo = B, !.total = Cardinality(B)]]
    BY <1>4 DEF PickNewFacts
  <2>2. B \subseteq Fact /\ Cardinality(B) \in Nat
    <3>1. B \subseteq Fact
      BY <1>1, <2>1 DEF JudgeState
    <3>2. IsFiniteSet(B)
      BY <3>1, FactConstants, FS_Subset
    <3> QED  BY <3>1, <3>2, FS_CardinalityType
  <2>3. [Idle EXCEPT !.phase = "asking", !.todo = B, !.total = Cardinality(B)] \in JudgeState
    BY <2>2, IdleIsTyped DEF JudgeState
  <2> QED  BY <1>2, <1>4, <2>1, <2>3, IdleIsTyped DEF PickNewFacts
<1>5. ASSUME NEW j \in Judge, NEW f \in Fact, AskAbout(j, f)
      PROVE  judge' \in [Judge -> JudgeState] /\ findings' \subseteq Fact
  BY <1>1, <1>5, AskedFacts DEF AskAbout
<1>6. ASSUME NEW j \in Judge, GuardBatch(j) \/ JudgeDone(j)
      PROVE  judge' \in [Judge -> JudgeState] /\ findings' \subseteq Fact
  <2>1. [judge[j] EXCEPT !.phase = "applying"] \in JudgeState
    BY <1>1 DEF JudgeState
  <2> QED  BY <1>2, <1>6, <2>1, IdleIsTyped DEF GuardBatch, JudgeDone
<1>7. ASSUME NEW j \in Judge, ApplyNext(j)
      PROVE  judge' \in [Judge -> JudgeState] /\ findings' \subseteq Fact
  <2> DEFINE p == judge[j].plan
             rest == [judge[j] EXCEPT !.plan = Tail(p)]
             used == [rest EXCEPT !.touched = rest.touched \cup {Head(p)[1], Head(p)[2]}]
  <2>1. judge[j] \in JudgeState /\ p \in Seq(Pair) /\ p # <<>>
    BY <1>1, <1>7 DEF JudgeState, ApplyNext
  <2>2. Head(p) \in Pair /\ Tail(p) \in Seq(Pair)
    BY <2>1, HeadOfPlan
  <2>3. judge' \in {[judge EXCEPT ![j] = rest], [judge EXCEPT ![j] = used], [judge EXCEPT ![j] = Idle]}
    BY <1>7 DEF ApplyNext
  <2>4. rest \in JudgeState
    BY <2>1, <2>2 DEF JudgeState
  <2>5. used \in JudgeState
    <3> HIDE DEF rest
    <3>1. Head(p)[1] \in Fact /\ Head(p)[2] \in Fact
      BY <2>2 DEF Pair
    <3> QED  BY <2>4, <3>1 DEF JudgeState
  <2> HIDE DEF rest, used
  <2> QED  BY <1>2, <1>7, <2>3, <2>4, <2>5, IdleIsTyped DEF ApplyNext
<1>8. CASE DaemonDies
  BY <1>1, <1>8, IdleIsTyped DEF DaemonDies
<1>9. CASE ApplyRetirements \/ ReconcileDies \/ (\E F \in SUBSET Fact : FindContradictions(F))
           \/ UNCHANGED <<judge, findings>>
  BY <1>1, <1>9 DEF ApplyRetirements, ReconcileDies, FindContradictions
<1> QED  BY <1>3, <1>4, <1>5, <1>6, <1>7, <1>8, <1>9 DEF CurationNext, curationVars

LEMMA CuratedInvHolds == CurationSpec => []CuratedInv
<1>1. CurationInit => CuratedInv
  BY InitEstablishesInv, IdleIsTyped DEF CurationInit, CuratedInv, Inv
<1>2. CuratedInv /\ [CurationNext]_curationVars => CuratedInv'
  BY WhoChangesFacts, JudgeStaysTyped, NextKeeps, SupersedeKeeps, RetirementsKeep DEF CuratedInv
<1> QED  BY <1>1, <1>2, PTL DEF CurationSpec

(* The judge's memory and the list of reconcile-facts have their types.      *)
THEOREM CurationIsTyped == CurationSpec => []CurationTypeOK
<1>1. CuratedInv => CurationTypeOK
  BY DEF CuratedInv, Core, CurationTypeOK, JudgeState, Pair
<1> QED  BY <1>1, CuratedInvHolds, PTL

(* A key never has two current values, whatever any number of judges decide  *)
(* on facts they read before (I5a).                                          *)
THEOREM JudgedKeysHaveOneValue == CurationSpec => []OneCurrentPerKey
<1>1. CuratedInv => OneCurrentPerKey
  BY DEF CuratedInv, Core
<1> QED  BY <1>1, CuratedInvHolds, PTL

(* superseded_by always points to a row, though an ingest may delete the     *)
(* facts a judge has decided about (I5b).                                    *)
THEOREM JudgedSuccessorsAreStored == CurationSpec => []NoDanglingSuccessor
<1>1. CuratedInv => NoDanglingSuccessor
  BY DEF CuratedInv, Core
<1> QED  BY <1>1, CuratedInvHolds, PTL

-----------------------------------------------------------------------------
(* Action properties.                                                        *)

(* No judge and no bulk retirement brings an older value of a key back.      *)
THEOREM JudgesNeverBringBackOlder == CurationSpec => CurrentNeverGetsOlder
<1>1. ASSUME CuratedInv, [CurationNext]_curationVars,
             NEW f \in Active \ Independent, NEW g \in Active' \ Independent,
             f # g, KeyOf[f] = KeyOf[g], f \in stored' \ retired'
      PROVE  CreatedAt[g] >= CreatedAt[f]
  <2>1. CASE FactNext
    BY <1>1, <2>1, StepKeepsCurrentNewest DEF CuratedInv
  <2>2. CASE Active' \subseteq Active
    BY <1>1, <2>2 DEF CuratedInv, Core, OneCurrentPerKey
  <2>3. UNCHANGED factVars => Active' \subseteq Active
    BY DEF factVars, Active
  <2> QED  BY <1>1, <2>1, <2>2, <2>3, WhoChangesFacts, SupersedeKeeps, RetirementsKeep DEF CuratedInv
<1>2. CuratedInv /\ [CurationNext]_curationVars
        => [\A f \in Active \ Independent, g \in Active' \ Independent :
              f # g /\ KeyOf[f] = KeyOf[g] /\ f \in stored' \ retired'
                => CreatedAt[g] >= CreatedAt[f]]_factVars
  BY <1>1
<1> QED  BY <1>2, CuratedInvHolds, PTL DEF CurationSpec, CurrentNeverGetsOlder

(* The only writer that leaves the vector of a fact it takes out of the      *)
(* current ones is reconcile-facts, in the step that retires its list.       *)
THEOREM GhostsAreOfReconcile == CurationSpec => OnlyReconcileLeavesGhosts
<1>1. ASSUME CuratedInv, [CurationNext]_curationVars, NEW f \in Ghosts' \ Ghosts, f \in vectors
      PROVE  f \in findings /\ findings' = {}
  <2>1. f \in Active /\ f \in vectors' /\ f \notin Active' /\ f \in Fact
    BY <1>1 DEF Ghosts, Active, CuratedInv, Core, FactTypeOK
  <2>2. CASE FactNext
    BY <1>1, <2>2, StepLeavesNoGhost DEF CuratedInv
  <2>3. ASSUME NEW loser, NEW winner, SupersedeFact(loser, winner) PROVE FALSE
    <3>1. f # loser /\ stored' = stored /\ retired' = retired
      BY <2>1, <2>3 DEF SupersedeFact
    <3>2. supersededBy'[f] = supersededBy[f]
      BY <2>1, <2>3, <3>1 DEF SupersedeFact, CuratedInv, Core, FactTypeOK
    <3> QED  BY <2>1, <3>1, <3>2 DEF Active
  <2>4. CASE ApplyRetirements
    BY <2>1, <2>4 DEF ApplyRetirements, StillContradicted, Active
  <2>5. CASE UNCHANGED factVars
    BY <2>1, <2>5 DEF factVars, Active
  <2> QED  BY <1>1, <2>2, <2>3, <2>4, <2>5, WhoChangesFacts
<1>2. CuratedInv /\ [CurationNext]_curationVars
        => [\A f \in Ghosts' \ Ghosts : f \in vectors => f \in findings /\ findings' = {}]_curationVars
  BY <1>1
<1> QED  BY <1>2, CuratedInvHolds, PTL DEF CurationSpec, OnlyReconcileLeavesGhosts

-----------------------------------------------------------------------------
(* A judge that is alone closes no cycle.  While it asks and applies nothing *)
(* is ingested, so that what it has in hand is of different keys, like the   *)
(* facts that were current when it began.  A correction between sessions     *)
(* stays within a key: from a fact of the plan superseded_by leads through   *)
(* facts of its own key, and so never to the fact it is to win over.         *)
OneJudge == \A i, j \in Judge : i = j

HeldApart == \A f \in Independent, g \in Fact : KeyOf[f] = KeyOf[g] => f = g

HeldBy(j) == judge[j].todo \cup PairFacts(judge[j].plan)

Untouched(j) == HeldBy(j) \ judge[j].touched

KeysApart(S) == \A f, g \in S : KeyOf[f] = KeyOf[g] => f = g

Rooted(f) ==
  \E U \in SUBSET stored :
    f \in U /\ \A g \in U : KeyOf[g] = KeyOf[f] /\ supersededBy[g] \in U \cup {None}

Deciding == {"asking", "applying"}

DecidesSafely(j) ==
  judge[j].phase \in Deciding =>
    /\ KeysApart(HeldBy(j) \cup Active)
    /\ OfTwo(judge[j].plan)
    /\ \A f \in Untouched(j) : Rooted(f)

ChainInv == ChainsEnd /\ \A j \in Judge : DecidesSafely(j)

LEMMA ActiveApart ==
  ASSUME CuratedInv, HeldApart
  PROVE  KeysApart(Active) /\ Active \subseteq stored /\ stored \subseteq Fact
BY DEF CuratedInv, Core, FactTypeOK, OneCurrentPerKey, HeldApart, KeysApart, Active

LEMMA ActiveIsRooted ==
  ASSUME NEW f \in Active
  PROVE  Rooted(f)
<1>1. {f} \in SUBSET stored /\ supersededBy[f] = None
  BY DEF Active
<1> QED  BY <1>1 DEF Rooted

(* The steps of others while a judge is at work.                             *)
LEMMA OthersKeepRooted ==
  ASSUME CuratedInv, Others \/ ApplyRetirements \/ UNCHANGED factVars
  PROVE  Active' \subseteq Active /\ \A f \in Fact : Rooted(f) => Rooted(f)'
<1>1. CASE \/ ApplyRetirements \/ UNCHANGED factVars
           \/ \E f \in Fact : Retire(f) \/ UpsertEmbedding(f)
  <2>1. UNCHANGED <<stored, supersededBy>> /\ retired \subseteq retired'
    BY <1>1 DEF ApplyRetirements, factVars, Retire, UpsertEmbedding
  <2> QED  BY <2>1 DEF Active, Rooted
<1>2. ASSUME NEW pred \in Session, NEW succ \in Session, pred # succ,
             NEW heir \in HeirChoices(succ), CascadeFacts(pred, succ, heir)
      PROVE  Active' \subseteq Active /\ \A f \in Fact : Rooted(f) => Rooted(f)'
  <2> DEFINE moved == {f \in stored \cap FactsOf(pred) : heir[KeyOf[f]] # None}
  <2>1. /\ stored' = stored /\ retired' = retired /\ stored \subseteq Fact
        /\ \A f \in Fact : supersededBy'[f] = IF f \in moved THEN heir[KeyOf[f]] ELSE supersededBy[f]
    BY <1>2 DEF CascadeFacts, CuratedInv, Core, FactTypeOK
  <2>2. ASSUME NEW f \in Fact, heir[KeyOf[f]] # None
        PROVE  /\ heir[KeyOf[f]] \in stored /\ KeyOf[heir[KeyOf[f]]] = KeyOf[f]
               /\ supersededBy[heir[KeyOf[f]]] = None /\ heir[KeyOf[f]] \notin moved
    <3>1. KeyOf[f] \in Key
      BY FactConstants
    <3>2. heir[KeyOf[f]] \in Heirs(KeyOf[f], succ)
      BY <2>2, <3>1 DEF HeirChoices
    <3> QED  BY <1>2, <3>2 DEF Heirs, FactsOf
  <2>3. Active' \subseteq Active
    BY <2>1, FactConstants DEF Active
  <2>4. ASSUME NEW f \in Fact, Rooted(f) PROVE Rooted(f)'
    <3> DEFINE h == heir[KeyOf[f]]
    <3>1. PICK U \in SUBSET stored :
            f \in U /\ \A g \in U : KeyOf[g] = KeyOf[f] /\ supersededBy[g] \in U \cup {None}
      BY <2>4 DEF Rooted
    <3>2. CASE h = None
      <4>1. \A g \in U : supersededBy'[g] = supersededBy[g]
        BY <2>1, <3>1, <3>2
      <4> QED  BY <2>1, <3>1, <4>1 DEF Rooted
    <3>3. CASE h # None
      <4>1. h \in stored /\ KeyOf[h] = KeyOf[f] /\ supersededBy'[h] = None
        BY <2>1, <2>2, <3>3
      <4>2. \A g \in U : supersededBy'[g] \in U \cup {h, None}
        BY <2>1, <3>1
      <4> DEFINE V == U \cup {h}
      <4>3. V \in SUBSET stored' /\ f \in V /\ \A g \in V : KeyOf[g] = KeyOf[f] /\ supersededBy'[g] \in V \cup {None}
        BY <2>1, <3>1, <4>1, <4>2
      <4> HIDE DEF V
      <4> QED  BY <4>3 DEF Rooted
    <3> QED  BY <3>2, <3>3
  <2> QED  BY <2>3, <2>4
<1> QED  BY <1>1, <1>2 DEF Others

(* A judge that goes on deciding holds no more than before but what is       *)
(* current, and that stays rooted.                                           *)
LEMMA DecidingGoesOn ==
  ASSUME Active' \subseteq Active, ChainsEnd', \A j \in Judge : DecidesSafely(j),
         \A j \in Judge : judge'[j].phase \in Deciding =>
           /\ judge[j].phase \in Deciding
           /\ HeldBy(j)' \subseteq HeldBy(j) \cup Active
           /\ OfTwo(judge[j].plan) => OfTwo(judge'[j].plan)
           /\ \A f \in Untouched(j)' : Rooted(f)'
  PROVE  ChainInv'
BY DEF ChainInv, DecidesSafely, KeysApart

LEMMA HandIsTyped ==
  ASSUME CuratedInv, NEW j \in Judge
  PROVE  judge[j] \in JudgeState /\ HeldBy(j) \subseteq Fact
<1>1. judge[j] \in JudgeState
  BY DEF CuratedInv
<1>2. PairFacts(judge[j].plan) \subseteq Fact
  BY <1>1 DEF JudgeState, PairFacts, Pair
<1> QED  BY <1>1, <1>2 DEF JudgeState, HeldBy

LEMMA ApplyKeepsChains ==
  ASSUME CuratedInv, ChainInv, HeldApart, OneJudge, NEW j \in Judge, ApplyNext(j)
  PROVE  ChainInv'
<1> DEFINE p == judge[j].plan
           l == Head(p)[1]
           w == Head(p)[2]
<1>1. /\ judge \in [Judge -> JudgeState] /\ p \in Seq(Pair) /\ p # <<>> /\ judge[j].phase \in Deciding
      /\ DecidesSafely(j) /\ HeldBy(j) \subseteq Fact
  BY HandIsTyped DEF CuratedInv, JudgeState, ApplyNext, ChainInv, Deciding
<1>2. /\ l \in HeldBy(j) /\ w \in HeldBy(j) /\ l # w /\ l \in Fact /\ w \in Fact
      /\ PairFacts(Tail(p)) \subseteq PairFacts(p) /\ OfTwo(Tail(p))
  <2>1. OfTwo(p)
    BY <1>1 DEF DecidesSafely
  <2> QED  BY <1>1, <2>1, HeadOfPlan DEF HeldBy
<1>3. ASSUME judge' = [judge EXCEPT ![j] = Idle], UNCHANGED factVars
      PROVE  ChainInv'
  <2>1. \A i \in Judge : judge'[i].phase \notin Deciding
    BY <1>1, <1>3, IdleIsTyped DEF OneJudge, Deciding
  <2> QED  BY <1>3, <2>1 DEF ChainInv, ChainsEnd, DecidesSafely, factVars
<1> DEFINE rest == [judge[j] EXCEPT !.plan = Tail(p)]
           used == [rest EXCEPT !.touched = rest.touched \cup {l, w}]
<1>4. /\ rest.phase = judge[j].phase /\ rest.todo = judge[j].todo /\ rest.touched = judge[j].touched
      /\ rest.plan = Tail(p)
      /\ used.phase = judge[j].phase /\ used.todo = judge[j].todo /\ used.plan = Tail(p)
      /\ used.touched = judge[j].touched \cup {l, w}
  <2>1. judge[j] \in JudgeState
    BY <1>1
  <2> HIDE DEF p, l, w
  <2> QED  BY <2>1 DEF JudgeState
<1> HIDE DEF l, w, rest, used
<1>5. ASSUME judge' = [judge EXCEPT ![j] = rest], UNCHANGED factVars
      PROVE  ChainInv'
  <2>1. judge'[j] = rest
    BY <1>1, <1>5
  <2>2. HeldBy(j)' \subseteq HeldBy(j) /\ Untouched(j)' \subseteq Untouched(j)
    BY <1>2, <1>4, <2>1 DEF HeldBy, Untouched
  <2>3. \A f \in Fact : Rooted(f) => Rooted(f)'
    BY <1>5, OthersKeepRooted
  <2>4. \A f \in Untouched(j)' : Rooted(f)'
    BY <1>1, <2>2, <2>3 DEF DecidesSafely, Untouched
  <2>5. Active' \subseteq Active /\ ChainsEnd'
    BY <1>5 DEF Active, ChainInv, ChainsEnd, factVars
  <2>6. OfTwo(judge'[j].plan)
    BY <1>2, <1>4, <2>1
  <2> QED  BY <1>1, <2>2, <2>4, <2>5, <2>6, DecidingGoesOn DEF OneJudge, ChainInv
<1>6. ASSUME judge' = [judge EXCEPT ![j] = used], SupersedeFact(l, w), w \notin judge[j].touched
      PROVE  ChainInv'
  <2>1. judge'[j] = used
    BY <1>1, <1>6
  <2>2. /\ stored' = stored /\ stored \subseteq Fact /\ supersededBy'[l] = w /\ None \notin Fact
        /\ \A f \in Fact : f # l => supersededBy'[f] = supersededBy[f]
    BY <1>2, <1>6, FactConstants DEF SupersedeFact, CuratedInv, Core, FactTypeOK
  <2>3. KeysApart(HeldBy(j)) /\ \A f \in Untouched(j) : Rooted(f)
    BY <1>1 DEF DecidesSafely, KeysApart
  <2>4. Active' \subseteq Active
    BY <1>6, SupersedeKeeps DEF CuratedInv
  <2>5. HeldBy(j)' \subseteq HeldBy(j) /\ Untouched(j)' \subseteq Untouched(j) \ {l, w}
    BY <1>2, <1>4, <2>1 DEF HeldBy, Untouched
  <2>6. ASSUME NEW f \in Untouched(j)' PROVE Rooted(f)'
    <3>1. PICK U \in SUBSET stored :
            f \in U /\ \A g \in U : KeyOf[g] = KeyOf[f] /\ supersededBy[g] \in U \cup {None}
      BY <2>3, <2>5 DEF Rooted
    <3>2. f \in HeldBy(j) /\ f # l
      BY <2>5 DEF Untouched
    <3>3. l \notin U
      BY <1>2, <2>3, <3>1, <3>2 DEF KeysApart
    <3>4. \A g \in U : supersededBy'[g] = supersededBy[g]
      BY <2>2, <3>3
    <3> QED  BY <2>2, <3>1, <3>4 DEF Rooted
  <2>7. ChainsEnd'
    <3> SUFFICES ASSUME NEW T \in SUBSET stored, T # {}, \A f \in T : supersededBy'[f] \in T
                 PROVE  FALSE
      BY <2>2 DEF ChainsEnd
    <3>1. CASE l \notin T
      <4>1. \A f \in T : supersededBy[f] \in T
        BY <2>2, <3>1
      <4> QED  BY <4>1 DEF ChainInv, ChainsEnd
    <3>2. CASE l \in T
      <4>1. w \in T
        BY <2>2, <3>2
      <4>2. w \in Untouched(j)
        BY <1>2, <1>6 DEF Untouched
      <4>3. PICK U \in SUBSET stored :
              w \in U /\ \A g \in U : KeyOf[g] = KeyOf[w] /\ supersededBy[g] \in U \cup {None}
        BY <2>3, <4>2 DEF Rooted
      <4>4. l \notin U
        BY <1>2, <2>3, <4>3 DEF KeysApart
      <4>5. \A g \in U \cap T : supersededBy[g] \in U \cap T
        <5> SUFFICES ASSUME NEW g \in U \cap T PROVE supersededBy[g] \in U \cap T
          OBVIOUS
        <5>1. supersededBy'[g] = supersededBy[g] /\ supersededBy'[g] \in T
          BY <2>2, <4>4
        <5> QED  BY <2>2, <4>3, <5>1
      <4>6. U \cap T \in (SUBSET stored) \ {{}}
        BY <4>1, <4>3
      <4> QED  BY <4>5, <4>6 DEF ChainInv, ChainsEnd
    <3> QED  BY <3>1, <3>2
  <2>8. OfTwo(judge'[j].plan)
    BY <1>2, <1>4, <2>1
  <2> QED  BY <1>1, <2>4, <2>5, <2>6, <2>7, <2>8, DecidingGoesOn DEF OneJudge, ChainInv
<1>7. \/ judge' = [judge EXCEPT ![j] = Idle] /\ UNCHANGED factVars
      \/ judge' = [judge EXCEPT ![j] = rest] /\ UNCHANGED factVars
      \/ judge' = [judge EXCEPT ![j] = used] /\ SupersedeFact(l, w) /\ w \notin judge[j].touched
  BY DEF ApplyNext, AlreadyTouched, rest, used, l, w
<1> QED  BY <1>3, <1>5, <1>6, <1>7

LEMMA ChainStep ==
  ASSUME CuratedInv, ChainInv, HeldApart, OneJudge, [CurationNext]_curationVars
  PROVE  ChainInv'
<1>1. judge \in [Judge -> JudgeState] /\ Core /\ \A j \in Judge : DecidesSafely(j) /\ HeldBy(j) \subseteq Fact
  BY HandIsTyped DEF CuratedInv, ChainInv
<1>2. ASSUME ChainsEnd', \A j \in Judge : judge'[j].phase \notin Deciding
      PROVE  ChainInv'
  BY <1>2 DEF ChainInv, DecidesSafely
<1>3. ASSUME UNCHANGED judge, Others \/ ApplyRetirements \/ UNCHANGED factVars
      PROVE  ChainInv'
  <2>1. Active' \subseteq Active /\ \A f \in Fact : Rooted(f) => Rooted(f)'
    BY <1>3, OthersKeepRooted
  <2>2. ChainsEnd'
    <3>1. [FactNext]_factVars \/ ApplyRetirements
      BY <1>3 DEF Others, FactNext
    <3> QED  BY <1>1, <3>1, NextKeeps, RetirementsKeep DEF ChainInv, ChainsKept
  <2>3. ASSUME NEW j \in Judge, judge'[j].phase \in Deciding
        PROVE  /\ judge[j].phase \in Deciding
               /\ HeldBy(j)' \subseteq HeldBy(j) \cup Active
               /\ OfTwo(judge[j].plan) => OfTwo(judge'[j].plan)
               /\ \A f \in Untouched(j)' : Rooted(f)'
    <3>1. judge[j].phase \in Deciding /\ HeldBy(j)' = HeldBy(j) /\ Untouched(j)' = Untouched(j)
      BY <1>3, <2>3 DEF HeldBy, Untouched
    <3> QED  BY <1>1, <1>3, <2>1, <3>1 DEF DecidesSafely, Untouched
  <2> QED  BY <1>1, <2>1, <2>2, <2>3, DecidingGoesOn
<1>4. ASSUME NEW j \in Judge, NEW s \in Session, Ingest(j, s)
      PROVE  ChainInv'
  <2>1. PICK batch \in Batches(s) :
          /\ \E last \in LastOfBatch(batch) : IngestFacts(s, batch, last)
          /\ judge' = [judge EXCEPT ![j] = [Idle EXCEPT !.phase = "ingested", !.todo = batch]]
    BY <1>4 DEF Ingest
  <2>2. ChainsEnd'
    BY <1>1, <2>1, IngestKeeps DEF ChainInv, ChainsKept
  <2>3. \A i \in Judge : judge'[i].phase \notin Deciding
    BY <1>1, <2>1 DEF OneJudge, Deciding, Idle
  <2> QED  BY <1>2, <2>2, <2>3
<1>5. ASSUME NEW j \in Judge, PickNewFacts(j)
      PROVE  ChainInv'
  <2>1. PICK B \in SUBSET Active :
          judge' = [judge EXCEPT ![j] = IF B = {} THEN Idle
                      ELSE [Idle EXCEPT !.phase = "asking", !.todo = B, !.total = Cardinality(B)]]
    BY <1>5 DEF PickNewFacts
  <2>2. /\ UNCHANGED factVars /\ ChainsEnd' /\ Active' = Active
    BY <1>5 DEF PickNewFacts, ChainInv, ChainsEnd, Active, factVars
  <2>3. CASE B = {}
    <3>1. \A i \in Judge : judge'[i].phase \notin Deciding
      BY <1>1, <2>1, <2>3, IdleIsTyped DEF OneJudge, Deciding
    <3> QED  BY <1>2, <2>2, <3>1
  <2>4. CASE B # {}
    <3>1. judge'[j].todo = B /\ judge'[j].plan = <<>> /\ \A i \in Judge : i = j
      BY <1>1, <2>1, <2>4 DEF OneJudge, Idle
    <3>2. HeldBy(j)' = B /\ OfTwo(judge'[j].plan)
      BY <3>1 DEF HeldBy, PairFacts, OfTwo
    <3>3. KeysApart(Active)
      BY ActiveApart
    <3>4. KeysApart(HeldBy(j) \cup Active)'
      BY <2>2, <3>2, <3>3 DEF KeysApart
    <3>5. \A f \in Untouched(j)' : Rooted(f)'
      <4>1. \A f \in Active : Rooted(f)'
        BY <2>2, ActiveIsRooted DEF Rooted, factVars
      <4> QED  BY <3>2, <4>1 DEF Untouched
    <3> QED  BY <2>2, <3>1, <3>2, <3>4, <3>5 DEF ChainInv, DecidesSafely
  <2> QED  BY <2>3, <2>4
<1>6. ASSUME NEW j \in Judge, NEW f \in Fact, AskAbout(j, f)
      PROVE  ChainInv'
  <2>1. UNCHANGED factVars
    BY <1>6 DEF AskAbout
  <2>2. /\ judge[j].phase = "asking" /\ f \in judge[j].todo
        /\ judge'[j].todo = judge[j].todo \ {f} /\ judge'[j].touched = judge[j].touched
        /\ PairFacts(judge'[j].plan) \subseteq PairFacts(judge[j].plan) \cup {f} \cup Active
        /\ OfTwo(judge[j].plan) => OfTwo(judge'[j].plan)
    BY <1>1, <1>6, AskedFacts DEF Core, FactTypeOK
  <2>3. HeldBy(j)' \subseteq HeldBy(j) \cup Active /\ Untouched(j)' \subseteq Untouched(j) \cup Active
    BY <2>2 DEF HeldBy, Untouched
  <2>4. \A g \in Untouched(j)' : Rooted(g)'
    <3>1. \A g \in Untouched(j) \cup Active : Rooted(g)
      BY <1>1, <2>2, ActiveIsRooted DEF DecidesSafely, Deciding
    <3> QED  BY <2>1, <2>3, <3>1 DEF Rooted, factVars
  <2>5. Active' \subseteq Active /\ ChainsEnd'
    BY <2>1 DEF Active, ChainInv, ChainsEnd, factVars
  <2> QED  BY <1>1, <2>2, <2>3, <2>4, <2>5, DecidingGoesOn DEF OneJudge, Deciding
<1>7. ASSUME NEW j \in Judge, GuardBatch(j)
      PROVE  ChainInv'
  <2>1. UNCHANGED factVars /\ judge[j].phase \in Deciding
    BY <1>7 DEF GuardBatch, Deciding
  <2>2. Active' \subseteq Active /\ ChainsEnd' /\ \A f \in Fact : Rooted(f) => Rooted(f)'
    BY <2>1 DEF Active, ChainInv, ChainsEnd, Rooted, factVars
  <2>3. CASE judge' = [judge EXCEPT ![j] = Idle]
    <3>1. \A i \in Judge : judge'[i].phase \notin Deciding
      BY <1>1, <2>3, IdleIsTyped DEF OneJudge, Deciding
    <3> QED  BY <1>2, <2>2, <3>1
  <2>4. CASE judge' = [judge EXCEPT ![j] = [judge[j] EXCEPT !.phase = "applying"]]
    <3>1. /\ judge'[j].todo = judge[j].todo /\ judge'[j].plan = judge[j].plan
          /\ judge'[j].touched = judge[j].touched
      BY <1>1, <2>4 DEF JudgeState
    <3>2. HeldBy(j)' = HeldBy(j) /\ Untouched(j)' = Untouched(j)
      BY <3>1 DEF HeldBy, Untouched
    <3>3. \A f \in Untouched(j)' : Rooted(f)'
      BY <1>1, <2>1, <2>2, <3>2 DEF DecidesSafely, Untouched
    <3> QED  BY <1>1, <2>1, <2>2, <3>1, <3>2, <3>3, DecidingGoesOn DEF OneJudge
  <2> QED  BY <1>7, <2>3, <2>4 DEF GuardBatch
<1>8. ASSUME NEW j \in Judge, JudgeDone(j)
      PROVE  ChainInv'
  <2>1. \A i \in Judge : judge'[i].phase \notin Deciding
    BY <1>1, <1>8, IdleIsTyped DEF JudgeDone, OneJudge, Deciding
  <2> QED  BY <1>2, <1>8, <2>1 DEF JudgeDone, ChainInv, ChainsEnd, factVars
<1>9. CASE DaemonDies
  <2>1. \A i \in Judge : judge'[i].phase \notin Deciding
    BY <1>9, IdleIsTyped DEF DaemonDies, Deciding
  <2> QED  BY <1>2, <1>9, <2>1 DEF DaemonDies, ChainInv, ChainsEnd, factVars
<1>10. CASE ReconcileDies \/ \E F \in SUBSET Fact : FindContradictions(F)
  BY <1>3, <1>10 DEF ReconcileDies, FindContradictions
<1>11. CASE ApplyRetirements \/ (Others /\ UNCHANGED <<judge, findings>>) \/ UNCHANGED curationVars
  BY <1>3, <1>11 DEF ApplyRetirements, curationVars
<1>12. ASSUME NEW j \in Judge, ApplyNext(j)
       PROVE  ChainInv'
  BY <1>12, ApplyKeepsChains
<1> QED  BY <1>4, <1>5, <1>6, <1>7, <1>8, <1>9, <1>10, <1>11, <1>12 DEF CurationNext

(* superseded_by is acyclic (I5c) with one judge, if no fact that the        *)
(* operator holds outside every property shares its key.  The judge asks     *)
(* only that both facts exist (write-judge.ts 290): that this is enough      *)
(* takes both premises, and without either there is a cycle.                 *)
THEOREM LoneJudgeClosesNoCycle ==
  ASSUME OneJudge, HeldApart
  PROVE  CurationSpec => []ChainsEnd
<1>1. CurationInit => ChainInv
  BY IdleIsTyped DEF CurationInit, FactInit, ChainInv, ChainsEnd, DecidesSafely, Deciding
<1>2. CuratedInv /\ ChainInv /\ [CurationNext]_curationVars => ChainInv'
  BY ChainStep
<1>3. ChainInv => ChainsEnd
  BY DEF ChainInv
<1> QED  BY <1>1, <1>2, <1>3, CuratedInvHolds, PTL DEF CurationSpec

-----------------------------------------------------------------------------
(* doctor --fix.  What the daemon commits next to it, on a damaged database, *)
(* where of the store's invariant only the types are left: it makes no new   *)
(* damage.                                                                   *)
Settled == \A f, g \in Unattributed : KeyOf[f] = KeyOf[g] => f = g

Healthier ==
  /\ FactTypeOK'
  /\ Settled => Settled'
  /\ Dangling = {} => Dangling' = {}
  /\ Ghosts' \subseteq Ghosts

LEMMA IngestHeals ==
  ASSUME FactTypeOK, NEW s \in Session, NEW batch \in Batches(s), NEW last,
         IngestFacts(s, batch, last)
  PROVE  Healthier
<1> DEFINE S    == Standing(s, batch)
           lost == Losers(S, KeysToCollapse(s, batch), last)
           W(f) == Winner(S, KeyOf[f], last)
<1>1. /\ stored' = Kept(s, batch)
      /\ retired' = retired \ Stale(s)
      /\ supersededBy' = [f \in Fact |-> IF f \in lost THEN W(f) ELSE Released(s, batch, f)]
      /\ vectors' = vectors \ (Stale(s) \cup lost)
  BY DEF IngestFacts
<1>2. /\ S \in SUBSET Fact
      /\ S \subseteq Kept(s, batch)
      /\ Kept(s, batch) \in SUBSET Fact
      /\ Stale(s) \subseteq stored
      /\ batch \cap stored = {}
  BY StandingFacts
<1>3. lost \subseteq S /\ lost \in SUBSET Fact
  BY <1>2 DEF Losers
<1>4. ASSUME NEW f \in lost PROVE W(f) \in S /\ W(f) \in Fact /\ W(f) # None
  BY <1>2, LosersHaveAWinner, FactConstants
<1> HIDE DEF lost, W, S
<1>5. \A f \in Fact : supersededBy'[f] = IF f \in lost THEN W(f) ELSE Released(s, batch, f)
  BY <1>1
<1>6. FactTypeOK'
  <2>1. \A f \in Fact : Released(s, batch, f) \in Fact \cup {None}
    BY DEF Released, FactTypeOK
  <2>2. supersededBy' \in [Fact -> Fact \cup {None}]
    BY <1>1, <1>4, <2>1
  <2>3. retired' \subseteq stored'
    BY <1>1 DEF FactTypeOK, Kept
  <2> QED  BY <1>1, <1>2, <2>2, <2>3 DEF FactTypeOK
<1>7. ASSUME NEW f \in Active' PROVE f \in S /\ f \notin lost
  <2>1. f \in Kept(s, batch) /\ f \in Fact /\ supersededBy'[f] = None /\ f \notin retired \ Stale(s)
    BY <1>1, <1>2 DEF Active
  <2>2. f \notin lost
    BY <1>4, <1>5, <2>1
  <2>3. Released(s, batch, f) = None
    BY <1>5, <2>1, <2>2
  <2> QED  BY <2>1, <2>2, <2>3 DEF S, Standing
<1>8. ASSUME NEW f \in S, f \notin Independent, KeyOf[f] \notin KeysToCollapse(s, batch)
      PROVE  f \in Active
  <2>1. f \notin batch \cup Orphans(s)
    BY <1>8 DEF KeysToCollapse
  <2>2. f \in stored /\ f \notin Stale(s)
    BY <2>1, <1>2 DEF Kept
  <2>3. supersededBy[f] = None /\ f \notin retired
    BY <2>1, <2>2 DEF S, Standing, Released
  <2> QED  BY <2>2, <2>3 DEF Active
<1>9. Settled => Settled'
  <2> SUFFICES ASSUME Settled, NEW f \in Unattributed', NEW g \in Unattributed', KeyOf[f] = KeyOf[g]
               PROVE  f = g
    BY DEF Settled
  <2>1. /\ f \in S /\ f \notin lost /\ f \notin Independent /\ KeyOf[f] \in Slugless
        /\ g \in S /\ g \notin lost /\ g \notin Independent
    BY <1>7 DEF Unattributed
  <2>2. CASE KeyOf[f] \in KeysToCollapse(s, batch)
    BY <2>1, <2>2 DEF lost, Losers
  <2>3. CASE KeyOf[f] \notin KeysToCollapse(s, batch)
    BY <1>8, <2>1, <2>3 DEF Settled, Unattributed
  <2> QED  BY <2>2, <2>3
<1>10. Dangling = {} => Dangling' = {}
  <2> SUFFICES ASSUME Dangling = {}, NEW f \in Dangling' PROVE FALSE
    OBVIOUS
  <2>1. /\ f \in Kept(s, batch) /\ f \in Fact /\ f \notin retired \ Stale(s)
        /\ supersededBy'[f] \notin Kept(s, batch) /\ supersededBy'[f] # None
    BY <1>1, <1>2 DEF Dangling
  <2>2. f \notin lost
    BY <1>2, <1>4, <1>5, <2>1
  <2>3. /\ supersededBy'[f] = supersededBy[f] /\ f \notin Stale(s) \cup Orphans(s) \cup batch
    BY <1>5, <2>1, <2>2 DEF Released
  <2>4. f \in stored \ retired /\ supersededBy[f] \notin Stale(s)
    BY <2>1, <2>3 DEF Kept, Orphans
  <2>5. supersededBy[f] \in stored
    BY <2>1, <2>3, <2>4 DEF Dangling
  <2> QED  BY <2>1, <2>3, <2>4, <2>5 DEF Kept
<1>11. Ghosts' \subseteq Ghosts
  <2> SUFFICES ASSUME NEW f \in Ghosts', f \in Active PROVE FALSE
    BY <1>1 DEF Ghosts
  <2>1. f \in Fact /\ f \in stored \ Stale(s) /\ f \notin lost /\ supersededBy[f] = None /\ f \notin retired
    BY <1>1 DEF Ghosts, Active, FactTypeOK
  <2>2. supersededBy'[f] = None
    BY <1>5, <2>1 DEF Released
  <2> QED  BY <1>1, <2>1, <2>2 DEF Ghosts, Active, Kept
<1> QED  BY <1>6, <1>9, <1>10, <1>11 DEF Healthier

LEMMA CascadeHeals ==
  ASSUME FactTypeOK, NEW pred \in Session, NEW succ \in Session,
         NEW heir \in HeirChoices(succ), CascadeFacts(pred, succ, heir)
  PROVE  Healthier
<1> DEFINE moved == {f \in stored \cap FactsOf(pred) : heir[KeyOf[f]] # None}
<1>1. /\ supersededBy' = [f \in Fact |-> IF f \in moved THEN heir[KeyOf[f]] ELSE supersededBy[f]]
      /\ vectors' = vectors \ moved /\ stored' = stored /\ retired' = retired
  BY DEF CascadeFacts
<1>2. moved \in SUBSET Fact
  BY DEF FactTypeOK
<1>3. ASSUME NEW f \in moved PROVE heir[KeyOf[f]] \in stored /\ heir[KeyOf[f]] # None
  <2>1. heir \in [Key -> (stored \cap FactsOf(succ)) \cup {None}]
    BY DEF HeirChoices
  <2>2. KeyOf[f] \in Key
    BY <1>2, FactConstants
  <2> QED  BY <1>3, <2>1, <2>2
<1> HIDE DEF moved
<1>4. FactTypeOK'
  <2>1. supersededBy' \in [Fact -> Fact \cup {None}]
    BY <1>1, <1>3 DEF FactTypeOK
  <2> QED  BY <1>1, <2>1 DEF FactTypeOK
<1>5. \A f \in Fact : supersededBy'[f] = IF f \in moved THEN heir[KeyOf[f]] ELSE supersededBy[f]
  BY <1>1
<1>6. Active' = Active \ moved
  BY <1>1, <1>3, <1>5 DEF Active, FactTypeOK
<1>7. Dangling' \subseteq Dangling
  BY <1>1, <1>3, <1>5 DEF Dangling, FactTypeOK
<1> QED  BY <1>1, <1>4, <1>6, <1>7 DEF Healthier, Settled, Unattributed, Ghosts

LEMMA DaemonHeals ==
  ASSUME FactTypeOK, DaemonCommits
  PROVE  \/ Healthier
         \/ /\ FactTypeOK' /\ UNCHANGED <<Active, Unattributed, Dangling>>
            /\ Ghosts' \subseteq Ghosts \cup ((vectors' \ vectors) \ Active')
<1>1. CASE \E s \in Session : \E batch \in Batches(s) :
             \E last \in LastOfBatch(batch) : IngestFacts(s, batch, last)
  BY <1>1, IngestHeals
<1>2. CASE \E pred, succ \in Session :
             pred # succ /\ \E heir \in HeirChoices(succ) : CascadeFacts(pred, succ, heir)
  BY <1>2, CascadeHeals
<1>3. CASE \E f \in Fact : Retire(f)
  <2>1. PICK f \in Fact : Retire(f)
    BY <1>3
  <2>2. FactTypeOK'
    BY <2>1 DEF FactTypeOK, Retire
  <2> QED  BY <2>1, <2>2 DEF Healthier, Settled, Unattributed, Active, Dangling, Ghosts, Retire
<1>4. CASE \E f \in Fact : UpsertEmbedding(f)
  <2>1. PICK f \in Fact : UpsertEmbedding(f)
    BY <1>4
  <2>2. FactTypeOK'
    BY <2>1 DEF FactTypeOK, UpsertEmbedding
  <2>3. Active' = Active /\ Dangling' = Dangling /\ Unattributed' = Unattributed
    BY <2>1 DEF UpsertEmbedding, Active, Dangling, Unattributed
  <2> QED  BY <2>2, <2>3 DEF Ghosts
<1> QED  BY <1>1, <1>2, <1>3, <1>4 DEF DaemonCommits

(* The plans of the fix.  A fact of the first gives way to one that stays    *)
(* current; a fact of the second points to a fact on file of its key that is *)
(* to be current, or is to be current itself.                                *)
LEMMA ConflictPlanIsSound ==
  ASSUME FactTypeOK, NEW f \in DOMAIN ConflictPlan
  PROVE  /\ f \in Unattributed /\ ConflictPlan[f] \in Unattributed
         /\ ConflictPlan[f] \in Fact /\ ConflictPlan[f] # None
         /\ ConflictPlan[f] \notin DOMAIN ConflictPlan
         /\ KeyOf[ConflictPlan[f]] = KeyOf[f] /\ CreatedAt[ConflictPlan[f]] >= CreatedAt[f]
<1>1. Unattributed \in SUBSET Fact
  BY DEF Unattributed, Active, FactTypeOK
<1>2. f \in Losers(Unattributed, Key, NoIncoming)
  BY DEF ConflictPlan
<1> DEFINE w == Winner(Unattributed, KeyOf[f], NoIncoming)
<1>3. /\ w \in Unattributed /\ KeyOf[w] = KeyOf[f] /\ w \notin Losers(Unattributed, Key, NoIncoming)
      /\ Beats(w, f, NoIncoming[KeyOf[f]])
  BY <1>1, <1>2, LosersHaveAWinner
<1>4. ConflictPlan[f] = w /\ DOMAIN ConflictPlan = Losers(Unattributed, Key, NoIncoming)
  BY <1>2 DEF ConflictPlan
<1>5. f \in Unattributed
  BY <1>2 DEF Losers
<1> HIDE DEF w
<1>6. CreatedAt[w] >= CreatedAt[f]
  <2>1. CreatedAt[w] \in Nat /\ CreatedAt[f] \in Nat
    BY <1>1, <1>3, <1>5, FactConstants
  <2> QED  BY <1>3, <2>1 DEF Beats
<1> QED  BY <1>1, <1>3, <1>4, <1>5, <1>6, FactConstants

LEMMA ClaimIsNewest ==
  ASSUME FactTypeOK, NEW f \in Claimants
  PROVE  /\ Claim(KeyOf[f]) \in Claimants /\ Claim(KeyOf[f]) \in Fact
         /\ KeyOf[Claim(KeyOf[f])] = KeyOf[f]
         /\ CreatedAt[Claim(KeyOf[f])] >= CreatedAt[f]
<1> DEFINE R == Rivals(Claimants, KeyOf[f])
           c == Newest(R, None)
<1>1. Claimants \in SUBSET Fact
  BY DEF Claimants, Active, Dangling, FactTypeOK
<1>2. R \in SUBSET Fact /\ f \in R
  BY <1>1 DEF Rivals
<1>3. c \in R /\ \A g \in R \ {c} : Beats(c, g, None)
  <2> HIDE DEF R
  <2> QED  BY <1>2, NewestExists
<1>4. c \in Claimants /\ c \in Fact /\ KeyOf[c] = KeyOf[f]
  BY <1>1, <1>3 DEF Rivals
<1> HIDE DEF c
<1>5. CreatedAt[c] >= CreatedAt[f]
  <2>1. CreatedAt[c] \in Nat /\ CreatedAt[f] \in Nat
    BY <1>1, <1>4, FactConstants
  <2> QED  BY <1>2, <1>3, <2>1 DEF Beats
<1>6. c = Claim(KeyOf[f])
  BY DEF c, Claim
<1> QED  BY <1>4, <1>5, <1>6

LEMMA DanglingPlanIsSound ==
  ASSUME FactTypeOK, NEW f \in DOMAIN DanglingPlan
  PROVE  /\ f \in stored \ retired /\ f \in Fact
         /\ \/ /\ f \in Independent \/ f = Claim(KeyOf[f])
               /\ DanglingPlan[f] = None
            \/ /\ f \notin Independent /\ f # Claim(KeyOf[f])
               /\ DanglingPlan[f] = Claim(KeyOf[f])
               /\ Claim(KeyOf[f]) \in stored /\ Claim(KeyOf[f]) \in Fact
<1>1. f \in Dangling \cup GivesWay
  BY DEF DanglingPlan
<1>2. f \in stored \ retired /\ f \in Fact
  BY <1>1 DEF Dangling, GivesWay, Claimants, Active, FactTypeOK
<1>3. DanglingPlan[f] = IF f \in Independent \/ f = Claim(KeyOf[f]) THEN None ELSE Claim(KeyOf[f])
  BY <1>1 DEF DanglingPlan
<1>4. f \notin Independent => Claim(KeyOf[f]) \in stored /\ Claim(KeyOf[f]) \in Fact
  <2>1. f \notin Independent => f \in Claimants
    BY <1>1 DEF GivesWay, Claimants
  <2> QED  BY <2>1, ClaimIsNewest DEF Claimants, Active, Dangling
<1> QED  BY <1>2, <1>3, <1>4

-----------------------------------------------------------------------------
(* What the fix has done so far, unless the daemon committed between a plan  *)
(* and its use, or the sweep guard refused.                                  *)
FixInv ==
  /\ FixTypeOK
  /\ ~stale /\ step = "collapse" => plan = ConflictPlan
  /\ ~stale /\ step = "repoint" => plan = DanglingPlan
  /\ ~stale /\ step \in {"dangling", "repoint", "done"} => Settled
  /\ ~stale /\ step = "done" => Dangling = {}
  /\ ~spared /\ step # "ghosts" => Ghosts \subseteq ghosts \cup late
  /\ step # "sweep" => ghosts = {}

(* After either plan a row is as the plan says, if it is in it.              *)
LEMMA PlansAreTyped ==
  ASSUME FactTypeOK
  PROVE  ConflictPlan \in Plans /\ DanglingPlan \in Plans /\ <<>> \in Plans
<1>1. ConflictPlan \in Plans
  <2>1. DOMAIN ConflictPlan \in SUBSET Fact
    BY ConflictPlanIsSound DEF Unattributed, Active, FactTypeOK
  <2>2. ConflictPlan \in [DOMAIN ConflictPlan -> Fact \cup {None}]
    <3>1. ConflictPlan = [f \in DOMAIN ConflictPlan |-> ConflictPlan[f]]
      BY DEF ConflictPlan
    <3>2. \A f \in DOMAIN ConflictPlan : ConflictPlan[f] \in Fact \cup {None}
      BY ConflictPlanIsSound
    <3> QED  BY <3>1, <3>2
  <2> QED  BY <2>1, <2>2 DEF Plans
<1>2. DanglingPlan \in Plans
  <2>1. DOMAIN DanglingPlan \in SUBSET Fact
    BY DanglingPlanIsSound
  <2>2. DanglingPlan \in [DOMAIN DanglingPlan -> Fact \cup {None}]
    <3>1. DanglingPlan = [f \in DOMAIN DanglingPlan |-> DanglingPlan[f]]
      BY DEF DanglingPlan
    <3>2. \A f \in DOMAIN DanglingPlan : DanglingPlan[f] \in Fact \cup {None}
      BY DanglingPlanIsSound
    <3> QED  BY <3>1, <3>2
  <2> QED  BY <2>1, <2>2 DEF Plans
<1>3. <<>> \in Plans
  <2>1. <<>> \in [{} -> Fact \cup {None}] /\ {} \in SUBSET Fact
    OBVIOUS
  <2> QED  BY <2>1 DEF Plans
<1> QED  BY <1>1, <1>2, <1>3

LEMMA ApplyIsSound ==
  ASSUME FactTypeOK, plan \in Plans, NEW from, NEW to, Apply(from, to)
  PROVE  /\ FactTypeOK' /\ Ghosts' \subseteq Ghosts
         /\ \A f \in stored : supersededBy'[f] = IF f \in DOMAIN plan THEN plan[f] ELSE supersededBy[f]
         /\ stored' = stored /\ retired' = retired
<1>1. PICK F \in SUBSET Fact : plan \in [F -> Fact \cup {None}]
  BY DEF Plans
<1>2. /\ supersededBy' = [f \in Fact |-> IF f \in DOMAIN plan \cap stored THEN plan[f] ELSE supersededBy[f]]
      /\ vectors' = vectors \ {f \in DOMAIN plan : plan[f] # None}
      /\ stored' = stored /\ retired' = retired
  BY DEF Apply
<1>3. supersededBy' \in [Fact -> Fact \cup {None}]
  BY <1>1, <1>2 DEF FactTypeOK
<1>4. FactTypeOK'
  BY <1>2, <1>3 DEF FactTypeOK
<1>5. \A f \in stored : supersededBy'[f] = IF f \in DOMAIN plan THEN plan[f] ELSE supersededBy[f]
  BY <1>2 DEF FactTypeOK
<1>6. Ghosts' \subseteq Ghosts
  BY <1>2, <1>5 DEF Ghosts, Active
<1> QED  BY <1>2, <1>4, <1>5, <1>6

(* I5a: what stays current of a key without property is its winner.          *)
LEMMA ConflictsEnd ==
  ASSUME FactTypeOK, plan = ConflictPlan, Apply("collapse", "dangling")
  PROVE  /\ Settled'
         /\ \A f \in Active \ Active' : \E g \in Active' :
              KeyOf[g] = KeyOf[f] /\ CreatedAt[g] >= CreatedAt[f]
<1>1. /\ stored' = stored /\ retired' = retired
      /\ \A f \in stored : supersededBy'[f] = IF f \in DOMAIN plan THEN plan[f] ELSE supersededBy[f]
  BY PlansAreTyped, ApplyIsSound
<1>2. Active' = Active \ DOMAIN plan
  <2>1. \A f \in DOMAIN plan : f \in Active /\ plan[f] # None
    BY ConflictPlanIsSound DEF Unattributed
  <2> QED  BY <1>1, <2>1 DEF Active
<1>3. Settled'
  <2> SUFFICES ASSUME NEW f \in Unattributed', NEW g \in Unattributed', KeyOf[f] = KeyOf[g]
               PROVE  f = g
    BY DEF Settled
  <2>1. /\ f \in Unattributed /\ f \notin Losers(Unattributed, Key, NoIncoming)
        /\ g \in Unattributed /\ g \notin Losers(Unattributed, Key, NoIncoming)
    BY <1>2 DEF Unattributed, ConflictPlan
  <2>2. KeyOf[f] \in Key
    BY <2>1, FactConstants DEF Unattributed, Active, FactTypeOK
  <2> QED  BY <2>1, <2>2 DEF Losers
<1>4. ASSUME NEW f \in Active \ Active'
      PROVE  \E g \in Active' : KeyOf[g] = KeyOf[f] /\ CreatedAt[g] >= CreatedAt[f]
  <2>1. f \in DOMAIN ConflictPlan
    BY <1>2
  <2>2. /\ ConflictPlan[f] \in Active'
        /\ KeyOf[ConflictPlan[f]] = KeyOf[f] /\ CreatedAt[ConflictPlan[f]] >= CreatedAt[f]
    BY <1>2, <2>1, ConflictPlanIsSound DEF Unattributed
  <2> QED  BY <2>2
<1> QED  BY <1>3, <1>4

(* I5b: no pointer leads nowhere, and in a key where one did the newest      *)
(* claimant is current, alone.                                               *)
LEMMA DanglingEnds ==
  ASSUME FactTypeOK, Settled, plan = DanglingPlan, Apply("repoint", "done")
  PROVE  /\ Settled' /\ Dangling' = {}
         /\ \A f \in Active \ Active' : \E g \in Active' :
              KeyOf[g] = KeyOf[f] /\ CreatedAt[g] >= CreatedAt[f]
<1>1. /\ stored' = stored /\ retired' = retired
      /\ \A f \in stored : supersededBy'[f] = IF f \in DOMAIN plan THEN plan[f] ELSE supersededBy[f]
  BY PlansAreTyped, ApplyIsSound
<1>2. DOMAIN plan = Dangling \cup GivesWay
  BY DEF DanglingPlan
<1>3. Dangling' = {}
  <2> SUFFICES ASSUME NEW f \in Dangling' PROVE FALSE
    OBVIOUS
  <2>1. f \in stored \ retired /\ supersededBy'[f] \notin stored /\ supersededBy'[f] # None
    BY <1>1 DEF Dangling
  <2>2. CASE f \in DOMAIN plan
    BY <1>1, <2>1, <2>2, DanglingPlanIsSound
  <2>3. CASE f \notin DOMAIN plan
    BY <1>1, <1>2, <2>1, <2>3 DEF Dangling
  <2> QED  BY <2>2, <2>3
<1>4. ASSUME NEW f \in Active', f \notin Independent
      PROVE  /\ f \in Claimants
             /\ \/ f = Claim(KeyOf[f])
                \/ f \in Active /\ f # Claim(KeyOf[f]) /\ Claim(KeyOf[f]) \notin Dangling
             /\ f = Claim(KeyOf[f]) /\ f \notin Active => f \in Dangling
  <2>1. f \in stored \ retired /\ supersededBy'[f] = None
    BY <1>1 DEF Active
  <2>2. CASE f \in DOMAIN plan
    <3>1. f = Claim(KeyOf[f])
      BY <1>1, <1>4, <2>1, <2>2, DanglingPlanIsSound, FactConstants
    <3>2. f \in Claimants
      BY <1>2, <1>4, <2>2 DEF Claimants, GivesWay
    <3> QED  BY <3>1, <3>2, <2>2, <1>2 DEF Claimants
  <2>3. CASE f \notin DOMAIN plan
    <3>1. f \in Active
      BY <1>1, <2>1, <2>3 DEF Active
    <3>2. f \in Claimants /\ f \notin Dangling
      BY <1>2, <1>4, <2>3, <3>1 DEF Claimants
    <3>3. Claim(KeyOf[f]) \notin Dangling
      BY <1>2, <2>3, <3>2 DEF GivesWay
    <3> QED  BY <3>1, <3>2, <3>3
  <2> QED  BY <2>2, <2>3
<1>5. Settled'
  <2> SUFFICES ASSUME NEW f \in Unattributed', NEW g \in Unattributed', KeyOf[f] = KeyOf[g], f # g
               PROVE  FALSE
    BY DEF Settled
  <2>1. f \in Active' /\ f \notin Independent /\ g \in Active' /\ g \notin Independent /\ KeyOf[f] \in Slugless
    BY DEF Unattributed
  <2>2. CASE f \in Active /\ g \in Active
    BY <2>1, <2>2 DEF Settled, Unattributed
  <2>3. CASE f \notin Active
    BY <1>4, <2>1, <2>3
  <2>4. CASE g \notin Active
    BY <1>4, <2>1, <2>4
  <2> QED  BY <2>2, <2>3, <2>4
<1>6. ASSUME NEW f \in Active \ Active'
      PROVE  \E g \in Active' : KeyOf[g] = KeyOf[f] /\ CreatedAt[g] >= CreatedAt[f]
  <2>1. f \in stored \ retired /\ supersededBy[f] = None /\ supersededBy'[f] # None
    BY <1>1 DEF Active
  <2>2. f \in DOMAIN plan /\ f \notin Dangling
    BY <1>1, <2>1 DEF Dangling
  <2>3. f \in GivesWay
    BY <1>2, <2>2
  <2> DEFINE g == Claim(KeyOf[f])
  <2>4. g \in Dangling /\ KeyOf[g] = KeyOf[f] /\ CreatedAt[g] >= CreatedAt[f]
    BY <2>3, ClaimIsNewest DEF GivesWay
  <2> HIDE DEF g
  <2>5. g = Claim(KeyOf[g]) /\ g \in DOMAIN plan /\ g \in stored \ retired
    BY <1>2, <2>4 DEF g, Dangling
  <2>6. supersededBy'[g] = None
    BY <1>1, <2>5, DanglingPlanIsSound
  <2> QED  BY <1>1, <2>4, <2>5, <2>6 DEF Active
<1> QED  BY <1>3, <1>5, <1>6

LEMMA FixStepKeeps ==
  ASSUME FixInv, FixStep
  PROVE  FixInv'
<1>1. FactTypeOK /\ plan \in Plans
  BY DEF FixInv, FixTypeOK
<1>2. CASE FindGhosts
  <2>1. UNCHANGED factVars /\ UNCHANGED <<plan, stale, late, commits>> /\ step = "ghosts" /\ Ghosts \subseteq Fact
    BY <1>1, <1>2 DEF FindGhosts, Ghosts, FactTypeOK
  <2>2. /\ step' \in {"sweep", "conflicts"}
        /\ step' = "sweep" => ghosts' = Ghosts /\ spared' = spared
        /\ step' = "conflicts" => ghosts' = ghosts /\ spared' = TRUE
    BY <1>2 DEF FindGhosts
  <2>3. Ghosts' = Ghosts /\ FactTypeOK'
    BY <1>1, <2>1 DEF factVars, FactTypeOK, Ghosts, Active
  <2> QED  BY <2>1, <2>2, <2>3 DEF FixInv, FixTypeOK
<1>3. CASE \E f \in Fact : DeleteGhost(f)
  <2>1. PICK f \in Fact : DeleteGhost(f)
    BY <1>3
  <2>2. /\ step = "sweep" /\ vectors' = vectors \ {f} /\ ghosts' = ghosts \ {f}
        /\ UNCHANGED <<stored, supersededBy, retired, step, plan, spared, stale, late, commits>>
    BY <2>1 DEF DeleteGhost
  <2>3. FactTypeOK' /\ Ghosts' = Ghosts \ {f}
    BY <1>1, <2>2 DEF FactTypeOK, Ghosts, Active
  <2> QED  BY <2>2, <2>3 DEF FixInv, FixTypeOK
<1>4. CASE SweepEnds
  <2>1. /\ step = "sweep" /\ ghosts = {} /\ step' = "conflicts"
        /\ UNCHANGED factVars /\ UNCHANGED <<ghosts, plan, spared, stale, late, commits>>
    BY <1>4 DEF SweepEnds
  <2>2. FactTypeOK' /\ Ghosts' = Ghosts
    BY <1>1, <2>1 DEF factVars, FactTypeOK, Ghosts, Active
  <2> QED  BY <2>1, <2>2 DEF FixInv, FixTypeOK
<1>5. CASE MakePlan("conflicts", "collapse", ConflictPlan)
  <2>1. /\ step = "conflicts" /\ step' = "collapse" /\ plan' = ConflictPlan
        /\ UNCHANGED factVars /\ UNCHANGED <<ghosts, spared, stale, late, commits>>
    BY <1>5 DEF MakePlan
  <2>2. FactTypeOK' /\ Ghosts' = Ghosts /\ ConflictPlan' = ConflictPlan /\ ConflictPlan \in Plans
    BY <1>1, <2>1, PlansAreTyped
       DEF factVars, FactTypeOK, Ghosts, Active, ConflictPlan, Unattributed
  <2> QED  BY <2>1, <2>2 DEF FixInv, FixTypeOK
<1>6. CASE Apply("collapse", "dangling")
  <2>1. /\ step = "collapse" /\ step' = "dangling" /\ plan' = <<>>
        /\ UNCHANGED <<stored, retired, ghosts, spared, stale, late, commits>>
    BY <1>6 DEF Apply
  <2>2. FactTypeOK' /\ Ghosts' \subseteq Ghosts /\ <<>> \in Plans
    BY <1>1, <1>6, ApplyIsSound, PlansAreTyped
  <2>3. ~stale => Settled'
    BY <1>1, <1>6, <2>1, ConflictsEnd DEF FixInv
  <2> QED  BY <2>1, <2>2, <2>3 DEF FixInv, FixTypeOK
<1>7. CASE MakePlan("dangling", "repoint", DanglingPlan)
  <2>1. /\ step = "dangling" /\ step' = "repoint" /\ plan' = DanglingPlan
        /\ UNCHANGED factVars /\ UNCHANGED <<ghosts, spared, stale, late, commits>>
    BY <1>7 DEF MakePlan
  <2>2. /\ stored' = stored /\ supersededBy' = supersededBy /\ retired' = retired /\ vectors' = vectors
    BY <2>1 DEF factVars
  <2>3. FactTypeOK' /\ Active' = Active /\ Dangling' = Dangling
    BY <1>1, <2>2 DEF FactTypeOK, Active, Dangling
  <2>4. Ghosts' = Ghosts /\ (Settled => Settled') /\ DanglingPlan' = DanglingPlan /\ DanglingPlan \in Plans
    BY <1>1, <2>2, <2>3, PlansAreTyped
       DEF Ghosts, Settled, Unattributed, DanglingPlan, GivesWay, Claim, Claimants
  <2> QED  BY <2>1, <2>3, <2>4 DEF FixInv, FixTypeOK
<1>8. CASE Apply("repoint", "done")
  <2>1. /\ step = "repoint" /\ step' = "done" /\ plan' = <<>>
        /\ UNCHANGED <<stored, retired, ghosts, spared, stale, late, commits>>
    BY <1>8 DEF Apply
  <2>2. FactTypeOK' /\ Ghosts' \subseteq Ghosts /\ <<>> \in Plans
    BY <1>1, <1>8, ApplyIsSound, PlansAreTyped
  <2>3. ~stale => Settled' /\ Dangling' = {}
    BY <1>1, <1>8, <2>1, DanglingEnds DEF FixInv
  <2> QED  BY <2>1, <2>2, <2>3 DEF FixInv, FixTypeOK
<1> QED  BY <1>2, <1>3, <1>4, <1>5, <1>6, <1>7, <1>8 DEF FixStep

LEMMA DoctorNextKeeps ==
  ASSUME FixInv, [DoctorNext]_doctorVars
  PROVE  FixInv'
<1>1. CASE UNCHANGED doctorVars
  <2>1. /\ stored' = stored /\ supersededBy' = supersededBy /\ retired' = retired /\ vectors' = vectors
        /\ UNCHANGED <<step, ghosts, plan, spared, stale, late, commits>>
    BY <1>1 DEF doctorVars, factVars, fixVars
  <2>2. /\ FactTypeOK' = FactTypeOK /\ Active' = Active /\ Dangling' = Dangling
    BY <2>1 DEF FactTypeOK, Active, Dangling
  <2>3. /\ Ghosts' = Ghosts /\ (Settled => Settled') /\ DanglingPlan' = DanglingPlan
        /\ ConflictPlan' = ConflictPlan
    BY <2>1, <2>2 DEF Ghosts, Settled, Unattributed, DanglingPlan, GivesWay, Claim, Claimants, ConflictPlan
  <2> QED  BY <2>1, <2>2, <2>3 DEF FixInv, FixTypeOK
<1>2. CASE DaemonCommits
  <2>1. /\ commits < MaxCommits /\ commits' = commits + 1
        /\ stale' = (stale \/ step \in {"collapse", "repoint"})
        /\ UNCHANGED <<step, ghosts, plan, spared>>
        /\ late' = IF step = "ghosts" THEN late ELSE late \cup ((vectors' \ vectors) \ Active')
    BY <1>2 DEF DaemonCommits
  <2>2. /\ FactTypeOK'
        /\ Settled => Settled'
        /\ Dangling = {} => Dangling' = {}
        /\ Ghosts' \subseteq Ghosts \cup ((vectors' \ vectors) \ Active')
    BY <1>2, DaemonHeals DEF FixInv, FixTypeOK, Healthier, Settled
  <2>3. commits' \in 0..MaxCommits /\ late' \subseteq Fact
    <3>1. vectors' \subseteq Fact
      BY <2>2 DEF FactTypeOK
    <3> QED  BY <2>1, <3>1, FixConstants DEF FixInv, FixTypeOK
  <2>4. FixTypeOK'
    BY <2>1, <2>2, <2>3 DEF FixInv, FixTypeOK
  <2>5. ~spared' /\ step' # "ghosts" => Ghosts' \subseteq ghosts' \cup late'
    BY <2>1, <2>2 DEF FixInv
  <2> QED  BY <2>1, <2>2, <2>4, <2>5 DEF FixInv
<1> QED  BY <1>1, <1>2, FixStepKeeps DEF DoctorNext, Finished

LEMMA DoctorInvariant == DoctorSpec => []FixInv
<1>1. ASSUME DamagedInit PROVE FixInv
  <2>1. FactTypeOK
    BY <1>1 DEF DamagedInit, FactTypeOK
  <2>2. /\ step = "ghosts" /\ ghosts = {} /\ plan = <<>>
        /\ spared = FALSE /\ stale = FALSE /\ late = {} /\ commits = 0
    BY <1>1 DEF DamagedInit
  <2>3. plan \in Plans
    BY <2>1, <2>2, PlansAreTyped
  <2>4. commits \in 0..MaxCommits
    BY <2>2, FixConstants
  <2>5. FixTypeOK
    BY <2>1, <2>2, <2>3, <2>4 DEF FixTypeOK
  <2> QED  BY <2>2, <2>5 DEF FixInv
<1> QED  BY <1>1, DoctorNextKeeps, PTL DEF DoctorSpec

(* A fix on any damaged database writes rows of their types only.            *)
THEOREM FixIsTyped == DoctorSpec => []FixTypeOK
<1>1. FixInv => FixTypeOK
  BY DEF FixInv
<1> QED  BY <1>1, DoctorInvariant, PTL

(* Whatever the damage was, a fix that no commit came between leaves no      *)
(* dangling pointer, no key without property with two current values and,    *)
(* unless the guard refused, no ghost vector but those that came late since  *)
(* it looked; and commits of the daemon before, between the repairs or       *)
(* afterwards bring none of it back.                                         *)
THEOREM FixLeavesNothingToRepair == DoctorSpec => []FixRepairs
<1>1. FixInv => FixRepairs
  BY DEF FixInv, FixRepairs, Settled
<1> QED  BY <1>1, DoctorInvariant, PTL

(* No repair takes the newest value of a key away.                           *)
THEOREM FixNeverLosesTheNewest == DoctorSpec => FixKeepsTheNewest
<1> DEFINE KeepsNewest == FixStep /\ ~stale =>
             \A f \in Active \ Active' : \E g \in Active' :
                KeyOf[g] = KeyOf[f] /\ CreatedAt[g] >= CreatedAt[f]
<1>1. ASSUME FixInv, FixStep, ~stale, NEW f \in Active \ Active'
      PROVE  \E g \in Active' : KeyOf[g] = KeyOf[f] /\ CreatedAt[g] >= CreatedAt[f]
  <2>1. FactTypeOK
    BY <1>1 DEF FixInv, FixTypeOK
  <2>2. CASE Apply("collapse", "dangling")
    BY <1>1, <2>1, <2>2, ConflictsEnd DEF FixInv, Apply
  <2>3. CASE Apply("repoint", "done")
    BY <1>1, <2>1, <2>3, DanglingEnds DEF FixInv, Apply
  <2>4. CASE UNCHANGED <<stored, supersededBy, retired>>
    BY <1>1, <2>4 DEF Active
  <2>5. \/ Apply("collapse", "dangling") \/ Apply("repoint", "done")
        \/ UNCHANGED <<stored, supersededBy, retired>>
    BY <1>1 DEF FixStep, FindGhosts, SweepEnds, DeleteGhost, MakePlan, factVars
  <2> QED  BY <2>2, <2>3, <2>4, <2>5
<1>2. FixInv /\ [DoctorNext]_doctorVars => [KeepsNewest]_doctorVars
  BY <1>1
<1> QED  BY <1>2, DoctorInvariant, PTL DEF DoctorSpec, FixKeepsTheNewest
=============================================================================
