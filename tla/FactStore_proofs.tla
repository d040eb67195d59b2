-------------------------- MODULE FactStore_proofs --------------------------
(***************************************************************************)
(* The invariants of FactStore hold for any sessions, facts, keys, session *)
(* times and id order.                                                     *)
(*                                                                         *)
(* No reachability is needed to show that superseded_by has no cycle: a    *)
(* cycle is a non-empty set of facts that all point into the set, and the  *)
(* only facts that are ever pointed to by a new pointer point nowhere      *)
(* themselves.                                                             *)
(***************************************************************************)
EXTENDS FactStore, FiniteSetTheorems, WellFoundedInduction, TLAPS

-----------------------------------------------------------------------------
(* The order of facts. *)

LEMMA BeatsIsTotal ==
  ASSUME NEW f \in Fact, NEW g \in Fact, NEW incoming, f # g
  PROVE  Beats(f, g, incoming) \/ Beats(g, f, incoming)
BY FactConstants DEF Beats

LEMMA BeatsIsTransitive ==
  ASSUME NEW f \in Fact, NEW g \in Fact, NEW h \in Fact, NEW incoming,
         Beats(f, g, incoming), Beats(g, h, incoming)
  PROVE  Beats(f, h, incoming)
BY FactConstants DEF Beats

LEMMA BeatsIsAntisymmetric ==
  ASSUME NEW f \in Fact, NEW g \in Fact, NEW incoming,
         Beats(f, g, incoming), Beats(g, f, incoming)
  PROVE  f = g
BY FactConstants DEF Beats

(* The collapse always has a winner: among finitely many facts one is beaten *)
(* by none, the one with the smallest set of facts that beat it.             *)
LEMMA NewestExists ==
  ASSUME NEW S \in SUBSET Fact, S # {}, NEW incoming
  PROVE  /\ Newest(S, incoming) \in S
         /\ \A g \in S \ {Newest(S, incoming)} : Beats(Newest(S, incoming), g, incoming)
<1> DEFINE Above(w) == {g \in S \ {w} : Beats(g, w, incoming)}
           Aboves   == {Above(w) : w \in S}
<1>1. IsWellFoundedOn(StrictSubsetOrdering(Fact), SUBSET Fact)
  <2>1. IsFiniteSet(Fact)
    BY FactConstants
  <2>2. FiniteSubsetsOf(Fact) = SUBSET Fact
    BY <2>1, FS_FiniteSubsetsOfFinite
  <2>3. IsWellFoundedOn(StrictSubsetOrdering(Fact), FiniteSubsetsOf(Fact))
    BY FS_StrictSubsetOrderingWellFounded
  <2> QED  BY <2>2, <2>3
<1>2. Aboves \subseteq SUBSET Fact /\ Aboves # {}
  OBVIOUS
<1>3. \E A \in Aboves : \A B \in Aboves : <<B, A>> \notin StrictSubsetOrdering(Fact)
  <2> HIDE DEF Aboves
  <2> QED  BY <1>1, <1>2, WFMin
<1>4. PICK w \in S : \A v \in S : <<Above(v), Above(w)>> \notin StrictSubsetOrdering(Fact)
  BY <1>3
<1>5. Above(w) = {}
  <2> SUFFICES ASSUME NEW g \in Above(w) PROVE FALSE
    OBVIOUS
  <2>1. g \in S /\ g # w /\ Beats(g, w, incoming)
    OBVIOUS
  <2>2. Above(g) \subseteq Above(w)
    <3> SUFFICES ASSUME NEW h \in Above(g) PROVE h \in Above(w)
      OBVIOUS
    <3>1. h \in S /\ h # g /\ Beats(h, g, incoming)
      OBVIOUS
    <3>2. Beats(h, w, incoming)
      BY <2>1, <3>1, BeatsIsTransitive
    <3>3. h # w
      BY <2>1, <3>1, BeatsIsAntisymmetric
    <3> QED  BY <3>1, <3>2, <3>3
  <2>3. g \notin Above(g)
    OBVIOUS
  <2>4. Above(g) \in SUBSET Fact /\ Above(w) \in SUBSET Fact
    OBVIOUS
  <2>5. <<Above(g), Above(w)>> \in StrictSubsetOrdering(Fact)
    <3> HIDE DEF Above
    <3> QED  BY <2>2, <2>3, <2>4 DEF StrictSubsetOrdering
  <2> QED  BY <2>1, <2>5, <1>4
<1>6. \A g \in S \ {w} : Beats(w, g, incoming)
  BY <1>5, BeatsIsTotal
<1> QED  BY <1>6 DEF Newest

(* A loser of the collapse has a winner of its own key that stands and does  *)
(* not lose itself.                                                          *)
LEMMA LosersHaveAWinner ==
  ASSUME NEW S \in SUBSET Fact, NEW K, NEW last, NEW f \in Losers(S, K, last)
  PROVE  /\ Winner(S, KeyOf[f], last) \in S
         /\ KeyOf[Winner(S, KeyOf[f], last)] = KeyOf[f]
         /\ Winner(S, KeyOf[f], last) \notin Losers(S, K, last)
         /\ Beats(Winner(S, KeyOf[f], last), f, last[KeyOf[f]])
<1> DEFINE k == KeyOf[f]
           w == Winner(S, k, last)
<1>1. f \in Rivals(S, k) /\ f # w
  BY DEF Losers, Rivals
<1>2. Rivals(S, k) \in SUBSET Fact /\ Rivals(S, k) # {}
  BY <1>1 DEF Rivals
<1>3. w \in Rivals(S, k) /\ Beats(w, f, last[k])
  <2>1. /\ Newest(Rivals(S, k), last[k]) \in Rivals(S, k)
        /\ \A g \in Rivals(S, k) \ {Newest(Rivals(S, k), last[k])} :
              Beats(Newest(Rivals(S, k), last[k]), g, last[k])
    BY <1>2, NewestExists
  <2> QED  BY <2>1, <1>1 DEF Winner
<1>4. KeyOf[w] = k /\ w \in S
  BY <1>3 DEF Rivals
<1>5. w \notin Losers(S, K, last)
  BY <1>4 DEF Losers
<1> QED  BY <1>3, <1>4, <1>5

-----------------------------------------------------------------------------
(* The inductive invariant, and one lemma per action.  Where others than the *)
(* store's own transactions write superseded_by (FactCuration), only Core is *)
(* left of it.                                                               *)

Core ==
  /\ FactTypeOK
  /\ OneCurrentPerKey
  /\ NoDanglingSuccessor
  /\ VectorsHaveFacts

Inv == Core /\ ChainsEnd /\ SuccessorHasTheKey

ChainsKept == (ChainsEnd => ChainsEnd') /\ (SuccessorHasTheKey => SuccessorHasTheKey')

(* What an ingest leaves standing: facts of Fact, all of them kept. *)
LEMMA StandingFacts ==
  ASSUME FactTypeOK, NEW s \in Session, NEW batch \in Batches(s)
  PROVE  /\ Standing(s, batch) \in SUBSET Fact
         /\ Standing(s, batch) \subseteq Kept(s, batch)
         /\ Kept(s, batch) \in SUBSET Fact
         /\ Stale(s) \subseteq stored
         /\ batch \cap stored = {}
BY DEF FactTypeOK, Standing, Kept, Stale, Batches, FactsOf

(* A released pointer, if it is still set, was set before and points to a    *)
(* fact that stays.                                                          *)
LEMMA PointersThatStay ==
  ASSUME Core, NEW s \in Session, NEW batch \in Batches(s),
         NEW f \in Kept(s, batch), Released(s, batch, f) # None
  PROVE  /\ f \in stored /\ f \notin Stale(s) /\ f \notin batch
         /\ Released(s, batch, f) = supersededBy[f]
         /\ supersededBy[f] \in stored \ Stale(s)
BY FactConstants DEF Core, FactTypeOK, NoDanglingSuccessor, Kept, Released, Orphans, Batches

LEMMA IngestKeeps ==
  ASSUME Core, NEW s \in Session, NEW batch \in Batches(s), NEW last,
         IngestFacts(s, batch, last)
  PROVE  Core' /\ ChainsKept
<1> DEFINE S    == Standing(s, batch)
           lost == Losers(S, KeysToCollapse(s, batch), last)
           W(f) == Winner(S, KeyOf[f], last)
<1>1. /\ stored' = Kept(s, batch)
      /\ retired' = retired \ Stale(s)
      /\ supersededBy' = [f \in Fact |-> IF f \in lost THEN W(f) ELSE Released(s, batch, f)]
      /\ vectors' = vectors \ (Stale(s) \cup lost)
  BY DEF IngestFacts
<1>2. /\ S \in SUBSET Fact
      /\ S \subseteq Kept(s, batch)
      /\ Kept(s, batch) \in SUBSET Fact
      /\ Stale(s) \subseteq stored
      /\ batch \cap stored = {}
  BY StandingFacts DEF Core
<1>3. lost \subseteq S
  BY DEF Losers
<1>4. ASSUME NEW f \in lost
      PROVE  W(f) \in S /\ W(f) \notin lost /\ KeyOf[W(f)] = KeyOf[f]
  BY <1>2, LosersHaveAWinner
<1>5. ASSUME NEW f \in S PROVE Released(s, batch, f) = None
  BY DEF Standing
<1> HIDE DEF S, lost, W
<1>6. \A f \in Fact : supersededBy'[f] = IF f \in lost THEN W(f) ELSE Released(s, batch, f)
  BY <1>1
<1>7. FactTypeOK'
  <2>1. \A f \in Fact : Released(s, batch, f) \in Fact \cup {None}
    BY DEF Released, Core, FactTypeOK
  <2>2. supersededBy' \in [Fact -> Fact \cup {None}]
    BY <1>1, <1>2, <1>4, <2>1
  <2>3. retired' \subseteq stored'
    BY <1>1 DEF Core, FactTypeOK, Kept
  <2> QED  BY <1>1, <1>2, <2>2, <2>3 DEF Core, FactTypeOK
<1>8. OneCurrentPerKey'
  <2> SUFFICES ASSUME NEW f \in (Active \ Independent)', NEW g \in (Active \ Independent)',
                      KeyOf[f] = KeyOf[g]
               PROVE  f = g
    BY DEF OneCurrentPerKey
  <2>1. ASSUME NEW h \in (Active \ Independent)'
        PROVE  h \in S /\ h \notin lost /\ h \in Kept(s, batch) /\ h \notin Independent
    <3>1. h \in Kept(s, batch) /\ supersededBy'[h] = None /\ h \notin retired \ Stale(s)
      BY <1>1 DEF Active
    <3>2. h \notin lost
      BY <3>1, <1>2, <1>4, <1>6, FactConstants
    <3>3. Released(s, batch, h) = None
      BY <3>1, <3>2, <1>2, <1>6
    <3> QED  BY <3>1, <3>2, <3>3 DEF S, Standing
  <2>2. f \in S /\ f \notin lost /\ f \in Kept(s, batch) /\ f \notin Independent
    BY <2>1
  <2>3. g \in S /\ g \notin lost /\ g \in Kept(s, batch) /\ g \notin Independent
    BY <2>1
  <2>4. CASE KeyOf[f] \in KeysToCollapse(s, batch)
    BY <2>2, <2>3, <2>4 DEF lost, Losers
  <2>5. CASE KeyOf[f] \notin KeysToCollapse(s, batch)
    <3>1. ASSUME NEW h \in S, h \notin Independent, KeyOf[h] = KeyOf[f]
          PROVE  h \in Active \ Independent
      <4>1. h \notin batch \cup Orphans(s)
        BY <2>5, <3>1 DEF KeysToCollapse
      <4>2. h \in stored /\ h \notin Stale(s)
        BY <4>1, <1>2 DEF Kept
      <4>3. supersededBy[h] = None /\ h \notin retired
        BY <4>1, <4>2 DEF S, Standing, Released
      <4> QED  BY <4>2, <4>3, <3>1 DEF Active
    <3> QED  BY <2>2, <2>3, <3>1 DEF Core, OneCurrentPerKey
  <2> QED  BY <2>4, <2>5
<1>9. NoDanglingSuccessor'
  <2> SUFFICES ASSUME NEW f \in stored', supersededBy'[f] # None
               PROVE  supersededBy'[f] \in stored'
    BY DEF NoDanglingSuccessor
  <2>1. f \in Kept(s, batch) /\ f \in Fact
    BY <1>1, <1>2
  <2>2. CASE f \in lost
    BY <2>1, <2>2, <1>1, <1>2, <1>4, <1>6
  <2>3. CASE f \notin lost
    <3>1. supersededBy'[f] = Released(s, batch, f)
      BY <2>1, <2>3, <1>6
    <3>2. supersededBy'[f] \in stored \ Stale(s)
      BY <2>1, <3>1, PointersThatStay
    <3> QED  BY <3>2, <1>1 DEF Kept
  <2> QED  BY <2>2, <2>3
<1>10. ChainsEnd => ChainsEnd'
  <2> SUFFICES ASSUME ChainsEnd, NEW T \in SUBSET stored', T # {}, \A f \in T : supersededBy'[f] \in T
               PROVE  FALSE
    BY DEF ChainsEnd
  <2>1. T \subseteq Kept(s, batch) /\ T \subseteq Fact /\ None \notin T
    BY <1>1, <1>2, FactConstants
  <2>2. T \cap lost = {}
    <3> SUFFICES ASSUME NEW f \in T, f \in lost PROVE FALSE
      OBVIOUS
    <3>1. W(f) \in T /\ W(f) \in S /\ W(f) \notin lost
      BY <2>1, <1>4, <1>6
    <3>2. supersededBy'[W(f)] = None
      BY <3>1, <2>1, <1>5, <1>6
    <3> QED  BY <3>1, <3>2, <2>1
  <2>3. ASSUME NEW f \in T PROVE f \in stored /\ supersededBy[f] \in T
    <3>1. supersededBy'[f] = Released(s, batch, f) /\ Released(s, batch, f) # None
      BY <2>1, <2>2, <1>6
    <3>2. f \in stored /\ Released(s, batch, f) = supersededBy[f]
      BY <2>1, <3>1, PointersThatStay
    <3> QED  BY <3>1, <3>2
  <2> QED  BY <2>3 DEF ChainsEnd
<1>11. SuccessorHasTheKey => SuccessorHasTheKey'
  <2> SUFFICES ASSUME SuccessorHasTheKey, NEW f \in stored', supersededBy'[f] # None
               PROVE  KeyOf[supersededBy'[f]] = KeyOf[f]
    BY DEF SuccessorHasTheKey
  <2>1. f \in Kept(s, batch) /\ f \in Fact
    BY <1>1, <1>2
  <2>2. CASE f \in lost
    BY <2>1, <2>2, <1>4, <1>6
  <2>3. CASE f \notin lost
    BY <2>1, <2>3, <1>6, PointersThatStay DEF SuccessorHasTheKey
  <2> QED  BY <2>2, <2>3
<1>12. VectorsHaveFacts'
  BY <1>1 DEF Core, VectorsHaveFacts, Kept
<1> QED  BY <1>7, <1>8, <1>9, <1>10, <1>11, <1>12 DEF Core, ChainsKept

(* A correction between sessions only takes facts out of the current ones,   *)
(* and what it points them to are roots, so no cycle can close.              *)
LEMMA CascadeKeeps ==
  ASSUME Core, NEW pred \in Session, NEW succ \in Session, pred # succ,
         NEW heir \in HeirChoices(succ), CascadeFacts(pred, succ, heir)
  PROVE  Core' /\ ChainsKept
<1> DEFINE moved == {f \in stored \cap FactsOf(pred) : heir[KeyOf[f]] # None}
<1>1. /\ supersededBy' = [f \in Fact |-> IF f \in moved THEN heir[KeyOf[f]] ELSE supersededBy[f]]
      /\ vectors' = vectors \ moved
      /\ stored' = stored /\ retired' = retired
  BY DEF CascadeFacts
<1>2. ASSUME NEW f \in moved
      PROVE  /\ heir[KeyOf[f]] \in stored /\ heir[KeyOf[f]] \in Fact
             /\ KeyOf[heir[KeyOf[f]]] = KeyOf[f]
             /\ supersededBy[heir[KeyOf[f]]] = None
             /\ heir[KeyOf[f]] \notin moved
  <2>1. f \in Fact /\ KeyOf[f] \in Key /\ heir[KeyOf[f]] # None
    BY FactConstants DEF Core, FactTypeOK
  <2>2. heir[KeyOf[f]] \in Heirs(KeyOf[f], succ)
    BY <2>1 DEF HeirChoices
  <2> QED  BY <2>2 DEF Heirs, FactsOf
<1>3. moved \subseteq stored /\ stored \subseteq Fact
  BY DEF Core, FactTypeOK
<1> HIDE DEF moved
<1>4. \A f \in Fact : supersededBy'[f] = IF f \in moved THEN heir[KeyOf[f]] ELSE supersededBy[f]
  BY <1>1
<1>5. FactTypeOK'
  BY <1>1, <1>2 DEF Core, FactTypeOK
<1>6. Active' \subseteq Active
  <2> SUFFICES ASSUME NEW f \in Active' PROVE f \in Active
    OBVIOUS
  <2>1. f \in stored /\ f \in Fact /\ f \notin retired /\ supersededBy'[f] = None
    BY <1>1, <1>3 DEF Active
  <2>2. f \notin moved
    BY <2>1, <1>2, <1>4, FactConstants
  <2> QED  BY <2>1, <2>2, <1>4 DEF Active
<1>7. OneCurrentPerKey'
  BY <1>6 DEF Core, OneCurrentPerKey
<1>8. NoDanglingSuccessor'
  BY <1>1, <1>2, <1>3, <1>4 DEF Core, NoDanglingSuccessor
<1>9. ChainsEnd => ChainsEnd'
  <2> SUFFICES ASSUME ChainsEnd, NEW T \in SUBSET stored', T # {}, \A f \in T : supersededBy'[f] \in T
               PROVE  FALSE
    BY DEF ChainsEnd
  <2>1. T \subseteq stored /\ T \subseteq Fact /\ None \notin T
    BY <1>1, <1>3, FactConstants
  <2>2. ASSUME NEW f \in T PROVE f \notin moved
    <3> SUFFICES ASSUME f \in moved PROVE FALSE
      OBVIOUS
    <3>1. heir[KeyOf[f]] \in T /\ supersededBy'[heir[KeyOf[f]]] = None
      BY <2>1, <1>2, <1>4
    <3> QED  BY <3>1, <2>1
  <2>3. \A f \in T : supersededBy[f] \in T
    BY <2>1, <2>2, <1>4
  <2> QED  BY <2>1, <2>3 DEF ChainsEnd
<1>10. SuccessorHasTheKey => SuccessorHasTheKey'
  BY <1>1, <1>2, <1>3, <1>4 DEF SuccessorHasTheKey
<1>11. VectorsHaveFacts'
  BY <1>1 DEF Core, VectorsHaveFacts
<1> QED  BY <1>5, <1>7, <1>8, <1>9, <1>10, <1>11 DEF Core, ChainsKept

LEMMA RetireKeeps ==
  ASSUME Core, NEW f \in Fact, Retire(f)
  PROVE  Core' /\ ChainsKept
<1>1. FactTypeOK' /\ VectorsHaveFacts'
  BY DEF Core, FactTypeOK, VectorsHaveFacts, Retire
<1>2. Active' \subseteq Active
  BY DEF Active, Retire
<1>3. OneCurrentPerKey'
  BY <1>2 DEF Core, OneCurrentPerKey
<1>4. NoDanglingSuccessor' /\ ChainsKept
  BY DEF ChainsKept, Core, NoDanglingSuccessor, ChainsEnd, SuccessorHasTheKey, Retire
<1> QED  BY <1>1, <1>3, <1>4 DEF Core

LEMMA UpsertKeeps ==
  ASSUME Core, NEW f \in Fact, UpsertEmbedding(f)
  PROVE  Core' /\ ChainsKept
<1>1. FactTypeOK' /\ VectorsHaveFacts'
  BY DEF Core, FactTypeOK, VectorsHaveFacts, UpsertEmbedding
<1>2. OneCurrentPerKey'
  BY DEF Core, OneCurrentPerKey, Active, UpsertEmbedding
<1>3. NoDanglingSuccessor' /\ ChainsKept
  BY DEF ChainsKept, Core, NoDanglingSuccessor, ChainsEnd, SuccessorHasTheKey, UpsertEmbedding
<1> QED  BY <1>1, <1>2, <1>3 DEF Core

LEMMA NextKeeps ==
  ASSUME Core, [FactNext]_factVars
  PROVE  Core' /\ ChainsKept
<1>1. CASE \E s \in Session : \E batch \in Batches(s) :
             \E last \in LastOfBatch(batch) : IngestFacts(s, batch, last)
  BY <1>1, IngestKeeps
<1>2. CASE \E pred, succ \in Session :
             pred # succ /\ \E heir \in HeirChoices(succ) : CascadeFacts(pred, succ, heir)
  BY <1>2, CascadeKeeps
<1>3. CASE \E f \in Fact : Retire(f)
  BY <1>3, RetireKeeps
<1>4. CASE \E f \in Fact : UpsertEmbedding(f)
  BY <1>4, UpsertKeeps
<1>5. CASE UNCHANGED factVars
  BY <1>5 DEF factVars, Core, ChainsKept, FactTypeOK, OneCurrentPerKey, NoDanglingSuccessor, ChainsEnd,
              SuccessorHasTheKey, VectorsHaveFacts, Active
<1> QED  BY <1>1, <1>2, <1>3, <1>4, <1>5 DEF FactNext

LEMMA NextPreservesInv ==
  ASSUME Inv, [FactNext]_factVars
  PROVE  Inv'
BY NextKeeps DEF Inv, ChainsKept

LEMMA InitEstablishesInv == FactInit => Inv
BY DEF FactInit, Inv, Core, FactTypeOK, OneCurrentPerKey, NoDanglingSuccessor, ChainsEnd,
       SuccessorHasTheKey, VectorsHaveFacts, Active

-----------------------------------------------------------------------------
(* The inductive invariant holds in every state the fact tables reach.       *)
THEOREM FactStoreInvariant == FactSpec => []Inv
<1>1. FactInit => Inv
  BY InitEstablishesInv
<1>2. Inv /\ [FactNext]_factVars => Inv'
  BY NextPreservesInv
<1> QED  BY <1>1, <1>2, PTL DEF FactSpec

(* The variables of the fact tables keep their types.                        *)
THEOREM FactTypesAreKept == FactSpec => []FactTypeOK
<1>1. Inv => FactTypeOK
  BY DEF Inv, Core
<1> QED  BY <1>1, FactStoreInvariant, PTL

(* A key never has two current values, whatever is ingested, corrected or    *)
(* retired, in whatever order (I5a).                                         *)
THEOREM KeysHaveOneValue == FactSpec => []OneCurrentPerKey
<1>1. Inv => OneCurrentPerKey
  BY DEF Inv, Core
<1> QED  BY <1>1, FactStoreInvariant, PTL

(* superseded_by always points to a row (I5b).                               *)
THEOREM SuccessorsAreStored == FactSpec => []NoDanglingSuccessor
<1>1. Inv => NoDanglingSuccessor
  BY DEF Inv, Core
<1> QED  BY <1>1, FactStoreInvariant, PTL

(* superseded_by is acyclic (I5c) for sessions that ingest and correct.      *)
THEOREM SupersededByIsAcyclic == FactSpec => []ChainsEnd
<1>1. Inv => ChainsEnd
  BY DEF Inv, Core
<1> QED  BY <1>1, FactStoreInvariant, PTL

(* A successor answers the same question as the fact it stands in for.       *)
THEOREM SuccessorsShareTheKey == FactSpec => []SuccessorHasTheKey
<1>1. Inv => SuccessorHasTheKey
  BY DEF Inv, Core
<1> QED  BY <1>1, FactStoreInvariant, PTL

(* The vector index only holds vectors of stored facts (I7, first half).     *)
THEOREM VectorsAreOfStoredFacts == FactSpec => []VectorsHaveFacts
<1>1. Inv => VectorsHaveFacts
  BY DEF Inv, Core
<1> QED  BY <1>1, FactStoreInvariant, PTL

-----------------------------------------------------------------------------
(* Action properties: what no transaction may do. *)

(* The fact that takes over a key beats the one that loses it, and who beats *)
(* another is at least as new.                                               *)
LEMMA StepKeepsCurrentNewest ==
  ASSUME Core, FactNext, NEW f \in Active \ Independent, NEW g \in (Active \ Independent)',
         f # g, KeyOf[f] = KeyOf[g], f \in stored' \ retired'
  PROVE  CreatedAt[g] >= CreatedAt[f]
<1>1. CASE \E s \in Session : \E batch \in Batches(s) :
             \E last \in LastOfBatch(batch) : IngestFacts(s, batch, last)
  <2> PICK s \in Session : \E batch \in Batches(s) :
               \E last \in LastOfBatch(batch) : IngestFacts(s, batch, last)
    BY <1>1
  <2>1. PICK batch \in Batches(s) : \E last \in LastOfBatch(batch) : IngestFacts(s, batch, last)
    OBVIOUS
  <2>2. PICK last \in LastOfBatch(batch) : IngestFacts(s, batch, last)
    BY <2>1
  <2> DEFINE S    == Standing(s, batch)
             lost == Losers(S, KeysToCollapse(s, batch), last)
  <2>3. /\ stored' = Kept(s, batch)
        /\ retired' = retired \ Stale(s)
        /\ supersededBy' = [h \in Fact |-> IF h \in lost THEN Winner(S, KeyOf[h], last)
                                                      ELSE Released(s, batch, h)]
    BY <2>2 DEF IngestFacts
  <2>4. S \in SUBSET Fact /\ Kept(s, batch) \in SUBSET Fact /\ batch \cap stored = {}
    BY StandingFacts DEF Core
  <2>5. \A h \in lost : Winner(S, KeyOf[h], last) \in Fact
    BY <2>4, LosersHaveAWinner
  <2> HIDE DEF lost
  <2>6. g \in S /\ g \notin lost
    <3>1. g \in Kept(s, batch) /\ supersededBy'[g] = None /\ g \notin retired \ Stale(s)
      BY <2>3 DEF Active
    <3>2. g \notin lost
      BY <3>1, <2>3, <2>4, <2>5, FactConstants
    <3>3. Released(s, batch, g) = None
      BY <3>1, <3>2, <2>3, <2>4
    <3> QED  BY <3>1, <3>2, <3>3 DEF Standing
  <2>7. f \in S
    BY <2>3 DEF Active, Standing, Released
  <2>8. KeyOf[f] \in KeysToCollapse(s, batch)
    <3> SUFFICES ASSUME KeyOf[f] \notin KeysToCollapse(s, batch) PROVE FALSE
      OBVIOUS
    <3>1. g \notin batch \cup Orphans(s) /\ g \notin Independent
      BY DEF KeysToCollapse
    <3>2. g \in Active \ Independent
      BY <3>1, <2>6 DEF Standing, Kept, Released, Active
    <3> QED  BY <3>2 DEF Core, OneCurrentPerKey
  <2>9. f \in lost /\ Winner(S, KeyOf[f], last) = g
    <3>1. g = Winner(S, KeyOf[g], last)
      BY <2>6, <2>8 DEF lost, Losers
    <3> QED  BY <3>1, <2>7, <2>8 DEF lost, Losers
  <2>10. Beats(g, f, last[KeyOf[f]])
    BY <2>4, <2>9, LosersHaveAWinner DEF lost
  <2>11. CreatedAt[g] \in Nat /\ CreatedAt[f] \in Nat
    BY <2>4, <2>6, <2>7, FactConstants
  <2> QED  BY <2>10, <2>11 DEF Beats
<1>2. ASSUME Active' \subseteq Active
      PROVE  FALSE
  BY <1>2 DEF Core, OneCurrentPerKey
<1>3. CASE \E pred, succ \in Session :
             pred # succ /\ \E heir \in HeirChoices(succ) : CascadeFacts(pred, succ, heir)
  <2>1. PICK pred \in Session, succ \in Session :
          pred # succ /\ \E heir \in HeirChoices(succ) : CascadeFacts(pred, succ, heir)
    BY <1>3
  <2>2. PICK heir \in HeirChoices(succ) : CascadeFacts(pred, succ, heir)
    BY <2>1
  <2>3. /\ stored' = stored /\ retired' = retired
        /\ \A h \in Fact : supersededBy'[h] = None => supersededBy[h] = None
    BY <2>2 DEF CascadeFacts
  <2>4. Active' \subseteq Active
    BY <2>3 DEF Active, Core, FactTypeOK
  <2> QED  BY <2>4, <1>2
<1>4. CASE \E h \in Fact : Retire(h)
  <2>1. Active' \subseteq Active
    BY <1>4 DEF Active, Retire
  <2> QED  BY <2>1, <1>2
<1>5. CASE \E h \in Fact : UpsertEmbedding(h)
  <2>1. Active' \subseteq Active
    BY <1>5 DEF Active, UpsertEmbedding
  <2> QED  BY <2>1, <1>2
<1> QED  BY <1>1, <1>3, <1>4, <1>5 DEF FactNext

(* A session ingested late, or ingested again, never displaces a newer value *)
(* of a key, nor does one that is released win back a key from it.           *)
THEOREM OlderNeverDisplaces == FactSpec => CurrentNeverGetsOlder
<1>1. Inv /\ [FactNext]_factVars
        => [\A f \in Active \ Independent, g \in Active' \ Independent :
              f # g /\ KeyOf[f] = KeyOf[g] /\ f \in stored' \ retired'
                => CreatedAt[g] >= CreatedAt[f]]_factVars
  BY StepKeepsCurrentNewest DEF Inv
<1> QED  BY <1>1, FactStoreInvariant, PTL DEF FactSpec, CurrentNeverGetsOlder

(* Every step that ends a fact's currency takes its vector along: what leaves *)
(* Active leaves the index.                                                   *)
LEMMA StepLeavesNoGhost ==
  ASSUME Core, FactNext, NEW f \in Ghosts', f \notin Ghosts, f \in vectors
  PROVE  FALSE
<1>1. f \in Active /\ f \in stored /\ f \in Fact /\ supersededBy[f] = None /\ f \notin retired
  BY DEF Ghosts, Active, Core, FactTypeOK
<1>2. f \in vectors' /\ f \notin Active'
  BY DEF Ghosts
<1>3. ASSUME NEW s \in Session, NEW batch \in Batches(s), NEW last, IngestFacts(s, batch, last)
      PROVE  FALSE
  <2>1. f \in Kept(s, batch) /\ f \in stored' /\ f \notin retired'
    BY <1>1, <1>2, <1>3 DEF IngestFacts, Kept
  <2>2. Released(s, batch, f) = None
    BY <1>1 DEF Released
  <2>3. supersededBy'[f] = None
    BY <1>1, <1>2, <1>3, <2>2 DEF IngestFacts
  <2> QED  BY <1>2, <2>1, <2>3 DEF Active
<1>4. CASE \E s \in Session : \E batch \in Batches(s) :
             \E last \in LastOfBatch(batch) : IngestFacts(s, batch, last)
  BY <1>3, <1>4
<1>5. CASE \E pred, succ \in Session :
             pred # succ /\ \E heir \in HeirChoices(succ) : CascadeFacts(pred, succ, heir)
  BY <1>1, <1>2, <1>5 DEF CascadeFacts, Active
<1>6. CASE \E h \in Fact : Retire(h)
  BY <1>1, <1>2, <1>6 DEF Retire, Active
<1>7. CASE \E h \in Fact : UpsertEmbedding(h)
  BY <1>1, <1>2, <1>7 DEF UpsertEmbedding, Active
<1> QED  BY <1>4, <1>5, <1>6, <1>7 DEF FactNext

(* No transaction of the fact store turns a searchable vector into a ghost.   *)
THEOREM NoTransactionLeavesAGhost == FactSpec => TransactionsLeaveNoGhost
<1>1. Inv /\ [FactNext]_factVars
        => [\A f \in Ghosts' \ Ghosts : f \notin vectors]_factVars
  BY StepLeavesNoGhost DEF Inv
<1> QED  BY <1>1, FactStoreInvariant, PTL DEF FactSpec, TransactionsLeaveNoGhost
=============================================================================
