------------------------- MODULE SessionStore_proofs -------------------------
(***************************************************************************)
(* For any sessions, facts and keys: the invariants of SessionGraph, and   *)
(* the transactions of the store, which implement the graph and the fact   *)
(* tables, so that what is proved of each holds of the store, and the two  *)
(* halves agree.  As in FactStore_proofs a cycle is a non-empty set of     *)
(* sessions in which every one leads to another of the set.                *)
(***************************************************************************)
EXTENDS SessionStore, TLAPS

-----------------------------------------------------------------------------
(* The cycle guard.  If pred does not reach succ, there is a set closed      *)
(* under the edges with pred inside and succ outside.                        *)
LEMMA GuardSeparates ==
  ASSUME NEW pred \in Session, NEW succ \in Session, ~Reaches(edges, pred, succ)
  PROVE  \E C \in SUBSET Session : pred \in C /\ succ \notin C /\ ClosedUnder(edges, C)
BY DEF Reaches

(* A new edge that the guard lets through closes no cycle: the last session  *)
(* of what a cycle would have inside that set is a last session of the whole.*)
LEMMA GuardedEdgeClosesNoCycle ==
  ASSUME SupersedenceAcyclic, NEW pred \in Session, NEW succ \in Session,
         SupersedeSession(pred, succ)
  PROVE  SupersedenceAcyclic'
<1>1. PICK C \in SUBSET Session : pred \in C /\ succ \notin C /\ ClosedUnder(edges, C)
  BY GuardSeparates DEF SupersedeSession
<1>2. \A a, b \in Session : Leads(edges', a, b) => Leads(edges, a, b) \/ (a = succ /\ b = pred)
  BY DEF SupersedeSession, Leads, Kind
<1> SUFFICES ASSUME NEW S \in (SUBSET Session) \ {{}}
             PROVE  \E a \in S : \A b \in S : ~Leads(edges', a, b)
  BY DEF SupersedenceAcyclic, Leads
<1>3. CASE S \cap C # {}
  <2>1. PICK a \in S \cap C : \A b \in S \cap C : ~Leads(edges, a, b)
    BY <1>3 DEF SupersedenceAcyclic
  <2>2. ASSUME NEW b \in S, Leads(edges', a, b) PROVE FALSE
    <3>1. Leads(edges, a, b)
      BY <1>1, <1>2, <2>1, <2>2
    <3>2. b \in C
      BY <1>1, <2>1, <3>1 DEF ClosedUnder
    <3> QED  BY <2>1, <3>1, <3>2
  <2> QED  BY <2>1, <2>2
<1>4. CASE S \cap C = {}
  <2>1. PICK a \in S : \A b \in S : ~Leads(edges, a, b)
    BY DEF SupersedenceAcyclic
  <2>2. pred \notin S
    BY <1>1, <1>4
  <2> QED  BY <1>2, <2>1, <2>2
<1> QED  BY <1>3, <1>4

-----------------------------------------------------------------------------
(* The inductive invariant.  Only acyclicity needs that a replacing          *)
(* transcript brings an unused id.                                           *)
GraphInv ==
  /\ GraphTypeOK
  /\ EdgesJoinStoredSessions
  /\ StatusHasItsEdge
  /\ OneSuccessor
  /\ FreshReplacement => SupersedenceAcyclic

LEMMA UpsertKeepsGraphInv ==
  ASSUME GraphInv, NEW s \in Session, NEW prior \in Session \cup {None}, UpsertSession(s, prior)
  PROVE  GraphInv'
<1>1. prior # s /\ (prior # None => prior \in Session /\ Exists(prior))
  BY DEF UpsertSession
<1>2. /\ status' \in [Session -> Status]
      /\ status'[s] = "closed"
      /\ prior # None => status'[prior] = "replaced"
      /\ \A x \in Session \ {s, prior} : status'[x] = status[x]
  BY <1>1, NoneIsNoSession DEF UpsertSession, GraphInv, GraphTypeOK, Status
<1>3. /\ \A e \in edges : e \in edges'
      /\ prior # None => <<s, prior, "replaces">> \in edges'
      /\ \A e \in edges' \ edges : prior # None /\ e = <<s, prior, "replaces">>
  BY DEF UpsertSession
<1>4. GraphTypeOK'
  BY <1>1, <1>2, <1>3 DEF GraphInv, GraphTypeOK, Kind
<1>5. \A a, b \in Session : Leads(edges', a, b) => Leads(edges, a, b) \/ (a = s /\ b = prior)
  BY <1>3 DEF Leads
<1>6. ASSUME NEW x \in Session, Exists(x) PROVE Exists(x)'
  <2>1. CASE x = s
    BY <1>2, <2>1 DEF Exists
  <2>2. CASE x = prior
    BY <1>2, <2>2, NoneIsNoSession DEF Exists
  <2>3. CASE x \notin {s, prior}
    BY <1>2, <1>6, <2>3 DEF Exists
  <2> QED  BY <2>1, <2>2, <2>3
<1>7. EdgesJoinStoredSessions'
  <2> SUFFICES ASSUME NEW a \in Session, NEW b \in Session, Leads(edges', a, b)
               PROVE  a # b /\ Exists(a)' /\ Exists(b)'
    BY DEF EdgesJoinStoredSessions, Leads
  <2>1. CASE Leads(edges, a, b)
    BY <1>6, <2>1 DEF GraphInv, EdgesJoinStoredSessions
  <2>2. CASE a = s /\ b = prior
    BY <1>1, <1>2, <2>2, NoneIsNoSession DEF Exists
  <2> QED  BY <1>5, <2>1, <2>2
<1>8. StatusHasItsEdge'
  <2> SUFFICES ASSUME NEW b \in Session
               PROVE  /\ status'[b] = "superseded" => \E a \in Session : <<a, b, "supersedes">> \in edges'
                      /\ status'[b] = "replaced"   => \E a \in Session : <<a, b, "replaces">> \in edges'
    BY DEF StatusHasItsEdge
  <2>1. CASE b = s
    BY <1>2, <2>1
  <2>2. CASE b = prior
    BY <1>2, <1>3, <2>2, NoneIsNoSession
  <2>3. CASE b \notin {s, prior}
    BY <1>2, <1>3, <2>3 DEF GraphInv, StatusHasItsEdge
  <2> QED  BY <2>1, <2>2, <2>3
<1>9. OneSuccessor'
  BY <1>3 DEF GraphInv, OneSuccessor
<1>10. ASSUME FreshReplacement PROVE SupersedenceAcyclic'
  <2>1. CASE prior = None
    <3>1. \A a, b \in Session : Leads(edges', a, b) => Leads(edges, a, b)
      BY <1>5, <2>1, NoneIsNoSession
    <3> QED  BY <1>10, <3>1 DEF GraphInv, SupersedenceAcyclic, Leads
  <2>2. CASE prior # None
    <3>1. \A a \in Session : ~Leads(edges, a, s)
      BY <1>10, <2>2 DEF UpsertSession, GraphInv, EdgesJoinStoredSessions
    <3> SUFFICES ASSUME NEW S \in (SUBSET Session) \ {{}}
                 PROVE  \E a \in S : \A b \in S : ~Leads(edges', a, b)
      BY DEF SupersedenceAcyclic, Leads
    <3>2. CASE S \ {s} # {}
      <4>1. PICK a \in S \ {s} : \A b \in S \ {s} : ~Leads(edges, a, b)
        BY <1>10, <3>2 DEF GraphInv, SupersedenceAcyclic
      <4> QED  BY <1>5, <3>1, <4>1
    <3>3. CASE S \ {s} = {}
      BY <1>1, <1>5, <3>1, <3>3
    <3> QED  BY <3>2, <3>3
  <2> QED  BY <2>1, <2>2
<1> QED  BY <1>4, <1>7, <1>8, <1>9, <1>10 DEF GraphInv

LEMMA SupersedeKeepsGraphInv ==
  ASSUME GraphInv, NEW pred \in Session, NEW succ \in Session, SupersedeSession(pred, succ)
  PROVE  GraphInv'
<1>1. /\ status' \in [Session -> Status]
      /\ status'[pred] = "superseded"
      /\ \A x \in Session \ {pred} : status'[x] = status[x]
      /\ pred # succ /\ Exists(pred) /\ Exists(succ)
  BY DEF SupersedeSession, GraphInv, GraphTypeOK, Status
<1>2. /\ <<succ, pred, "supersedes">> \in edges'
      /\ \A e \in edges' : e \in edges \/ e = <<succ, pred, "supersedes">>
      /\ \A e \in edges : ~(e[2] = pred /\ e[3] = "supersedes") => e \in edges'
      /\ \A e \in edges' : e[2] = pred /\ e[3] = "supersedes" => e = <<succ, pred, "supersedes">>
  BY DEF SupersedeSession
<1>3. GraphTypeOK'
  BY <1>1, <1>2 DEF GraphInv, GraphTypeOK, Kind
<1>4. EdgesJoinStoredSessions'
  <2>1. \A x \in Session : Exists(x) => Exists(x)'
    BY <1>1 DEF Exists
  <2> SUFFICES ASSUME NEW a \in Session, NEW b \in Session, Leads(edges', a, b)
               PROVE  a # b /\ Exists(a)' /\ Exists(b)'
    BY DEF EdgesJoinStoredSessions, Leads
  <2>2. Leads(edges, a, b) \/ (a = succ /\ b = pred)
    BY <1>2 DEF Leads
  <2> QED  BY <1>1, <2>1, <2>2 DEF GraphInv, EdgesJoinStoredSessions
<1>5. StatusHasItsEdge'
  <2> SUFFICES ASSUME NEW b \in Session
               PROVE  /\ status'[b] = "superseded" => \E a \in Session : <<a, b, "supersedes">> \in edges'
                      /\ status'[b] = "replaced"   => \E a \in Session : <<a, b, "replaces">> \in edges'
    BY DEF StatusHasItsEdge
  <2>1. CASE b = pred
    BY <1>1, <1>2, <2>1
  <2>2. CASE b # pred
    <3>1. \A a \in Session, kind \in Kind : <<a, b, kind>> \in edges => <<a, b, kind>> \in edges'
      BY <1>2, <2>2
    <3> QED  BY <1>1, <2>2, <3>1 DEF GraphInv, StatusHasItsEdge, Kind
  <2> QED  BY <2>1, <2>2
<1>6. OneSuccessor'
  <2> SUFFICES ASSUME NEW a \in Session, NEW b \in Session, NEW c \in Session,
                      <<a, c, "supersedes">> \in edges', <<b, c, "supersedes">> \in edges'
               PROVE  a = b
    BY DEF OneSuccessor
  <2>1. CASE c = pred
    BY <1>2, <2>1
  <2>2. CASE c # pred
    BY <1>2, <2>2 DEF GraphInv, OneSuccessor
  <2> QED  BY <2>1, <2>2
<1>7. FreshReplacement => SupersedenceAcyclic'
  BY GuardedEdgeClosesNoCycle DEF GraphInv
<1> QED  BY <1>3, <1>4, <1>5, <1>6, <1>7 DEF GraphInv

(* The invariant holds in every state of the session graph.                  *)
THEOREM SessionGraphInvariant == GraphSpec => []GraphInv
<1>1. GraphInit => GraphInv
  BY DEF GraphInit, GraphInv, GraphTypeOK, Status, EdgesJoinStoredSessions, StatusHasItsEdge,
         OneSuccessor, SupersedenceAcyclic, Leads
<1>2. GraphInv /\ [GraphNext]_graphVars => GraphInv'
  <2> SUFFICES ASSUME GraphInv, [GraphNext]_graphVars PROVE GraphInv'
    OBVIOUS
  <2>1. CASE GraphNext
    BY <2>1, UpsertKeepsGraphInv, SupersedeKeepsGraphInv DEF GraphNext
  <2>2. CASE UNCHANGED graphVars
    BY <2>2 DEF graphVars, GraphInv, GraphTypeOK, EdgesJoinStoredSessions, StatusHasItsEdge,
                OneSuccessor, SupersedenceAcyclic, Leads, Exists
  <2> QED  BY <2>1, <2>2
<1> QED  BY <1>1, <1>2, PTL DEF GraphSpec

(* Type correctness of the session rows and edges.                           *)
THEOREM GraphTypesAreKept == GraphSpec => []GraphTypeOK
<1>1. GraphInv => GraphTypeOK
  BY DEF GraphInv
<1> QED  BY <1>1, SessionGraphInvariant, PTL

(* I3: corrections and renamed transcripts, in any order, never make the     *)
(* supersedence of sessions circular, if a renamed one brings an unused id.  *)
THEOREM SupersedenceIsAcyclic == GraphSpec => [](FreshReplacement => SupersedenceAcyclic)
<1>1. GraphInv => (FreshReplacement => SupersedenceAcyclic)
  BY DEF GraphInv
<1> QED  BY <1>1, SessionGraphInvariant, PTL

(* I2, I2r: a status superseded or replaced always has its edge.             *)
THEOREM StatusesHaveEdges == GraphSpec => []StatusHasItsEdge
<1>1. GraphInv => StatusHasItsEdge
  BY DEF GraphInv
<1> QED  BY <1>1, SessionGraphInvariant, PTL

(* I1, I4: an edge joins two different stored sessions.                      *)
THEOREM EdgesHaveBothEnds == GraphSpec => []EdgesJoinStoredSessions
<1>1. GraphInv => EdgesJoinStoredSessions
  BY DEF GraphInv
<1> QED  BY <1>1, SessionGraphInvariant, PTL

(* A session is corrected by one session at a time.                          *)
THEOREM CorrectionsAreUnique == GraphSpec => []OneSuccessor
<1>1. GraphInv => OneSuccessor
  BY DEF GraphInv
<1> QED  BY <1>1, SessionGraphInvariant, PTL

-----------------------------------------------------------------------------
(* The store: its transactions are the graph's and the fact tables'.         *)
LEMMA StepIsGraphStep ==
  ASSUME [StoreNext]_storeVars
  PROVE  [GraphNext]_graphVars
<1>1. ASSUME NEW s \in Session, NEW prior \in Session \cup {None}, InsertSession(s, prior)
      PROVE  GraphNext
  BY <1>1 DEF InsertSession, GraphNext
<1>2. ASSUME NEW pred \in Session, NEW succ \in Session, MarkSuperseded(pred, succ)
      PROVE  GraphNext
  BY <1>2 DEF MarkSuperseded, GraphNext
<1>3. ASSUME NEW s \in Session, InsertFactsForSession(s)
      PROVE  UNCHANGED graphVars
  BY <1>3 DEF InsertFactsForSession
<1>4. ASSUME NEW f \in Fact, RetireFact(f) \/ WriteVector(f)
      PROVE  UNCHANGED graphVars
  BY <1>4 DEF RetireFact, WriteVector
<1>5. CASE UNCHANGED storeVars
  BY <1>5 DEF storeVars
<1> QED  BY <1>1, <1>2, <1>3, <1>4, <1>5 DEF StoreNext

LEMMA StepIsFactStep ==
  ASSUME [StoreNext]_storeVars
  PROVE  [F!FactNext]_(F!factVars)
<1>1. ASSUME NEW s \in Session, NEW prior \in Session \cup {None}, InsertSession(s, prior)
      PROVE  F!FactNext
  BY <1>1 DEF InsertSession, F!FactNext
<1>2. ASSUME NEW pred \in Session, NEW succ \in Session, MarkSuperseded(pred, succ)
      PROVE  F!FactNext
  BY <1>2 DEF MarkSuperseded, SupersedeSession, F!FactNext
<1>3. ASSUME NEW s \in Session, InsertFactsForSession(s)
      PROVE  F!FactNext
  BY <1>3 DEF InsertFactsForSession, F!FactNext
<1>4. ASSUME NEW f \in Fact, RetireFact(f) \/ WriteVector(f)
      PROVE  F!FactNext
  BY <1>4 DEF RetireFact, WriteVector, F!FactNext
<1>5. CASE UNCHANGED storeVars
  BY <1>5 DEF storeVars
<1> QED  BY <1>1, <1>2, <1>3, <1>4, <1>5 DEF StoreNext

(* Seen by itself, the session half of every transaction is a step of the    *)
(* graph or none.                                                            *)
THEOREM StoreImplementsGraph == StoreSpec => ImplementsGraph
<1>1. StoreInit => GraphInit
  BY DEF StoreInit
<1>2. [StoreNext]_storeVars => [GraphNext]_graphVars
  BY StepIsGraphStep
<1> QED  BY <1>1, <1>2, PTL DEF StoreSpec, ImplementsGraph, GraphSpec

(* And the fact half a step of the fact tables or none.                      *)
THEOREM StoreImplementsFacts == StoreSpec => ImplementsFacts
<1>1. StoreInit => F!FactInit
  BY DEF StoreInit
<1>2. [StoreNext]_storeVars => [F!FactNext]_(F!factVars)
  BY StepIsFactStep
<1> QED  BY <1>1, <1>2, PTL DEF StoreSpec, ImplementsFacts, F!FactSpec

-----------------------------------------------------------------------------
(* What the graph promises holds of the store.                               *)
THEOREM StoreGraphTypes == StoreSpec => []GraphTypeOK
  BY StoreImplementsGraph, GraphTypesAreKept, PTL DEF ImplementsGraph

THEOREM StoreStatusHasItsEdge == StoreSpec => []StatusHasItsEdge
  BY StoreImplementsGraph, StatusesHaveEdges, PTL DEF ImplementsGraph

-----------------------------------------------------------------------------
(* A session that has a row keeps one.                                       *)
LEMMA RowsStay ==
  ASSUME GraphTypeOK, [GraphNext]_graphVars, NEW x \in Session, Exists(x)
  PROVE  Exists(x)'
<1>1. ASSUME NEW s \in Session, NEW prior \in Session \cup {None}, UpsertSession(s, prior)
      PROVE  Exists(x)'
  BY <1>1 DEF UpsertSession, Exists
<1>2. ASSUME NEW pred \in Session, NEW succ \in Session, SupersedeSession(pred, succ)
      PROVE  Exists(x)'
  BY <1>2 DEF SupersedeSession, Exists, GraphTypeOK
<1>3. CASE UNCHANGED graphVars
  BY <1>3 DEF graphVars, Exists
<1> QED  BY <1>1, <1>2, <1>3 DEF GraphNext

(* The winner of a collapse is at least as new as those that lose to it.     *)
P == INSTANCE FactStore_proofs

LEMMA SameConstants == P!FactConstants
  BY StoreConstants DEF P!FactConstants, F!FactConstants, P!IsFiniteSet, F!IsFiniteSet

LEMMA LoserIsOlder ==
  ASSUME NEW S \in SUBSET Fact, NEW K, NEW last, NEW f \in F!Losers(S, K, last)
  PROVE  /\ F!Winner(S, KeyOf[f], last) \in Fact
         /\ CreatedAt[F!Winner(S, KeyOf[f], last)] >= CreatedAt[f]
<1> DEFINE R == F!Rivals(S, KeyOf[f])
           i == last[KeyOf[f]]
<1>1. R \in SUBSET Fact /\ f \in R /\ f # F!Winner(S, KeyOf[f], last)
  BY DEF F!Losers, F!Rivals
<1>2. F!Newest(R, i) = P!Newest(R, i)
  <2> HIDE DEF R, i
  <2> QED  BY DEF F!Newest, P!Newest, F!Beats, P!Beats
<1>6. \A g, h \in Fact : P!Beats(g, h, i) => F!Beats(g, h, i)
  <2> HIDE DEF R, i
  <2> QED  BY DEF F!Beats, P!Beats
<1>3. /\ P!Newest(R, i) \in R
      /\ \A g \in R \ {P!Newest(R, i)} : P!Beats(P!Newest(R, i), g, i)
  <2> HIDE DEF R, i
  <2>1. R \in SUBSET Fact /\ R # {}
    BY <1>1
  <2> QED  BY <2>1, SameConstants, P!NewestExists
<1>4. F!Winner(S, KeyOf[f], last) = F!Newest(R, i)
  BY DEF F!Winner
<1> HIDE DEF R, i
<1>5. F!Newest(R, i) \in Fact /\ F!Beats(F!Newest(R, i), f, i)
  BY <1>1, <1>2, <1>3, <1>4, <1>6
<1> QED  BY <1>1, <1>4, <1>5, StoreConstants DEF F!Beats, F!FactConstants

(* Facts are known ones, and those that are pointed to as well.              *)
PointersOK == stored \subseteq Fact /\ supersededBy \in [Fact -> Fact \cup {None}]

(* What an ingest does: it stores facts of its own session, keeps pointers,  *)
(* drops them, or points a fact to a later one.                              *)
LEMMA IngestMoves ==
  ASSUME PointersOK, NEW s \in Session, NEW batch \in F!Batches(s),
         NEW last, F!IngestFacts(s, batch, last)
  PROVE  /\ PointersOK'
         /\ \A f \in stored' : f \in stored \/ SourceOf[f] = s
         /\ \A f \in Fact : \/ supersededBy'[f] \in {None, supersededBy[f]}
                           \/ CreatedAt[supersededBy'[f]] >= CreatedAt[f]
<1> DEFINE S == F!Standing(s, batch)
           lost == F!Losers(S, F!KeysToCollapse(s, batch), last)
<1>1. /\ stored' = F!Kept(s, batch)
      /\ supersededBy' = [f \in Fact |-> IF f \in lost THEN F!Winner(S, KeyOf[f], last)
                                                    ELSE F!Released(s, batch, f)]
  BY DEF F!IngestFacts
<1>2. S \in SUBSET Fact /\ F!Kept(s, batch) \in SUBSET Fact
  BY DEF PointersOK, F!Standing, F!Kept, F!Batches, F!FactsOf, F!Stale
<1>3. \A f \in stored' : f \in stored \/ SourceOf[f] = s
  BY <1>1 DEF F!Kept, F!Batches, F!FactsOf
<1>4. \A f \in Fact : F!Released(s, batch, f) \in {None, supersededBy[f]}
  BY DEF F!Released
<1>5. ASSUME NEW f \in lost
      PROVE  /\ F!Winner(S, KeyOf[f], last) \in Fact
             /\ CreatedAt[F!Winner(S, KeyOf[f], last)] >= CreatedAt[f]
  <2> HIDE DEF S
  <2>1. f \in F!Losers(S, F!KeysToCollapse(s, batch), last)
    OBVIOUS
  <2> HIDE DEF lost
  <2>2. f \in Fact
    BY <1>2, <2>1 DEF F!Losers
  <2> QED  BY <1>2, <2>1, <2>2, LoserIsOlder
<1> HIDE DEF lost, S
<1>6. PointersOK'
  BY <1>1, <1>2, <1>4, <1>5 DEF PointersOK
<1> QED  BY <1>1, <1>3, <1>4, <1>5, <1>6

(* What a correction does: it points facts of the corrected session only.    *)
LEMMA CascadeMoves ==
  ASSUME PointersOK, NEW pred \in Session, NEW succ \in Session,
         NEW heir \in F!HeirChoices(succ), F!CascadeFacts(pred, succ, heir)
  PROVE  /\ PointersOK' /\ stored' = stored
         /\ \A f \in Fact : supersededBy'[f] = supersededBy[f] \/ SourceOf[f] = pred
<1> DEFINE moved == {f \in stored \cap F!FactsOf(pred) : heir[KeyOf[f]] # None}
<1>1. /\ stored' = stored
      /\ supersededBy' = [f \in Fact |-> IF f \in moved THEN heir[KeyOf[f]] ELSE supersededBy[f]]
  BY DEF F!CascadeFacts
<1>2. \A f \in moved : SourceOf[f] = pred /\ heir[KeyOf[f]] \in Fact
  <2>1. heir \in [Key -> stored \cup {None}]
    BY DEF F!HeirChoices
  <2> QED  BY <2>1, StoreConstants DEF PointersOK, F!FactsOf, F!FactConstants
<1> HIDE DEF moved
<1> QED  BY <1>1, <1>2 DEF PointersOK

(* Redirecting a correction takes the edge of the earlier one, but gives the *)
(* session another.                                                          *)
Corrected(x) == \E succ \in Session : <<succ, x, "supersedes">> \in edges

LEMMA CorrectedStays ==
  ASSUME [GraphNext]_graphVars, NEW x \in Session, Corrected(x)
  PROVE  Corrected(x)'
<1>1. ASSUME NEW s \in Session, NEW prior \in Session \cup {None}, UpsertSession(s, prior)
      PROVE  Corrected(x)'
  BY <1>1 DEF UpsertSession, Corrected
<1>2. ASSUME NEW pred \in Session, NEW succ \in Session, SupersedeSession(pred, succ)
      PROVE  Corrected(x)'
  BY <1>2 DEF SupersedeSession, Corrected
<1>3. CASE UNCHANGED graphVars
  BY <1>3 DEF graphVars, Corrected
<1> QED  BY <1>1, <1>2, <1>3 DEF GraphNext

-----------------------------------------------------------------------------
(* The two halves agree: whose facts are stored, and whose facts give way to *)
(* older ones.                                                               *)
StoreInv ==
  /\ GraphTypeOK /\ PointersOK /\ FactsHaveSessions
  /\ \A f \in Fact : supersededBy[f] # None /\ CreatedAt[supersededBy[f]] < CreatedAt[f]
                       => Corrected(SourceOf[f])

LEMMA StoreStepKeepsInv ==
  ASSUME StoreInv, GraphTypeOK', [StoreNext]_storeVars
  PROVE  StoreInv'
<1> USE DEF StoreInv
<1>1. \A f \in Fact : SourceOf[f] \in Session /\ CreatedAt[f] \in Nat
  BY StoreConstants DEF F!FactConstants
<1>2. [GraphNext]_graphVars
  BY StepIsGraphStep
<1>3. /\ \A x \in Session : Exists(x) => Exists(x)'
      /\ \A x \in Session : Corrected(x) => Corrected(x)'
  BY <1>2, RowsStay, CorrectedStays
<1>4. ASSUME NEW s \in Session, Exists(s)', NEW batch \in F!Batches(s),
             NEW last, F!IngestFacts(s, batch, last)
      PROVE  StoreInv'
  <2>1. /\ PointersOK'
        /\ \A f \in stored' : f \in stored \/ SourceOf[f] = s
        /\ \A f \in Fact : \/ supersededBy'[f] \in {None, supersededBy[f]}
                          \/ CreatedAt[supersededBy'[f]] >= CreatedAt[f]
    BY <1>4, IngestMoves
  <2>2. FactsHaveSessions'
    BY <1>1, <1>3, <1>4, <2>1 DEF FactsHaveSessions, PointersOK
  <2>3. ASSUME NEW f \in Fact, supersededBy'[f] # None,
               CreatedAt[supersededBy'[f]] < CreatedAt[f]
        PROVE  Corrected(SourceOf[f])'
    <3>1. supersededBy'[f] \in Fact
      BY <2>1, <2>3 DEF PointersOK
    <3>2. supersededBy'[f] = supersededBy[f]
      BY <1>1, <2>1, <2>3, <3>1
    <3> QED  BY <1>1, <1>3, <2>3, <3>2
  <2> QED  BY <2>1, <2>2, <2>3
<1>5. ASSUME NEW s \in Session, NEW prior \in Session \cup {None}, InsertSession(s, prior)
      PROVE  StoreInv'
  <2>1. Exists(s)'
    BY <1>5 DEF InsertSession, UpsertSession, Exists
  <2> QED  BY <1>4, <1>5, <2>1 DEF InsertSession
<1>6. ASSUME NEW s \in Session, InsertFactsForSession(s)
      PROVE  StoreInv'
  <2>1. Exists(s)'
    BY <1>3, <1>6 DEF InsertFactsForSession
  <2> QED  BY <1>4, <1>6, <2>1 DEF InsertFactsForSession
<1>7. ASSUME NEW pred \in Session, NEW succ \in Session, MarkSuperseded(pred, succ)
      PROVE  StoreInv'
  <2>1. PICK heir \in F!HeirChoices(succ) : F!CascadeFacts(pred, succ, heir)
    BY <1>7 DEF MarkSuperseded
  <2>2. /\ PointersOK' /\ stored' = stored
        /\ \A f \in Fact : supersededBy'[f] = supersededBy[f] \/ SourceOf[f] = pred
    BY <2>1, CascadeMoves
  <2>3. Corrected(pred)'
    BY <1>7 DEF MarkSuperseded, SupersedeSession, Corrected
  <2>4. FactsHaveSessions'
    BY <1>1, <1>3, <2>2 DEF FactsHaveSessions, PointersOK
  <2> QED  BY <1>1, <1>3, <2>2, <2>3, <2>4
<1>8. ASSUME UNCHANGED <<stored, supersededBy>>
      PROVE  StoreInv'
  BY <1>1, <1>3, <1>8 DEF PointersOK, FactsHaveSessions
<1>9. ASSUME NEW f \in Fact, RetireFact(f) \/ WriteVector(f)
      PROVE  UNCHANGED <<stored, supersededBy>>
  BY <1>9 DEF RetireFact, WriteVector, F!Retire, F!UpsertEmbedding
<1>10. CASE UNCHANGED storeVars
  BY <1>8, <1>10 DEF storeVars, F!factVars
<1> QED  BY <1>5, <1>6, <1>7, <1>8, <1>9, <1>10 DEF StoreNext

LEMMA StoreInvariant == StoreSpec => []StoreInv
<1>1. StoreInit /\ GraphTypeOK => StoreInv
  BY DEF StoreInit, F!FactInit, StoreInv, PointersOK, FactsHaveSessions
<1>2. StoreInv /\ GraphTypeOK' /\ [StoreNext]_storeVars => StoreInv'
  BY StoreStepKeepsInv
<1> QED  BY <1>1, <1>2, StoreGraphTypes, PTL DEF StoreSpec

(* No transaction leaves a fact without its session, though facts and rows   *)
(* are written by three different operations.                                *)
THEOREM FactsBelongToSessions == StoreSpec => []FactsHaveSessions
<1>1. StoreInv => FactsHaveSessions
  BY DEF StoreInv
<1> QED  BY <1>1, StoreInvariant, PTL

(* Ingest in any order puts later facts over earlier ones only; the other    *)
(* way round there is a correction on record.                                *)
THEOREM OlderNeedsACorrection == StoreSpec => []OlderWinsOnlyByCorrection
<1>1. StoreInv => OlderWinsOnlyByCorrection
  BY DEF StoreInv, PointersOK, OlderWinsOnlyByCorrection, Corrected
<1> QED  BY <1>1, StoreInvariant, PTL
=============================================================================
