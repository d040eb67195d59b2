------------------------ MODULE PgFactIngest_proofs ------------------------
(***************************************************************************)
(* On Postgres the facts of a session are those of one ingest and no       *)
(* successor dangles, whatever connections ingest and correct at once, and *)
(* whichever of them fail.  That a key has one current value is a theorem  *)
(* for one connection only: two break it (the run PgFactIngestRace).       *)
(***************************************************************************)
EXTENDS PgFactIngest, FactStore_proofs

(* A transaction by itself.  An ingest deletes all that is on file of its    *)
(* session, at the moment of the DELETE and still when it commits; a         *)
(* correction neither deletes nor inserts facts.                             *)
Shape(x) ==
  /\ x.step = "idle" => x = Idle
  /\ x.step \in {"release", "replace"} => x.edge = {}
  /\ x.step = "correct" => x.edge # {}
  /\ x.step \notin {"collapse", "mark"} => x.gone = {} /\ Targets(x.points) \subseteq {None}
  /\ x.edge # {} => x.batch = {} /\ x.gone = {}
  /\ x.edge = {} /\ x.step # "idle" => x.session \in Session /\ x.batch \subseteq FactsOf(x.session)
  /\ x.edge = {} /\ x.step \in {"collapse", "mark"} => x.gone = Stale(x.session)

Sees(x) == (stored \ x.gone) \cup (IF x.step \in {"collapse", "mark"} THEN x.batch ELSE {})

(* Where its pointers lead, those it wrote and those it only reads.          *)
Leads(x) ==
  /\ Targets(x.points) \subseteq Sees(x) \cup {None}
  /\ \A f \in stored \ x.gone : f \notin DOMAIN x.points => supersededBy[f] \notin x.gone

(* Two transactions: the session lock, and the foreign key's row locks.      *)
Apart(x, y) ==
  /\ x.session = y.session => x.session = NoSession
  /\ x.gone \cap Targets(y.points) = {}

PgInv ==
  /\ PgTypeOK /\ OneGeneration /\ NoDanglingSuccessor
  /\ \A t \in Conn : Shape(txn[t]) /\ Leads(txn[t])
  /\ \A t, u \in Conn : t # u => Apart(txn[t], txn[u])

-----------------------------------------------------------------------------
(* The idle transaction is harmless.                                         *)
LEMMA IdleIsTyped ==
  /\ Idle \in Txns
  /\ Idle.step = "idle" /\ Idle.session = NoSession /\ Idle.batch = {} /\ Idle.gone = {}
  /\ Idle.edge = {} /\ DOMAIN Idle.points = {} /\ Idle.points = [f \in {} |-> None]
  /\ Idle.marks = [f \in {} |-> None] /\ Targets(Idle.points) = {}
<1> DEFINE e == [f \in {} |-> None]
<1>1. /\ e \in [{} -> Fact \cup {None}] /\ e \in [{} -> Fact] /\ {} \in SUBSET Fact
  OBVIOUS
<1>2. /\ e \in UNION {[S -> Fact \cup {None}] : S \in SUBSET Fact}
      /\ e \in UNION {[S -> Fact] : S \in SUBSET Fact}
  BY <1>1
<1>3. DOMAIN e = {} /\ Targets(e) = {}
  BY DEF Targets
<1> HIDE DEF e
<1>4. Idle = [step |-> "idle", session |-> NoSession, batch |-> {}, last |-> [k \in Key |-> None],
              points |-> e, gone |-> {}, unindexed |-> {},
              edge |-> {}, cut |-> {}, fresh |-> {}, owed |-> {}, marks |-> e]
  BY DEF Idle, e
<1>5. Idle \in Txns
  BY <1>2, <1>4 DEF Txns
<1> QED  BY <1>3, <1>4, <1>5 DEF e

LEMMA IdleIsSound ==
  ASSUME PgTypeOK
  PROVE  /\ Shape(Idle) /\ Leads(Idle)
         /\ \A x \in Txns : Apart(Idle, x)
         /\ \A x \in Txns : Apart(x, Idle)
BY IdleIsTyped DEF Shape, Leads, Apart

(* What a transaction refers to are facts.                                   *)
LEMMA PointsAreFacts ==
  ASSUME NEW x \in Txns
  PROVE  /\ Targets(x.points) \subseteq Fact \cup {None}
         /\ DOMAIN x.points \subseteq Fact
         /\ DOMAIN x.marks \subseteq Fact
         /\ \A f \in DOMAIN x.marks : x.marks[f] \in Fact
         /\ \A f \in DOMAIN x.points : x.points[f] \in Fact \cup {None}
<1>1. PICK S \in SUBSET Fact : x.points \in [S -> Fact \cup {None}]
  BY DEF Txns
<1>2. PICK R \in SUBSET Fact : x.marks \in [R -> Fact]
  BY DEF Txns
<1> QED  BY <1>1, <1>2 DEF Targets

(* A step of one transaction that leaves the committed rows alone.           *)
LEMMA OneMoves ==
  ASSUME PgInv, NEW t \in Conn, NEW y \in Txns, txn' = [txn EXCEPT ![t] = y],
         UNCHANGED <<factVars, corrections, generation>>,
         Shape(y), Leads(y),
         \A u \in Conn \ {t} : Apart(y, txn[u]) /\ Apart(txn[u], y)
  PROVE  PgInv'
<1>1. /\ stored' = stored /\ supersededBy' = supersededBy /\ retired' = retired /\ vectors' = vectors
      /\ corrections' = corrections /\ generation' = generation
  BY DEF factVars
<1>2. txn \in [Conn -> Txns]
  BY DEF PgInv, PgTypeOK
<1>3. /\ txn' \in [Conn -> Txns] /\ txn'[t] = y
      /\ \A u \in Conn \ {t} : txn'[u] = txn[u]
  BY <1>2
<1>4. PgTypeOK'
  BY <1>1, <1>3 DEF PgInv, PgTypeOK, FactTypeOK
<1>5. OneGeneration' /\ NoDanglingSuccessor'
  BY <1>1 DEF PgInv, OneGeneration, NoDanglingSuccessor
<1>6. ASSUME NEW u \in Conn PROVE (Shape(txn[u]) /\ Leads(txn[u]))'
  <2>1. CASE u = t
    BY <1>1, <1>3, <2>1 DEF Shape, Leads, Sees, Stale
  <2>2. CASE u # t
    BY <1>1, <1>3, <2>2 DEF PgInv, Shape, Leads, Sees, Stale
  <2> QED  BY <2>1, <2>2
<1>7. ASSUME NEW u \in Conn, NEW v \in Conn, u # v PROVE Apart(txn[u], txn[v])'
  BY <1>3, <1>7 DEF PgInv, Apart
<1> QED  BY <1>4, <1>5, <1>6, <1>7 DEF PgInv

-----------------------------------------------------------------------------
(* The statements, one by one.                                               *)
LEMMA BeginIngestKeeps ==
  ASSUME PgInv, NEW t \in Conn, NEW s \in Session, BeginIngest(t, s)
  PROVE  PgInv'
<1>1. PICK batch \in Batches(s) : \E last \in LastOfBatch(batch) :
        txn' = [txn EXCEPT ![t] = [Idle EXCEPT !.step = "release", !.session = s,
                                               !.batch = batch, !.last = last]]
  BY DEF BeginIngest
<1>2. PICK last \in LastOfBatch(batch) :
        txn' = [txn EXCEPT ![t] = [Idle EXCEPT !.step = "release", !.session = s,
                                               !.batch = batch, !.last = last]]
  BY <1>1
<1> DEFINE y == [Idle EXCEPT !.step = "release", !.session = s, !.batch = batch, !.last = last]
<1>3. /\ batch \in SUBSET Fact /\ batch \subseteq FactsOf(s)
      /\ last \in [Key -> Fact \cup {None}]
  BY DEF Batches, FactsOf, LastOfBatch
<1>4. y \in Txns
  BY <1>3, IdleIsTyped DEF Txns
<1>5. /\ y.step = "release" /\ y.session = s /\ y.batch = batch /\ y.gone = {} /\ y.edge = {}
      /\ y.points = Idle.points
  BY IdleIsTyped DEF Idle
<1> HIDE DEF y
<1>6. Shape(y) /\ Leads(y)
  BY <1>3, <1>5, IdleIsTyped DEF Shape, Leads
<1>7. ASSUME NEW u \in Conn \ {t} PROVE Apart(y, txn[u]) /\ Apart(txn[u], y)
  BY <1>5, IdleIsTyped DEF Apart, BeginIngest, SessionIsFree
<1> QED  BY <1>2, <1>4, <1>6, <1>7, OneMoves DEF y, BeginIngest

LEMMA ReleaseKeeps ==
  ASSUME PgInv, NEW t \in Conn, ReleaseOrphans(t)
  PROVE  PgInv'
<1> DEFINE x == txn[t]
           orphans == Orphans(x.session)
           keys == {KeyOf[f] : f \in orphans \ Independent}
           y == [x EXCEPT !.step = "replace", !.points = [f \in orphans |-> None], !.owed = keys]
<1>1. /\ x \in Txns /\ txn \in [Conn -> Txns] /\ x.step = "release" /\ Shape(x) /\ Leads(x)
      /\ orphans \in SUBSET Fact
  BY DEF PgInv, PgTypeOK, FactTypeOK, ReleaseOrphans, Orphans, Stale
<1>2. /\ [f \in orphans |-> None] \in UNION {[S -> Fact \cup {None}] : S \in SUBSET Fact}
      /\ keys \in SUBSET Key
  <2>1. [f \in orphans |-> None] \in [orphans -> Fact \cup {None}]
    OBVIOUS
  <2>2. keys \in SUBSET Key
    BY <1>1, FactConstants
  <2> QED  BY <1>1, <2>1, <2>2
<1>3. Targets([f \in orphans |-> None]) \subseteq {None}
  BY DEF Targets
<1>4. txn' = [txn EXCEPT ![t] = y]
  BY <1>1 DEF ReleaseOrphans
<1> HIDE DEF orphans, keys
<1>5. y \in Txns
  BY <1>1, <1>2 DEF Txns
<1>6. /\ y.step = "replace" /\ y.session = x.session /\ y.batch = x.batch /\ y.gone = x.gone
      /\ y.edge = x.edge /\ y.points = [f \in orphans |-> None]
  BY <1>1 DEF Txns
<1> HIDE DEF y
<1>7. Shape(y) /\ Leads(y)
  BY <1>1, <1>3, <1>6 DEF Shape, Leads
<1>8. ASSUME NEW u \in Conn \ {t} PROVE Apart(y, txn[u]) /\ Apart(txn[u], y)
  <2>1. Apart(x, txn[u]) /\ Apart(txn[u], x) /\ txn[u] \in Txns
    BY <1>1 DEF PgInv
  <2>2. None \notin txn[u].gone
    BY <2>1, FactConstants DEF Txns
  <2> QED  BY <1>3, <1>6, <2>1, <2>2 DEF Apart
<1> QED  BY <1>4, <1>5, <1>7, <1>8, OneMoves DEF ReleaseOrphans

LEMMA ReplaceKeeps ==
  ASSUME PgInv, NEW t \in Conn, ReplaceFacts(t)
  PROVE  PgInv'
<1> DEFINE x == txn[t]
           stale == Stale(x.session)
           freed == Freed(t, stale)
           p == [f \in freed \cup DOMAIN x.points |-> IF f \in freed THEN None ELSE x.points[f]]
           keys == {KeyOf[f] : f \in x.batch \ Independent}
           y == [x EXCEPT !.step = "collapse", !.gone = stale, !.points = p, !.fresh = keys]
<1>1. /\ x \in Txns /\ txn \in [Conn -> Txns] /\ x.step = "replace" /\ Shape(x) /\ Leads(x)
      /\ freed \in SUBSET Fact /\ stale \in SUBSET Fact /\ stale \subseteq stored
  BY DEF PgInv, PgTypeOK, FactTypeOK, ReplaceFacts, Freed, Stale
<1>2. /\ Targets(x.points) \subseteq {None} /\ x.edge = {} /\ DOMAIN x.points \in SUBSET Fact
      /\ x.session \in Session /\ x.batch \subseteq FactsOf(x.session)
  BY <1>1, PointsAreFacts DEF Shape
<1>3. Targets(p) \subseteq {None} /\ DOMAIN p = freed \cup DOMAIN x.points
  BY <1>2 DEF Targets
<1>4. p \in UNION {[S -> Fact \cup {None}] : S \in SUBSET Fact} /\ keys \in SUBSET Key
  <2>1. p \in [freed \cup DOMAIN x.points -> Fact \cup {None}]
    BY <1>1, PointsAreFacts
  <2>2. keys \in SUBSET Key
    BY <1>1, FactConstants DEF Txns
  <2> QED  BY <1>1, <1>2, <2>1, <2>2
<1>5. txn' = [txn EXCEPT ![t] = y]
  BY <1>1 DEF ReplaceFacts
<1>6. \A f \in stored \ stale : f \notin DOMAIN p => supersededBy[f] \notin stale
  BY <1>3 DEF Freed, Pointer
<1>7. \A u \in Conn \ {t} : stale \cap Targets(txn[u].points) = {}
  BY DEF ReplaceFacts, CanDelete
<1> HIDE DEF stale, freed, p, keys
<1>8. y \in Txns
  BY <1>1, <1>4 DEF Txns
<1>9. /\ y.step = "collapse" /\ y.session = x.session /\ y.batch = x.batch /\ y.gone = stale
      /\ y.edge = x.edge /\ y.points = p
  BY <1>1 DEF Txns
<1> HIDE DEF y
<1>10. Shape(y)
  BY <1>2, <1>9 DEF Shape, stale
<1>11. Leads(y)
  BY <1>3, <1>6, <1>9 DEF Leads
<1>12. ASSUME NEW u \in Conn \ {t} PROVE Apart(y, txn[u]) /\ Apart(txn[u], y)
  <2>1. Apart(x, txn[u]) /\ Apart(txn[u], x) /\ txn[u] \in Txns
    BY <1>1 DEF PgInv
  <2>2. None \notin txn[u].gone
    BY <2>1, FactConstants DEF Txns
  <2> QED  BY <1>3, <1>7, <1>9, <2>1, <2>2 DEF Apart
<1> QED  BY <1>5, <1>8, <1>10, <1>11, <1>12, OneMoves DEF ReplaceFacts

(* A step that leaves alone what the other statements look at.               *)
LEMMA SameView ==
  ASSUME PgInv, NEW t \in Conn, NEW y \in Txns, txn' = [txn EXCEPT ![t] = y],
         UNCHANGED <<factVars, corrections, generation>>,
         txn[t].step = "collapse", y.step \in {"collapse", "mark"},
         y.session = txn[t].session, y.batch = txn[t].batch, y.gone = txn[t].gone,
         y.edge = txn[t].edge, y.points = txn[t].points
  PROVE  PgInv'
<1>1. Shape(y) /\ Leads(y)
  BY DEF PgInv, Shape, Leads, Sees
<1>2. \A u \in Conn \ {t} : Apart(y, txn[u]) /\ Apart(txn[u], y)
  BY DEF PgInv, Apart
<1> QED  BY <1>1, <1>2, OneMoves

LEMMA SelectKeyKeeps ==
  ASSUME PgInv, NEW t \in Conn, NEW k \in Key, SelectKey(t, k)
  PROVE  PgInv'
<1> DEFINE x == txn[t]
           isFresh == k \in x.fresh
           rivals == Rivals(Seen(t), k)
           incoming == IF isFresh THEN x.last[k] ELSE None
           winner == Newest(rivals, incoming)
           few == Cardinality(rivals) < 2
           owed == IF isFresh THEN x.owed ELSE x.owed \ {k}
           step == IF few THEN "collapse" ELSE "mark"
           marks == IF few THEN x.marks ELSE [f \in rivals \ {winner} |-> winner]
           y == [x EXCEPT !.fresh = x.fresh \ {k}, !.owed = owed, !.step = step, !.marks = marks]
<1>1. x \in Txns /\ txn \in [Conn -> Txns] /\ x.step = "collapse"
  BY DEF PgInv, PgTypeOK, SelectKey
<1>2. rivals \in SUBSET Fact
  BY <1>1 DEF Rivals, Seen, Rows, PgInv, PgTypeOK, FactTypeOK, Txns
<1>3. ~few => winner \in Fact
  <2>1. SUFFICES ASSUME rivals # {} PROVE winner \in Fact
    BY FS_EmptySet
  <2> HIDE DEF rivals, incoming
  <2> QED  BY <1>2, <2>1, NewestExists
<1>4. txn' = [txn EXCEPT ![t] = y]
  BY <1>1 DEF SelectKey
<1> HIDE DEF winner, rivals, few, isFresh, incoming
<1>5. marks \in UNION {[S -> Fact] : S \in SUBSET Fact}
  <2>1. CASE few
    BY <1>1, <2>1 DEF Txns
  <2>2. CASE ~few
    <3>1. marks \in [rivals \ {winner} -> Fact] /\ rivals \ {winner} \in SUBSET Fact
      BY <1>2, <1>3, <2>2
    <3> QED  BY <3>1
  <2> QED  BY <2>1, <2>2
<1>6. owed \in SUBSET Key /\ x.fresh \ {k} \in SUBSET Key /\ step \in {"collapse", "mark"}
  BY <1>1 DEF Txns
<1> HIDE DEF owed, step, marks
<1>7. y \in Txns
  BY <1>1, <1>5, <1>6 DEF Txns
<1>8. /\ y.step = step /\ y.session = x.session /\ y.batch = x.batch /\ y.gone = x.gone
      /\ y.edge = x.edge /\ y.points = x.points
  BY <1>1 DEF Txns
<1> HIDE DEF y
<1> QED  BY <1>1, <1>4, <1>6, <1>7, <1>8, SameView DEF SelectKey

LEMMA BeginCorrectionKeeps ==
  ASSUME PgInv, NEW t \in Conn, NEW pred \in Session, NEW succ \in Session,
         BeginCorrection(t, pred, succ)
  PROVE  PgInv'
<1> DEFINE edge == {<<succ, pred>>}
           cut == {e \in corrections : e[2] = pred /\ e[1] # succ}
           y == [Idle EXCEPT !.step = "correct", !.edge = edge, !.cut = cut]
<1>1. txn' = [txn EXCEPT ![t] = y]
  BY DEF BeginCorrection
<1>2. edge \in SUBSET (Session \X Session) /\ cut \in SUBSET (Session \X Session) /\ edge # {}
  BY DEF PgInv, PgTypeOK
<1> HIDE DEF edge, cut
<1>3. y \in Txns
  BY <1>2, IdleIsTyped DEF Txns
<1>4. /\ y.step = "correct" /\ y.session = NoSession /\ y.batch = {} /\ y.gone = {} /\ y.edge = edge
      /\ y.points = Idle.points
  BY IdleIsTyped DEF Idle
<1> HIDE DEF y
<1>5. Shape(y) /\ Leads(y)
  BY <1>2, <1>4, IdleIsTyped DEF Shape, Leads
<1>6. \A u \in Conn \ {t} : Apart(y, txn[u]) /\ Apart(txn[u], y)
  BY <1>4, IdleIsTyped DEF Apart
<1> QED  BY <1>1, <1>3, <1>5, <1>6, OneMoves DEF BeginCorrection

LEMMA SelectHeirsKeeps ==
  ASSUME PgInv, NEW t \in Conn, SelectHeirs(t)
  PROVE  PgInv'
<1> DEFINE x == txn[t]
           moved(pred, heir) == {f \in stored \cap FactsOf(pred) : heir[KeyOf[f]] # None}
<1>1. PICK pred, succ \in Session : \E heir \in HeirChoices(succ) :
        /\ x.step = "correct" /\ x.edge = {<<succ, pred>>} /\ SessionIsFree(pred)
        /\ txn' = [txn EXCEPT ![t].step = IF moved(pred, heir) = {} THEN "collapse" ELSE "mark",
                              ![t].session = pred,
                              ![t].marks = [f \in moved(pred, heir) |-> heir[KeyOf[f]]]]
        /\ UNCHANGED <<factVars, corrections, generation>>
  BY DEF SelectHeirs
<1>2. PICK heir \in HeirChoices(succ) :
        /\ x.step = "correct" /\ x.edge = {<<succ, pred>>} /\ SessionIsFree(pred)
        /\ txn' = [txn EXCEPT ![t].step = IF moved(pred, heir) = {} THEN "collapse" ELSE "mark",
                              ![t].session = pred,
                              ![t].marks = [f \in moved(pred, heir) |-> heir[KeyOf[f]]]]
        /\ UNCHANGED <<factVars, corrections, generation>>
  BY <1>1
<1> DEFINE step == IF moved(pred, heir) = {} THEN "collapse" ELSE "mark"
           marks == [f \in moved(pred, heir) |-> heir[KeyOf[f]]]
           y == [x EXCEPT !.step = step, !.session = pred, !.marks = marks]
<1>3. x \in Txns /\ txn \in [Conn -> Txns] /\ Shape(x) /\ stored \in SUBSET Fact
  BY DEF PgInv, PgTypeOK, FactTypeOK
<1>4. txn' = [txn EXCEPT ![t] = y]
  BY <1>2, <1>3
<1>5. marks \in UNION {[S -> Fact] : S \in SUBSET Fact}
  <2>1. heir \in [Key -> (stored \cap FactsOf(succ)) \cup {None}]
    BY DEF HeirChoices
  <2>2. moved(pred, heir) \in SUBSET Fact
    BY <1>3
  <2>3. ASSUME NEW f \in moved(pred, heir) PROVE heir[KeyOf[f]] \in Fact
    BY <1>3, <2>1, <2>2, <2>3, FactConstants
  <2>4. marks \in [moved(pred, heir) -> Fact]
    BY <2>3
  <2> QED  BY <2>2, <2>4
<1>6. step \in {"collapse", "mark"}
  OBVIOUS
<1> HIDE DEF step, marks, moved
<1>7. y \in Txns
  BY <1>3, <1>5, <1>6 DEF Txns
<1>8. /\ y.step = step /\ y.session = pred /\ y.batch = x.batch /\ y.gone = x.gone
      /\ y.edge = x.edge /\ y.points = x.points
  BY <1>3 DEF Txns
<1> HIDE DEF y
<1>9. x.edge # {} /\ x.batch = {} /\ x.gone = {} /\ Targets(x.points) \subseteq {None}
  BY <1>2, <1>3 DEF Shape
<1>10. Shape(y) /\ Leads(y)
  BY <1>6, <1>8, <1>9 DEF Shape, Leads
<1>11. ASSUME NEW u \in Conn \ {t} PROVE Apart(y, txn[u]) /\ Apart(txn[u], y)
  <2>1. Apart(txn[u], x) /\ Apart(x, txn[u])
    BY DEF PgInv
  <2>2. txn[u].session # pred
    BY <1>2 DEF SessionIsFree
  <2> QED  BY <1>8, <2>1, <2>2 DEF Apart
<1> QED  BY <1>2, <1>4, <1>7, <1>10, <1>11, OneMoves

LEMMA MarkKeeps ==
  ASSUME PgInv, NEW t \in Conn, MarkLosers(t)
  PROVE  PgInv'
<1> DEFINE x == txn[t]
           losers == DOMAIN x.marks \cap Rows(t)
           winners == {x.marks[f] : f \in losers}
           p == [f \in losers \cup DOMAIN x.points |-> IF f \in losers THEN x.marks[f] ELSE x.points[f]]
           unindexed == x.unindexed \cup (losers \cap vectors)
           y == [x EXCEPT !.step = "collapse", !.marks = Idle.marks, !.points = p, !.unindexed = unindexed]
<1>1. /\ x \in Txns /\ txn \in [Conn -> Txns] /\ x.step = "mark" /\ Shape(x) /\ Leads(x)
      /\ stored \in SUBSET Fact /\ vectors \in SUBSET Fact
  BY DEF PgInv, PgTypeOK, FactTypeOK, MarkLosers
<1>2. winners \subseteq Rows(t) /\ \A u \in Conn \ {t} : winners \cap txn[u].gone = {}
  BY DEF MarkLosers, CanReference
<1>3. losers \in SUBSET Fact /\ DOMAIN x.points \in SUBSET Fact
  BY <1>1, PointsAreFacts
<1>4. p \in UNION {[S -> Fact \cup {None}] : S \in SUBSET Fact}
  <2>1. p \in [losers \cup DOMAIN x.points -> Fact \cup {None}]
    BY <1>1, <1>3, PointsAreFacts
  <2> QED  BY <1>3, <2>1
<1>5. /\ DOMAIN p = losers \cup DOMAIN x.points
      /\ Targets(p) \subseteq winners \cup Targets(x.points)
  BY DEF Targets
<1>6. txn' = [txn EXCEPT ![t] = y]
  BY <1>1 DEF MarkLosers
<1>7. unindexed \in SUBSET Fact
  BY <1>1 DEF Txns
<1>8. Rows(t) = Sees(x)
  BY DEF Rows, Sees
<1> HIDE DEF losers, winners, p, unindexed
<1>9. y \in Txns
  BY <1>1, <1>4, <1>7, IdleIsTyped DEF Txns
<1>10. /\ y.step = "collapse" /\ y.session = x.session /\ y.batch = x.batch /\ y.gone = x.gone
       /\ y.edge = x.edge /\ y.points = p
  BY <1>1 DEF Txns
<1> HIDE DEF y
<1>11. Sees(y) = Sees(x)
  BY <1>1, <1>10 DEF Sees
<1>12. Shape(y)
  BY <1>1, <1>10 DEF Shape
<1>13. Leads(y)
  BY <1>1, <1>2, <1>5, <1>8, <1>10, <1>11 DEF Leads
<1>14. ASSUME NEW u \in Conn \ {t} PROVE Apart(y, txn[u]) /\ Apart(txn[u], y)
  <2>1. Apart(txn[u], x) /\ Apart(x, txn[u])
    BY DEF PgInv
  <2> QED  BY <1>2, <1>5, <1>10, <2>1 DEF Apart
<1> QED  BY <1>6, <1>9, <1>12, <1>13, <1>14, OneMoves DEF MarkLosers

LEMMA AbortKeeps ==
  ASSUME PgInv, NEW t \in Conn, Abort(t)
  PROVE  PgInv'
<1>1. Idle \in Txns /\ Shape(Idle) /\ Leads(Idle)
  BY IdleIsTyped, IdleIsSound DEF PgInv
<1>2. \A u \in Conn \ {t} : Apart(Idle, txn[u]) /\ Apart(txn[u], Idle)
  BY IdleIsSound DEF PgInv, PgTypeOK
<1> QED  BY <1>1, <1>2, OneMoves DEF Abort

-----------------------------------------------------------------------------
(* What commits is what the transaction sees; the others go on seeing sound  *)
(* rows, because each of them works on another session, deletes nothing this *)
(* one refers to and refers to nothing this one deletes.                     *)
LEMMA CommitKeeps ==
  ASSUME PgInv, NEW t \in Conn, Commit(t)
  PROVE  PgInv'
<1> DEFINE x == txn[t]
<1>1. /\ x \in Txns /\ txn \in [Conn -> Txns] /\ x.step = "collapse" /\ Shape(x) /\ Leads(x)
      /\ stored \in SUBSET Fact /\ vectors \in SUBSET Fact /\ retired \subseteq stored
      /\ supersededBy \in [Fact -> Fact \cup {None}]
      /\ corrections \in SUBSET (Session \X Session) /\ generation \in [Session -> SUBSET Fact]
  BY DEF PgInv, PgTypeOK, FactTypeOK, Commit
<1>2. x.gone \in SUBSET Fact /\ x.batch \in SUBSET Fact /\ x.edge \in SUBSET (Session \X Session)
  BY <1>1 DEF Txns
<1>3. stored' = (stored \ x.gone) \cup x.batch
  BY <1>1 DEF Commit, Rows
<1>4. supersededBy' = [f \in Fact |-> IF f \in x.gone \cup (x.batch \ DOMAIN x.points) THEN None
                                      ELSE IF f \in DOMAIN x.points THEN x.points[f]
                                      ELSE supersededBy[f]]
  BY DEF Commit, Pointer
<1>5. /\ txn' \in [Conn -> Txns] /\ txn'[t] = Idle
      /\ \A u \in Conn \ {t} : txn'[u] = txn[u]
  BY <1>1, IdleIsTyped DEF Commit
<1>6. PgTypeOK'
  <2>1. stored' \subseteq Fact /\ retired' \subseteq stored' /\ vectors' \subseteq Fact
    BY <1>1, <1>2, <1>3 DEF Commit
  <2>2. supersededBy' \in [Fact -> Fact \cup {None}]
    BY <1>1, <1>4, PointsAreFacts
  <2>3. corrections' \subseteq Session \X Session /\ generation' \in [Session -> SUBSET Fact]
    BY <1>1, <1>2 DEF Commit
  <2> QED  BY <1>5, <2>1, <2>2, <2>3 DEF PgTypeOK, FactTypeOK
<1>7. (* the facts of which sessions change *)
      \/ x.edge # {} /\ stored' = stored
      \/ /\ x.edge = {} /\ x.session \in Session /\ stored' \cap FactsOf(x.session) = x.batch
         /\ \A s \in Session \ {x.session} : stored' \cap FactsOf(s) = stored \cap FactsOf(s)
  BY <1>1, <1>3 DEF Shape, Stale, FactsOf
<1>8. OneGeneration'
  <2>1. CASE x.edge # {} /\ stored' = stored
    <3>1. generation' = generation
      BY <1>1, <2>1 DEF Commit
    <3> QED  BY <2>1, <3>1 DEF PgInv, OneGeneration
  <2>2. CASE /\ x.edge = {} /\ x.session \in Session /\ stored' \cap FactsOf(x.session) = x.batch
             /\ \A s \in Session \ {x.session} : stored' \cap FactsOf(s) = stored \cap FactsOf(s)
    BY <2>2 DEF PgInv, OneGeneration, Commit
  <2> QED  BY <1>7, <2>1, <2>2
<1>9. NoDanglingSuccessor'
  <2>1. SUFFICES ASSUME NEW f \in stored', supersededBy'[f] # None PROVE supersededBy'[f] \in stored'
    BY DEF NoDanglingSuccessor
  <2>2. f \in Fact
    BY <1>1, <1>2, <1>3
  <2>3. CASE f \in DOMAIN x.points
    <3>1. supersededBy'[f] = x.points[f] /\ x.points[f] \in Targets(x.points)
      BY <1>4, <2>1, <2>2, <2>3 DEF Targets
    <3> QED  BY <1>1, <1>3, <2>1, <3>1 DEF Leads, Sees
  <2>4. CASE f \notin DOMAIN x.points
    <3>1. f \in stored \ x.gone /\ supersededBy'[f] = supersededBy[f]
      BY <1>3, <1>4, <2>1, <2>2, <2>4
    <3> QED  BY <1>1, <1>3, <2>1, <2>4, <3>1 DEF PgInv, NoDanglingSuccessor, Leads
  <2> QED  BY <2>3, <2>4
<1>10. ASSUME NEW u \in Conn, u # t PROVE Shape(txn[u])' /\ Leads(txn[u])'
  <2> DEFINE z == txn[u]
  <2>1. /\ z \in Txns /\ Shape(z) /\ Leads(z) /\ Apart(x, z) /\ Apart(z, x) /\ txn'[u] = z
    BY <1>1, <1>5, <1>10 DEF PgInv
  <2>2. z.gone \in SUBSET Fact /\ None \notin z.gone
    BY <2>1, FactConstants DEF Txns
  <2> HIDE DEF z
  <2>3. z.session \in Session => stored' \cap FactsOf(z.session) = Stale(z.session)
    <3>1. x.session \in Session /\ x.session = z.session => FALSE
      BY <2>1, PgConstants DEF Apart
    <3> QED  BY <1>7, <3>1 DEF Stale
  <2>4. Shape(txn[u])'
    BY <2>1, <2>3 DEF Shape, Stale
  <2>5. Targets(z.points) \subseteq (stored' \ z.gone) \cup (IF z.step \in {"collapse", "mark"} THEN z.batch ELSE {})
                                 \cup {None}
    BY <1>3, <2>1 DEF Leads, Sees, Apart
  <2>6. ASSUME NEW f \in stored' \ z.gone, f \notin DOMAIN z.points PROVE supersededBy'[f] \notin z.gone
    <3>1. f \in Fact
      BY <1>1, <1>2, <1>3
    <3>2. CASE f \in DOMAIN x.points
      <4>1. supersededBy'[f] = None \/ supersededBy'[f] \in Targets(x.points)
        BY <1>4, <3>1, <3>2 DEF Targets
      <4> QED  BY <2>1, <2>2, <4>1 DEF Apart
    <3>3. CASE f \notin DOMAIN x.points
      <4>1. \/ supersededBy'[f] = None
            \/ supersededBy'[f] = supersededBy[f] /\ f \in stored \ z.gone
        BY <1>3, <1>4, <2>6, <3>1, <3>3
      <4> QED  BY <2>1, <2>2, <2>6, <4>1 DEF Leads
    <3> QED  BY <3>2, <3>3
  <2>7. Leads(txn[u])'
    BY <2>1, <2>5, <2>6 DEF Leads, Sees
  <2> QED  BY <2>4, <2>7
<1>11. Shape(txn[t])' /\ Leads(txn[t])'
  <2>1. Shape(txn[t])'
    BY <1>5, IdleIsTyped DEF Shape
  <2>2. Leads(txn[t])'
    BY <1>5, IdleIsTyped DEF Leads
  <2> QED  BY <2>1, <2>2
<1>12. ASSUME NEW u \in Conn, NEW v \in Conn, u # v PROVE Apart(txn[u], txn[v])'
  <2>1. txn[u] \in Txns /\ txn[v] \in Txns /\ Apart(txn[u], txn[v])
    BY <1>1, <1>12 DEF PgInv
  <2> QED  BY <1>5, <1>12, <2>1, IdleIsTyped DEF Apart
<1> QED  BY <1>6, <1>8, <1>9, <1>10, <1>11, <1>12 DEF PgInv

LEMMA RetireFactKeeps ==
  ASSUME PgInv, NEW f \in Fact, RetireFact(f) \/ EmbedFact(f)
  PROVE  PgInv'
<1>1. /\ stored' = stored /\ supersededBy' = supersededBy /\ txn' = txn
      /\ corrections' = corrections /\ generation' = generation
      /\ retired' \subseteq retired \cup {f} /\ f \in stored /\ vectors' \subseteq vectors \cup {f}
  BY DEF RetireFact, Retire, EmbedFact, UpsertEmbedding
<1>2. PgTypeOK' /\ OneGeneration' /\ NoDanglingSuccessor'
  BY <1>1 DEF PgInv, PgTypeOK, FactTypeOK, OneGeneration, NoDanglingSuccessor
<1>3. ASSUME NEW t \in Conn PROVE (Shape(txn[t]) /\ Leads(txn[t]))'
  BY <1>1 DEF PgInv, Shape, Leads, Sees, Stale
<1>4. ASSUME NEW t \in Conn, NEW u \in Conn, t # u PROVE Apart(txn[t], txn[u])'
  BY <1>1, <1>4 DEF PgInv, Apart
<1> QED  BY <1>2, <1>3, <1>4 DEF PgInv

LEMMA PgStepKeeps ==
  ASSUME PgInv, [PgNext]_pgVars
  PROVE  PgInv'
<1>1. CASE UNCHANGED pgVars
  <2>1. /\ stored' = stored /\ supersededBy' = supersededBy /\ retired' = retired /\ vectors' = vectors
        /\ txn' = txn /\ corrections' = corrections /\ generation' = generation
    BY <1>1 DEF pgVars, factVars
  <2>2. PgTypeOK' /\ OneGeneration' /\ NoDanglingSuccessor'
    BY <2>1 DEF PgInv, PgTypeOK, FactTypeOK, OneGeneration, NoDanglingSuccessor
  <2>3. ASSUME NEW t \in Conn PROVE (Shape(txn[t]) /\ Leads(txn[t]))'
    BY <2>1 DEF PgInv, Shape, Leads, Sees, Stale
  <2>4. ASSUME NEW t \in Conn, NEW u \in Conn, t # u PROVE Apart(txn[t], txn[u])'
    BY <2>1, <2>4 DEF PgInv, Apart
  <2> QED  BY <2>2, <2>3, <2>4 DEF PgInv
<1>2. CASE PgNext
  BY <1>2, BeginIngestKeeps, ReleaseKeeps, ReplaceKeeps, SelectKeyKeeps, BeginCorrectionKeeps,
     SelectHeirsKeeps, MarkKeeps, CommitKeeps, AbortKeeps, RetireFactKeeps
     DEF PgNext
<1> QED  BY <1>1, <1>2

LEMMA PgInitIsSound == PgInit => PgInv
<1> SUFFICES ASSUME PgInit PROVE PgInv
  OBVIOUS
<1>1. PgTypeOK
  BY IdleIsTyped DEF PgInit, PgTypeOK, FactInit, FactTypeOK
<1>2. OneGeneration /\ NoDanglingSuccessor
  BY DEF PgInit, FactInit, OneGeneration, NoDanglingSuccessor
<1>3. \A t \in Conn : Shape(txn[t]) /\ Leads(txn[t])
  BY <1>1, IdleIsSound DEF PgInit
<1>4. \A t, u \in Conn : Apart(txn[t], txn[u])
  BY <1>1, IdleIsSound, IdleIsTyped DEF PgInit
<1> QED  BY <1>1, <1>2, <1>3, <1>4 DEF PgInv

-----------------------------------------------------------------------------
LEMMA PgInvariant == PgSpec => []PgInv
BY PgInitIsSound, PgStepKeeps, PTL DEF PgSpec

(* Every statement leaves rows and open transactions of their types: a       *)
(* collapse that marks has a winner, and deletes never name a row twice.     *)
THEOREM PostgresIsTyped == PgSpec => []PgTypeOK
<1>1. PgInv => PgTypeOK
  BY DEF PgInv
<1> QED  BY <1>1, PgInvariant, PTL

(* However many connections ingest a session, whatever they interleave and   *)
(* whichever abort, the facts on file of it are those of its last committed  *)
(* ingest.                                                                   *)
THEOREM OneIngestPerSession == PgSpec => []OneGeneration
<1>1. PgInv => OneGeneration
  BY DEF PgInv
<1> QED  BY <1>1, PgInvariant, PTL

(* No committed fact is superseded by a row that is not there, although the  *)
(* successor is written by one connection and deleted by another.            *)
THEOREM PostgresSuccessorsAreStored == PgSpec => []NoDanglingSuccessor
<1>1. PgInv => NoDanglingSuccessor
  BY DEF PgInv
<1> QED  BY <1>1, PgInvariant, PTL

-----------------------------------------------------------------------------
(* With one connection a key has one current value, on Postgres too.  What a *)
(* collapse of that connection still has to look at are the keys in fresh    *)
(* and owed; of any other key it leaves one value, once it has marked.       *)
LoneConnection == \A t, u \in Conn : t = u

LeftBy(t) == Seen(t) \ (IF txn[t].step = "mark" THEN DOMAIN txn[t].marks ELSE {})

OneLeft(t) ==
  \A f, g \in LeftBy(t) \ Independent :
     KeyOf[f] = KeyOf[g] /\ KeyOf[f] \notin txn[t].fresh \cup txn[t].owed => f = g

OneValueSoFar(t) ==
  LET x == txn[t]
  IN  /\ x.batch \cap stored = {} /\ DOMAIN x.points \subseteq stored \cup x.batch
      /\ x.step = "correct" => DOMAIN x.points = {} /\ x.fresh = {} /\ x.owed = {}
      /\ x.step = "replace" => /\ DOMAIN x.points = Orphans(x.session)
                               /\ x.owed = {KeyOf[f] : f \in Orphans(x.session) \ Independent}
      /\ x.step \in {"collapse", "mark"} => OneLeft(t)

LoneInv ==
  /\ OneCurrentPerKey
  /\ \A f \in Fact \ stored : supersededBy[f] = None
  /\ \A t \in Conn : OneValueSoFar(t)

LEMMA LoneMoves ==
  ASSUME LoneInv, LoneConnection, NEW t \in Conn, UNCHANGED factVars, OneValueSoFar(t)'
  PROVE  LoneInv'
<1>1. /\ stored' = stored /\ supersededBy' = supersededBy /\ retired' = retired
  BY DEF factVars
<1>2. OneCurrentPerKey' /\ (\A f \in Fact \ stored : supersededBy[f] = None)'
  BY <1>1 DEF LoneInv, OneCurrentPerKey, Active
<1>3. \A u \in Conn : u = t
  BY DEF LoneConnection
<1> QED  BY <1>2, <1>3 DEF LoneInv

LEMMA LoneBegins ==
  ASSUME PgInv, LoneInv, LoneConnection, NEW t \in Conn,
         \/ \E s \in Session : BeginIngest(t, s)
         \/ \E pred, succ \in Session : BeginCorrection(t, pred, succ)
         \/ Abort(t)
  PROVE  LoneInv'
<1>1. /\ txn \in [Conn -> Txns] /\ stored' = stored /\ UNCHANGED factVars
  BY DEF PgInv, PgTypeOK, BeginIngest, BeginCorrection, Abort, factVars
<1>2. CASE \E s \in Session : BeginIngest(t, s)
  <2>1. PICK s \in Session : BeginIngest(t, s)
    BY <1>2
  <2>2. PICK batch \in Batches(s) : \E last \in LastOfBatch(batch) :
          txn' = [txn EXCEPT ![t] = [Idle EXCEPT !.step = "release", !.session = s,
                                                 !.batch = batch, !.last = last]]
    BY <2>1 DEF BeginIngest
  <2>3. txn'[t].step = "release" /\ txn'[t].batch = batch /\ DOMAIN txn'[t].points = {}
    BY <1>1, <2>2 DEF Idle
  <2>4. batch \cap stored = {}
    BY DEF Batches
  <2>5. OneValueSoFar(t)'
    BY <1>1, <2>3, <2>4 DEF OneValueSoFar
  <2> QED  BY <1>1, <2>5, LoneMoves
<1>3. CASE \E pred, succ \in Session : BeginCorrection(t, pred, succ)
  <2>1. PICK pred, succ \in Session :
          txn' = [txn EXCEPT ![t] = [Idle EXCEPT !.step = "correct", !.edge = {<<succ, pred>>},
                             !.cut = {e \in corrections : e[2] = pred /\ e[1] # succ}]]
    BY <1>3 DEF BeginCorrection
  <2>2. /\ txn'[t].step = "correct" /\ txn'[t].batch = {} /\ txn'[t].points = Idle.points
        /\ txn'[t].fresh = {} /\ txn'[t].owed = {}
    BY <1>1, <2>1 DEF Idle
  <2>3. OneValueSoFar(t)'
    BY <1>1, <2>2, IdleIsTyped DEF OneValueSoFar
  <2> QED  BY <1>1, <2>3, LoneMoves
<1>4. CASE Abort(t)
  <2>1. txn'[t].step = "idle" /\ txn'[t].batch = {} /\ DOMAIN txn'[t].points = {}
    BY <1>1, <1>4, IdleIsTyped DEF Abort
  <2>2. OneValueSoFar(t)'
    BY <1>1, <2>1 DEF OneValueSoFar
  <2> QED  BY <1>1, <2>2, LoneMoves
<1> QED  BY <1>2, <1>3, <1>4

LEMMA LoneReleases ==
  ASSUME PgInv, LoneInv, LoneConnection, NEW t \in Conn, ReleaseOrphans(t)
  PROVE  LoneInv'
<1> DEFINE x == txn[t]
           orphans == Orphans(x.session)
           keys == {KeyOf[f] : f \in orphans \ Independent}
           y == [x EXCEPT !.step = "replace", !.points = [f \in orphans |-> None], !.owed = keys]
<1>1. x \in Txns /\ txn \in [Conn -> Txns] /\ stored' = stored /\ supersededBy' = supersededBy
      /\ UNCHANGED factVars
  BY DEF PgInv, PgTypeOK, ReleaseOrphans, factVars
<1>2. txn'[t] = y
  BY <1>1 DEF ReleaseOrphans
<1> HIDE DEF orphans, keys
<1>3. /\ y.step = "replace" /\ y.session = x.session /\ y.batch = x.batch
      /\ y.points = [f \in orphans |-> None] /\ y.owed = keys
  BY <1>1 DEF Txns
<1> HIDE DEF y
<1>4. /\ orphans \subseteq stored'
      /\ orphans = {f \in stored' \ (stored' \cap FactsOf(x.session)) :
                      supersededBy'[f] \in stored' \cap FactsOf(x.session)}
      /\ keys = {KeyOf[f] : f \in orphans \ Independent}
  BY <1>1 DEF orphans, keys, Orphans, Stale
<1>5. OneValueSoFar(t)'
  BY <1>1, <1>2, <1>3, <1>4 DEF LoneInv, OneValueSoFar, Orphans, Stale
<1> QED  BY <1>1, <1>5, LoneMoves

LEMMA LoneReplaces ==
  ASSUME PgInv, LoneInv, LoneConnection, NEW t \in Conn, ReplaceFacts(t)
  PROVE  LoneInv'
<1> DEFINE x == txn[t]
           stale == Stale(x.session)
           freed == Freed(t, stale)
           p == [f \in freed \cup DOMAIN x.points |-> IF f \in freed THEN None ELSE x.points[f]]
           keys == {KeyOf[f] : f \in x.batch \ Independent}
           y == [x EXCEPT !.step = "collapse", !.gone = stale, !.points = p, !.fresh = keys]
<1>1. /\ x \in Txns /\ txn \in [Conn -> Txns] /\ x.step = "replace" /\ Shape(x)
      /\ stored' = stored /\ supersededBy' = supersededBy /\ retired' = retired /\ UNCHANGED factVars
      /\ stale \in SUBSET Fact /\ None \notin stale
  BY FactConstants DEF PgInv, PgTypeOK, FactTypeOK, ReplaceFacts, factVars, Stale, FactsOf
<1>2. /\ OneValueSoFar(t) /\ OneCurrentPerKey /\ \A f \in Fact \ stored : supersededBy[f] = None
  BY DEF LoneInv
<1>3. /\ DOMAIN x.points = Orphans(x.session) /\ x.batch \cap stored = {}
      /\ Orphans(x.session) \subseteq stored
      /\ x.owed = {KeyOf[f] : f \in Orphans(x.session) \ Independent}
  BY <1>1, <1>2 DEF OneValueSoFar, Orphans
<1>4. \A f \in DOMAIN x.points : x.points[f] = None
  BY <1>1 DEF Shape, Targets
<1>5. (* nothing has come to point here since the release *)
      freed = {}
  BY <1>1, <1>3, <1>4 DEF Freed, Pointer, Orphans
<1>6. DOMAIN p = Orphans(x.session)
  BY <1>3, <1>5
<1>7. txn' = [txn EXCEPT ![t] = y]
  BY <1>1 DEF ReplaceFacts
<1> HIDE DEF stale, p, keys
<1>8. /\ y.step = "collapse" /\ y.batch = x.batch /\ y.gone = stale /\ y.points = p
      /\ y.fresh = keys /\ y.owed = x.owed
  BY <1>1 DEF Txns
<1>9. txn'[t] = y
  BY <1>1, <1>7
<1> HIDE DEF y
<1>10. ASSUME NEW f \in Seen(t)' \ Independent, KeyOf[f] \notin keys \cup x.owed
       PROVE  f \in Active \ Independent
  <2>1. f \in (stored \ stale) \cup x.batch /\ f \notin retired /\ f \notin x.batch
    BY <1>1, <1>8, <1>9, <1>10 DEF Seen, Rows, keys
  <2>2. f \notin Orphans(x.session)
    BY <1>3, <1>10
  <2>3. supersededBy[f] = None
    BY <1>1, <1>6, <1>8, <1>9, <1>10, <2>2 DEF Seen, Pointer
  <2> QED  BY <1>10, <2>1, <2>3 DEF Active
<1>11. OneValueSoFar(t)'
  BY <1>1, <1>2, <1>3, <1>6, <1>8, <1>9, <1>10 DEF OneValueSoFar, OneLeft, LeftBy, OneCurrentPerKey
<1> QED  BY <1>1, <1>11, LoneMoves

LEMMA LoneSelects ==
  ASSUME PgInv, LoneInv, LoneConnection, NEW t \in Conn, NEW k \in Key, SelectKey(t, k)
  PROVE  LoneInv'
<1> DEFINE x == txn[t]
           isFresh == k \in x.fresh
           rivals == Rivals(Seen(t), k)
           incoming == IF isFresh THEN x.last[k] ELSE None
           winner == Newest(rivals, incoming)
           few == Cardinality(rivals) < 2
           owed == IF isFresh THEN x.owed ELSE x.owed \ {k}
           step == IF few THEN "collapse" ELSE "mark"
           marks == IF few THEN x.marks ELSE [f \in rivals \ {winner} |-> winner]
           y == [x EXCEPT !.fresh = x.fresh \ {k}, !.owed = owed, !.step = step, !.marks = marks]
<1>1. /\ x \in Txns /\ txn \in [Conn -> Txns] /\ x.step = "collapse" /\ Shape(x)
      /\ stored' = stored /\ supersededBy' = supersededBy /\ retired' = retired /\ UNCHANGED factVars
  BY DEF PgInv, PgTypeOK, SelectKey, factVars
<1>2. /\ OneLeft(t) /\ x.batch \cap stored = {} /\ LeftBy(t) = Seen(t)
      /\ DOMAIN x.points \subseteq stored \cup x.batch
  BY <1>1 DEF LoneInv, OneValueSoFar, LeftBy
<1>3. rivals \in SUBSET Fact
  BY <1>1 DEF Rivals, Seen, Rows, PgInv, PgTypeOK, FactTypeOK, Txns
<1>4. few => \A f, g \in rivals : f = g
  <2>1. IsFiniteSet(rivals)
    BY <1>3, FactConstants, FS_Subset
  <2>2. SUFFICES ASSUME few, NEW f \in rivals, NEW g \in rivals, f # g PROVE FALSE
    OBVIOUS
  <2> HIDE DEF rivals
  <2>3. {f, g} \subseteq rivals /\ Cardinality({f, g}) <= Cardinality(rivals)
    BY <2>1, FS_Subset
  <2>4. Cardinality({f, g}) = 2
    <3>1. IsFiniteSet({f}) /\ Cardinality({f}) = 1 /\ g \notin {f} /\ {f} \cup {g} = {f, g}
      BY <2>2, FS_Singleton
    <3>2. Cardinality({f} \cup {g}) = Cardinality({f}) + 1
      BY <3>1, FS_AddElement
    <3> QED  BY <3>1, <3>2
  <2>5. Cardinality(rivals) \in Nat
    BY <2>1, FS_CardinalityType
  <2> QED  BY <2>2, <2>3, <2>4, <2>5
<1>5. txn'[t] = y
  BY <1>1 DEF SelectKey
<1> HIDE DEF winner, few, isFresh, incoming, owed, step, marks
<1>6. /\ y.step = step /\ y.batch = x.batch /\ y.gone = x.gone /\ y.points = x.points
      /\ y.fresh = x.fresh \ {k} /\ y.owed = owed /\ y.marks = marks
  BY <1>1 DEF Txns
<1>7. owed \in {x.owed, x.owed \ {k}}
  BY DEF owed
<1> HIDE DEF y
<1>8. Seen(t)' = Seen(t)
  <2>1. Rows(t)' = Rows(t)
    BY <1>1, <1>5, <1>6 DEF Rows, step
  <2>2. \A f : Pointer(t, f)' = Pointer(t, f)
    BY <1>1, <1>5, <1>6 DEF Pointer
  <2> QED  BY <1>1, <2>1, <2>2 DEF Seen
<1>9. LeftBy(t)' \subseteq Seen(t)
  BY <1>8 DEF LeftBy
<1>10. \A f, g \in LeftBy(t)' : KeyOf[f] = k /\ KeyOf[g] = k => f = g
  <2>1. CASE few
    BY <1>4, <1>9, <2>1 DEF Rivals
  <2>2. CASE ~few
    <3>1. LeftBy(t)' = Seen(t) \ (rivals \ {winner})
      BY <1>5, <1>6, <1>8, <2>2 DEF LeftBy, step, marks
    <3> QED  BY <3>1 DEF Rivals
  <2> QED  BY <2>1, <2>2
<1>11. OneLeft(t)'
  <2>1. SUFFICES ASSUME NEW f \in LeftBy(t)' \ Independent, NEW g \in LeftBy(t)' \ Independent,
                        KeyOf[f] = KeyOf[g], KeyOf[f] \notin (x.fresh \ {k}) \cup owed
                 PROVE  f = g
    BY <1>5, <1>6 DEF OneLeft
  <2>2. CASE KeyOf[f] = k
    BY <1>10, <2>1, <2>2
  <2>3. CASE KeyOf[f] # k
    <3>1. KeyOf[f] \notin x.fresh \cup x.owed
      BY <1>7, <2>1, <2>3
    <3> QED  BY <1>2, <1>9, <2>1, <3>1 DEF OneLeft
  <2> QED  BY <2>2, <2>3
<1>12. OneValueSoFar(t)'
  BY <1>1, <1>2, <1>5, <1>6, <1>11 DEF OneValueSoFar, step
<1> QED  BY <1>1, <1>12, LoneMoves

LEMMA LoneSelectsHeirs ==
  ASSUME PgInv, LoneInv, LoneConnection, NEW t \in Conn, SelectHeirs(t)
  PROVE  LoneInv'
<1> DEFINE x == txn[t]
           moved(pred, heir) == {f \in stored \cap FactsOf(pred) : heir[KeyOf[f]] # None}
<1>1. /\ x \in Txns /\ txn \in [Conn -> Txns] /\ x.step = "correct" /\ Shape(x)
      /\ stored' = stored /\ supersededBy' = supersededBy /\ retired' = retired /\ UNCHANGED factVars
  BY DEF PgInv, PgTypeOK, SelectHeirs, factVars
<1>2. PICK pred, succ \in Session : \E heir \in HeirChoices(succ) :
        /\ x.step = "correct" /\ x.edge = {<<succ, pred>>} /\ SessionIsFree(pred)
        /\ txn' = [txn EXCEPT ![t].step = IF moved(pred, heir) = {} THEN "collapse" ELSE "mark",
                              ![t].session = pred,
                              ![t].marks = [f \in moved(pred, heir) |-> heir[KeyOf[f]]]]
        /\ UNCHANGED <<factVars, corrections, generation>>
  BY DEF SelectHeirs
<1>3. PICK heir \in HeirChoices(succ) :
        txn' = [txn EXCEPT ![t].step = IF moved(pred, heir) = {} THEN "collapse" ELSE "mark",
                           ![t].session = pred,
                           ![t].marks = [f \in moved(pred, heir) |-> heir[KeyOf[f]]]]
  BY <1>2
<1> DEFINE step == IF moved(pred, heir) = {} THEN "collapse" ELSE "mark"
           marks == [f \in moved(pred, heir) |-> heir[KeyOf[f]]]
           y == [x EXCEPT !.step = step, !.session = pred, !.marks = marks]
<1>4. txn'[t] = y /\ step \in {"collapse", "mark"}
  BY <1>1, <1>3
<1> HIDE DEF step, marks, moved
<1>5. /\ y.step = step /\ y.batch = x.batch /\ y.gone = x.gone /\ y.points = x.points
      /\ y.fresh = x.fresh /\ y.owed = x.owed
  BY <1>1 DEF Txns
<1>6. /\ DOMAIN x.points = {} /\ x.fresh = {} /\ x.owed = {} /\ x.batch = {}
  BY <1>1 DEF LoneInv, OneValueSoFar, Shape
<1> HIDE DEF y
<1>7. Seen(t)' \subseteq Active
  BY <1>1, <1>4, <1>5, <1>6 DEF Seen, Rows, Pointer, Active
<1>8. OneLeft(t)'
  BY <1>7 DEF LoneInv, OneCurrentPerKey, OneLeft, LeftBy
<1>9. OneValueSoFar(t)'
  BY <1>4, <1>5, <1>6, <1>8 DEF OneValueSoFar
<1> QED  BY <1>1, <1>9, LoneMoves

LEMMA LoneMarks ==
  ASSUME PgInv, LoneInv, LoneConnection, NEW t \in Conn, MarkLosers(t)
  PROVE  LoneInv'
<1> DEFINE x == txn[t]
           losers == DOMAIN x.marks \cap Rows(t)
           p == [f \in losers \cup DOMAIN x.points |-> IF f \in losers THEN x.marks[f] ELSE x.points[f]]
           unindexed == x.unindexed \cup (losers \cap vectors)
           y == [x EXCEPT !.step = "collapse", !.marks = Idle.marks, !.points = p, !.unindexed = unindexed]
<1>1. /\ x \in Txns /\ txn \in [Conn -> Txns] /\ x.step = "mark"
      /\ stored' = stored /\ supersededBy' = supersededBy /\ retired' = retired /\ UNCHANGED factVars
  BY DEF PgInv, PgTypeOK, MarkLosers, factVars
<1>2. /\ OneLeft(t) /\ x.batch \cap stored = {}
      /\ DOMAIN x.points \subseteq stored \cup x.batch
  BY <1>1 DEF LoneInv, OneValueSoFar
<1>3. \A f \in losers : f \in DOMAIN p /\ p[f] # None
  BY <1>1, PointsAreFacts, FactConstants
<1>4. DOMAIN p \subseteq stored \cup x.batch
  BY <1>2 DEF Rows
<1>5. \A f : f \notin losers => (f \in DOMAIN p <=> f \in DOMAIN x.points)
                                /\ (f \in DOMAIN p => p[f] = x.points[f])
  OBVIOUS
<1>6. txn'[t] = y
  BY <1>1 DEF MarkLosers
<1> HIDE DEF p, unindexed
<1>7. /\ y.step = "collapse" /\ y.batch = x.batch /\ y.gone = x.gone /\ y.points = p
      /\ y.fresh = x.fresh /\ y.owed = x.owed
  BY <1>1 DEF Txns
<1> HIDE DEF y
<1>8. Rows(t)' = Rows(t)
  BY <1>1, <1>6, <1>7 DEF Rows
<1>9. LeftBy(t)' \subseteq LeftBy(t)
  <2>1. SUFFICES ASSUME NEW f \in Seen(t)' PROVE f \in Seen(t) /\ f \notin DOMAIN x.marks
    BY <1>1 DEF LeftBy
  <2>2. f \in Rows(t) /\ f \notin retired /\ Pointer(t, f)' = None
    BY <1>1, <1>8, <2>1 DEF Seen
  <2>3. f \notin losers
    BY <1>3, <1>6, <1>7, <2>2 DEF Pointer
  <2>4. Pointer(t, f) = None
    BY <1>1, <1>5, <1>6, <1>7, <2>2, <2>3 DEF Pointer
  <2> QED  BY <2>2, <2>3, <2>4 DEF Seen
<1>10. OneLeft(t)'
  BY <1>2, <1>6, <1>7, <1>9 DEF OneLeft
<1>11. OneValueSoFar(t)'
  BY <1>1, <1>2, <1>6, <1>7, <1>10, <1>4 DEF OneValueSoFar
<1> QED  BY <1>1, <1>11, LoneMoves

LEMMA LoneCommits ==
  ASSUME PgInv, LoneInv, LoneConnection, NEW t \in Conn, Commit(t)
  PROVE  LoneInv'
<1> DEFINE x == txn[t]
<1>1. /\ x \in Txns /\ txn \in [Conn -> Txns] /\ x.step = "collapse" /\ x.fresh = {} /\ x.owed = {}
      /\ stored \in SUBSET Fact /\ retired \subseteq stored
  BY DEF PgInv, PgTypeOK, FactTypeOK, Commit
<1>2. /\ OneLeft(t) /\ x.batch \cap stored = {} /\ DOMAIN x.points \subseteq stored \cup x.batch
      /\ \A f \in Fact \ stored : supersededBy[f] = None
  BY <1>1 DEF LoneInv, OneValueSoFar
<1>3. /\ stored' = (stored \ x.gone) \cup x.batch /\ retired' = retired \ x.gone
      /\ x.batch \in SUBSET Fact /\ x.gone \subseteq stored
      /\ txn'[t].step = "idle" /\ txn'[t].batch = {} /\ DOMAIN txn'[t].points = {}
  <2>1. x.gone \subseteq stored
    BY <1>1 DEF PgInv, Shape, Stale
  <2> QED  BY <1>1, <2>1, IdleIsTyped DEF Commit, Rows, Txns
<1>4. supersededBy' = [f \in Fact |-> IF f \in x.gone \cup (x.batch \ DOMAIN x.points) THEN None
                                      ELSE Pointer(t, f)]
  BY DEF Commit
<1>5. Active' \subseteq Seen(t)
  <2>1. SUFFICES ASSUME NEW f \in Active' PROVE f \in Seen(t)
    OBVIOUS
  <2>2. f \in stored' /\ supersededBy'[f] = None /\ f \notin retired' /\ f \in Fact
    BY <1>1, <1>3, <2>1 DEF Active
  <2>3. f \in Rows(t)
    BY <1>1, <1>3, <2>2 DEF Rows
  <2>4. f \notin retired
    BY <1>1, <1>2, <1>3, <2>2
  <2>5. Pointer(t, f) = None
    BY <1>2, <1>3, <1>4, <2>2 DEF Pointer
  <2> QED  BY <2>3, <2>4, <2>5 DEF Seen
<1>6. OneCurrentPerKey'
  BY <1>1, <1>2, <1>5 DEF OneCurrentPerKey, OneLeft, LeftBy
<1>7. \A f \in Fact \ stored' : supersededBy'[f] = None
  <2>1. SUFFICES ASSUME NEW f \in Fact \ stored' PROVE supersededBy'[f] = None
    OBVIOUS
  <2>2. CASE f \in x.gone
    BY <1>4, <2>2
  <2>3. CASE f \notin x.gone
    <3>1. f \notin stored /\ f \notin x.batch
      BY <1>3, <2>1, <2>3
    <3>2. f \notin DOMAIN x.points
      BY <1>2, <3>1
    <3> QED  BY <1>2, <1>4, <2>3, <3>1, <3>2 DEF Pointer
  <2> QED  BY <2>2, <2>3
<1>8. OneValueSoFar(t)'
  BY <1>3 DEF OneValueSoFar
<1> QED  BY <1>6, <1>7, <1>8 DEF LoneInv, LoneConnection

LEMMA LoneStepKeeps ==
  ASSUME PgInv, LoneInv, LoneConnection, [PgNext]_pgVars
  PROVE  LoneInv'
<1>1. CASE UNCHANGED pgVars \/ \E f \in Fact : RetireFact(f) \/ EmbedFact(f)
  <2>1. /\ stored' = stored /\ supersededBy' = supersededBy /\ txn' = txn /\ retired \subseteq retired'
    BY <1>1 DEF pgVars, factVars, RetireFact, Retire, EmbedFact, UpsertEmbedding
  <2>2. OneCurrentPerKey' /\ (\A f \in Fact \ stored : supersededBy[f] = None)'
    BY <2>1 DEF LoneInv, OneCurrentPerKey, Active
  <2>3. ASSUME NEW t \in Conn PROVE OneValueSoFar(t)'
    <3>1. LeftBy(t)' \subseteq LeftBy(t)
      BY <2>1 DEF LeftBy, Seen, Rows, Pointer
    <3> QED  BY <2>1, <3>1 DEF LoneInv, OneValueSoFar, OneLeft, Orphans, Stale
  <2> QED  BY <2>2, <2>3 DEF LoneInv
<1>2. CASE PgNext /\ ~\E f \in Fact : RetireFact(f) \/ EmbedFact(f)
  BY <1>2, LoneBegins, LoneReleases, LoneReplaces, LoneSelects, LoneSelectsHeirs, LoneMarks, LoneCommits
     DEF PgNext
<1> QED  BY <1>1, <1>2

LEMMA LoneInit == PgInit => LoneInv
BY IdleIsTyped DEF PgInit, FactInit, LoneInv, OneCurrentPerKey, Active, OneValueSoFar

(* I5a on Postgres, when one connection ingests and corrects: its statements *)
(* leave a key one current value, whatever is retired or embedded between    *)
(* them.  The two current values of the run PgFactIngestRace need a second   *)
(* connection.                                                               *)
THEOREM LoneConnectionKeepsOneValue ==
  ASSUME LoneConnection
  PROVE  PgSpec => []OneCurrentPerKey
<1>1. PgInit => PgInv /\ LoneInv
  BY PgInitIsSound, LoneInit
<1>2. (PgInv /\ LoneInv) /\ [PgNext]_pgVars => (PgInv /\ LoneInv)'
  BY PgStepKeeps, LoneStepKeeps
<1>3. PgInv /\ LoneInv => OneCurrentPerKey
  BY DEF LoneInv
<1> QED  BY <1>1, <1>2, <1>3, PTL DEF PgSpec
=============================================================================
