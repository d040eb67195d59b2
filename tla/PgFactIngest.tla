--------------------------- MODULE PgFactIngest ----------------------------
(***************************************************************************)
(* The same fact tables on Postgres.  SQLite runs an ingest in one step;   *)
(* here it is a READ COMMITTED transaction on a connection of the pool,    *)
(* and every statement sees what other connections committed meanwhile.    *)
(* The variables of FactStore are the committed rows, txn is what each     *)
(* connection has done and not committed.                                  *)
(*                                                                         *)
(* Of Postgres (external): a statement sees committed rows and its own     *)
(* transaction's; a changed or deleted row is locked to the end of the     *)
(* transaction, and a statement that needs it waits (a guard here); a row  *)
(* written as someone's successor cannot be deleted until then.  A wait in *)
(* a circle, a lost connection or a failed check rolls back (Abort).       *)
(***************************************************************************)
EXTENDS FactStore

CONSTANTS
  Conn,              \* connections of the pool that write facts
  NoSession          \* a connection between transactions

ASSUME PgConstants == Conn # {} /\ NoSession \notin Session

VARIABLES
  txn,               \* the open transaction of each connection
  corrections,       \* 'supersedes' edges, <<successor, predecessor>>
  generation         \* the facts of the last committed ingest of a session

pgVars == <<factVars, txn, corrections, generation>>

Idle == [step |-> "idle", session |-> NoSession, batch |-> {}, last |-> [k \in Key |-> None],
         points |-> [f \in {} |-> None], gone |-> {}, unindexed |-> {},
         edge |-> {}, cut |-> {}, fresh |-> {}, owed |-> {}, marks |-> [f \in {} |-> None]]

Txns ==
  [step : {"idle", "release", "replace", "collapse", "correct", "mark"},
   session : Session \cup {NoSession},
   batch : SUBSET Fact, last : [Key -> Fact \cup {None}],
   points : UNION {[S -> Fact \cup {None}] : S \in SUBSET Fact},
   gone : SUBSET Fact, unindexed : SUBSET Fact,
   edge : SUBSET (Session \X Session), cut : SUBSET (Session \X Session),
   fresh : SUBSET Key, owed : SUBSET Key,
   marks : UNION {[S -> Fact] : S \in SUBSET Fact}]

PgTypeOK ==
  /\ FactTypeOK
  /\ txn \in [Conn -> Txns]
  /\ corrections \subseteq Session \X Session
  /\ generation \in [Session -> SUBSET Fact]

PgInit ==
  /\ FactInit
  /\ txn = [t \in Conn |-> Idle]
  /\ corrections = {}
  /\ generation = [s \in Session |-> {}]

-----------------------------------------------------------------------------
(* The rows transaction t sees.                                              *)
Rows(t) == (stored \ txn[t].gone) \cup (IF txn[t].step \in {"collapse", "mark"} THEN txn[t].batch ELSE {})

Pointer(t, f) == IF f \in DOMAIN txn[t].points THEN txn[t].points[f] ELSE supersededBy[f]

Seen(t) == {f \in Rows(t) : Pointer(t, f) = None /\ f \notin retired}

(* What it must wait for: rows that others changed, deleted or refer to.     *)
Targets(g) == {g[f] : f \in DOMAIN g}

Locked(u) == DOMAIN txn[u].points \cup txn[u].gone

CanUpdate(t, S) == \A u \in Conn \ {t} : S \cap Locked(u) = {}

CanReference(t, S) == \A u \in Conn \ {t} : S \cap txn[u].gone = {}

CanDelete(t, S) == CanUpdate(t, S) /\ \A u \in Conn \ {t} : S \cap Targets(txn[u].points) = {}

(* Ids a connection still has in hand; a new fact gets another one.          *)
InHand == UNION {txn[u].batch \cup Locked(u) \cup Targets(txn[u].points)
                  \cup DOMAIN txn[u].marks \cup Targets(txn[u].marks) : u \in Conn}

(* Mutant: the transaction starts without the lock on its session.           *)
NobodyIngests(s) == TRUE

(* insertSession writes the session row first, insertFactsForSession reads   *)
(* it FOR UPDATE, and prepareFacts takes the advisory lock of the source.    *)
SessionIsFree(s) == \A u \in Conn : txn[u].session # s

BeginIngest(t, s) ==
  /\ txn[t].step = "idle" /\ SessionIsFree(s)
  /\ \E batch \in Batches(s) : \E last \in LastOfBatch(batch) :
       /\ batch \cap InHand = {}
       /\ txn' = [txn EXCEPT ![t] = [Idle EXCEPT !.step = "release", !.session = s,
                                                 !.batch = batch, !.last = last]]
  /\ UNCHANGED <<factVars, corrections, generation>>

(* UPDATE facts SET superseded_by = NULL ... RETURNING.                      *)
ReleaseOrphans(t) ==
  LET orphans == Orphans(txn[t].session)
  IN  /\ txn[t].step = "release" /\ CanUpdate(t, orphans)
      /\ txn' = [txn EXCEPT ![t].step = "replace",
                            ![t].points = [f \in orphans |-> None],
                            ![t].owed = {KeyOf[f] : f \in orphans \ Independent}]
      /\ UNCHANGED <<factVars, corrections, generation>>

(* Mutant: superseded_by without its foreign key.                            *)
NobodyFreed(t, stale) == {}

(* superseded_by REFERENCES facts(id) ON DELETE SET NULL.                    *)
Freed(t, stale) == {f \in stored \ stale : Pointer(t, f) \in stale}

(* DELETE and the INSERTs.  A fact that came to point here since the release *)
(* is freed by the foreign key, but not owed a collapse.                     *)
ReplaceFacts(t) ==
  LET stale == Stale(txn[t].session)
      freed == Freed(t, stale)
  IN  /\ txn[t].step = "replace" /\ CanDelete(t, stale) /\ CanUpdate(t, freed)
      /\ txn' = [txn EXCEPT ![t].step = "collapse", ![t].gone = stale,
                            ![t].points = [f \in freed \cup DOMAIN @ |-> IF f \in freed THEN None ELSE @[f]],
                            ![t].fresh = {KeyOf[f] : f \in txn[t].batch \ Independent}]
      /\ UNCHANGED <<factVars, corrections, generation>>

(* collapseKey's SELECT: new keys first, then those of the released facts.   *)
SelectKey(t, k) ==
  LET isFresh == k \in txn[t].fresh
      rivals  == Rivals(Seen(t), k)
      winner  == Newest(rivals, IF isFresh THEN txn[t].last[k] ELSE None)
  IN  /\ txn[t].step = "collapse"
      /\ isFresh \/ (txn[t].fresh = {} /\ k \in txn[t].owed)
      /\ txn' = [txn EXCEPT ![t].fresh = @ \ {k},
                            ![t].owed = IF isFresh THEN @ ELSE @ \ {k},
                            ![t].step = IF Cardinality(rivals) < 2 THEN "collapse" ELSE "mark",
                            ![t].marks = IF Cardinality(rivals) < 2 THEN @
                                         ELSE [f \in rivals \ {winner} |-> winner]]
      /\ UNCHANGED <<factVars, corrections, generation>>

(* markSuperseded of the session store.  The walk for a cycle and the edge   *)
(* it writes see the corrections that are committed.                         *)
Corrected(p, q) ==
  \A S \in SUBSET Session :
    p \in S /\ (\A e \in corrections : e[1] \in S => e[2] \in S) => q \in S

BeginCorrection(t, pred, succ) ==
  /\ txn[t].step = "idle" /\ pred # succ /\ ~Corrected(pred, succ)
  /\ txn' = [txn EXCEPT ![t] = [Idle EXCEPT !.step = "correct", !.edge = {<<succ, pred>>},
                             !.cut = {e \in corrections : e[2] = pred /\ e[1] # succ}]]
  /\ UNCHANGED <<factVars, corrections, generation>>

(* Then the status UPDATE, which waits for the predecessor's row, and the    *)
(* snapshot of the cascade: which facts move, and to which heirs.            *)
SelectHeirs(t) ==
  \E pred, succ \in Session : \E heir \in HeirChoices(succ) :
    LET moved == {f \in stored \cap FactsOf(pred) : heir[KeyOf[f]] # None}
    IN  /\ txn[t].step = "correct" /\ txn[t].edge = {<<succ, pred>>} /\ SessionIsFree(pred)
        /\ txn' = [txn EXCEPT ![t].step = IF moved = {} THEN "collapse" ELSE "mark",
                              ![t].session = pred,
                              ![t].marks = [f \in moved |-> heir[KeyOf[f]]]]
        /\ UNCHANGED <<factVars, corrections, generation>>

(* UPDATE by id, whatever the row says by now, and DELETE FROM               *)
(* fact_embeddings.  A row that has gone is passed over; a successor that    *)
(* has gone fails the foreign key.                                           *)
MarkLosers(t) ==
  LET marks   == txn[t].marks
      losers  == DOMAIN marks \cap Rows(t)
      winners == {marks[f] : f \in losers}
  IN  /\ txn[t].step = "mark" /\ CanUpdate(t, losers) /\ CanReference(t, winners)
      /\ winners \subseteq Rows(t)
      /\ txn' = [txn EXCEPT ![t].step = "collapse", ![t].marks = Idle.marks,
                            ![t].points = [f \in losers \cup DOMAIN @ |-> IF f \in losers THEN marks[f] ELSE @[f]],
                            ![t].unindexed = @ \cup (losers \cap vectors)]
      /\ UNCHANGED <<factVars, corrections, generation>>

Commit(t) ==
  LET x == txn[t]
  IN  /\ x.step = "collapse" /\ x.fresh = {} /\ x.owed = {}
      /\ stored' = Rows(t)
      /\ retired' = retired \ x.gone
      /\ supersededBy' = [f \in Fact |-> IF f \in x.gone \cup (x.batch \ DOMAIN x.points) THEN None
                                         ELSE Pointer(t, f)]
      /\ vectors' = vectors \ (x.gone \cup x.unindexed)
      /\ corrections' = (corrections \ x.cut) \cup x.edge
      /\ generation' = [s \in Session |-> IF s = x.session /\ x.edge = {} THEN x.batch
                                          ELSE generation[s]]
      /\ txn' = [txn EXCEPT ![t] = Idle]

(* ROLLBACK: a deadlock, a lost connection, a failed check.                  *)
Abort(t) ==
  /\ txn[t].step # "idle"
  /\ txn' = [txn EXCEPT ![t] = Idle]
  /\ UNCHANGED <<factVars, corrections, generation>>

(* retire and upsertEmbedding, with nothing that matters between statements. *)
RetireFact(f) ==
  /\ \A u \in Conn : f \notin Locked(u)
  /\ Retire(f)
  /\ UNCHANGED <<txn, corrections, generation>>

EmbedFact(f) ==
  /\ \A u \in Conn : f \notin txn[u].gone \cup txn[u].unindexed
  /\ UpsertEmbedding(f)
  /\ UNCHANGED <<txn, corrections, generation>>

PgNext ==
  \/ \E t \in Conn : \E s \in Session : BeginIngest(t, s)
  \/ \E t \in Conn : ReleaseOrphans(t)
  \/ \E t \in Conn : ReplaceFacts(t)
  \/ \E t \in Conn : \E k \in Key : SelectKey(t, k)
  \/ \E t \in Conn : \E pred, succ \in Session : BeginCorrection(t, pred, succ)
  \/ \E t \in Conn : SelectHeirs(t)
  \/ \E t \in Conn : MarkLosers(t)
  \/ \E t \in Conn : Commit(t)
  \/ \E t \in Conn : Abort(t)
  \/ \E f \in Fact : RetireFact(f)
  \/ \E f \in Fact : EmbedFact(f)

PgSpec == PgInit /\ [][PgNext]_pgVars

-----------------------------------------------------------------------------
(* The facts on file of a session are those of one ingest, the last that     *)
(* committed, although two ingests of it may run at once on two connections  *)
(* and each deletes only what it can see.                                    *)
OneGeneration == \A s \in Session : stored \cap FactsOf(s) = generation[s]
=============================================================================
