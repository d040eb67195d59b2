----------------------------- MODULE FactStore -----------------------------
(***************************************************************************)
(* The fact tables of the SQLite store and the transactions on them:       *)
(* facts(superseded_by, retired_at) and fact_embeddings.  Each action is   *)
(* the fact part of one synchronous transaction; SessionStore adds the     *)
(* session rows and edges the same transactions write.                     *)
(*                                                                         *)
(* A fact id is a fresh UUID that names one (session, key, value) for its  *)
(* whole life, so what never changes about a fact is a constant function   *)
(* of its id: the session it came from, its key, that is its (property,    *)
(* subject, predicate), and whether the operator has taken it out of every *)
(* property, and its date, which is when the session of that ingest began  *)
(* (push ingest may bring a session again under another date).             *)
(*                                                                         *)
(* Vectors are written by tasks that wait for the embedder between reading *)
(* and writing.  Here that write may come at any time, for any fact;       *)
(* FactEmbedding has the tasks, and shows that what they do is what this   *)
(* module allows.                                                          *)
(***************************************************************************)
EXTENDS Naturals, FiniteSets

CONSTANTS
  Session,           \* session ids
  None,              \* superseded_by NULL
  Fact,              \* fact ids
  Key,               \* (property slug, subject, predicate)
  SourceOf,          \* the session a fact id was extracted from
  KeyOf,             \* the key of a fact id
  CreatedAt,         \* created_at of a fact id
  IdRank,            \* the order of the ids as strings
  Independent        \* ids of facts the operator holds outside all properties

ASSUME FactConstants ==
  /\ IsFiniteSet(Fact) /\ None \notin Fact
  /\ SourceOf \in [Fact -> Session]
  /\ KeyOf \in [Fact -> Key]
  /\ CreatedAt \in [Fact -> Nat]
  /\ IdRank \in [Fact -> Nat]
  /\ \A f, g \in Fact : IdRank[f] = IdRank[g] => f = g
  /\ Independent \subseteq Fact

VARIABLES
  stored,            \* ids with a row in facts
  supersededBy,      \* facts.superseded_by
  retired,           \* ids whose retired_at is set
  vectors            \* ids with a row in fact_embeddings

factVars == <<stored, supersededBy, retired, vectors>>

FactTypeOK ==
  /\ stored \subseteq Fact
  /\ supersededBy \in [Fact -> Fact \cup {None}]
  /\ retired \subseteq stored
  /\ vectors \subseteq Fact

FactInit ==
  /\ stored = {}
  /\ supersededBy = [f \in Fact |-> None]
  /\ retired = {}
  /\ vectors = {}

-----------------------------------------------------------------------------
FactsOf(s) == {f \in Fact : SourceOf[f] = s}

Active == {f \in stored : supersededBy[f] = None /\ f \notin retired}

(* Mutant: the fact being ingested wins whatever its date.                   *)
IncomingWins(f, g, incoming) ==
  f = incoming \/ (g # incoming /\ CreatedAt[f] > CreatedAt[g])
               \/ (g # incoming /\ CreatedAt[f] = CreatedAt[g]
                     /\ IdRank[f] > IdRank[g])

(* newestFact: later session time first, then the fact being ingested, then *)
(* the larger id.  incoming is None when no fact of the key is ingested.    *)
Beats(f, g, incoming) ==
  LET tf == CreatedAt[f]
      tg == CreatedAt[g]
  IN  \/ tf > tg
      \/ tf = tg /\ f = incoming
      \/ tf = tg /\ g # incoming /\ IdRank[f] > IdRank[g]

Newest(S, incoming) == CHOOSE w \in S : \A g \in S \ {w} : Beats(w, g, incoming)

(* collapseKey, for all the keys K at once: among the standing facts S of a  *)
(* key the newest stays and the others lose to it.  last gives, per key, the *)
(* last fact of the batch.                                                   *)
Rivals(S, k) == {f \in S : KeyOf[f] = k}

Winner(S, k, last) == Newest(Rivals(S, k), last[k])

(* Mutant (the bug of NLM #301): a collapse marks one prior fact, not all.   *)
OneLoser(S, K, last) ==
  {f \in S : LET w == Winner(S, KeyOf[f], last) IN
     /\ KeyOf[f] \in K /\ f # w
     /\ \A g \in Rivals(S, KeyOf[f]) \ {w} : IdRank[f] <= IdRank[g]}

Losers(S, K, last) == {f \in S : KeyOf[f] \in K /\ f # Winner(S, KeyOf[f], last)}

(* ingestSessionFactsInTxn replaces the session's facts by a new batch.      *)
(* Facts of other sessions that the old ones had superseded are released and *)
(* judged again: every key of a new or a released fact is collapsed.  Facts  *)
(* the operator holds outside all properties start no collapse.              *)
Stale(s) == stored \cap FactsOf(s)

Orphans(s) == {f \in stored \ Stale(s) : supersededBy[f] \in Stale(s)}

Kept(s, batch) == (stored \ Stale(s)) \cup batch

(* Mutant: facts the old ones had superseded are not released (I5b).         *)
ReleasedOwnOnly(s, batch, f) == IF f \in Stale(s) \cup batch THEN None ELSE supersededBy[f]

Released(s, batch, f) ==
  IF f \in Stale(s) \cup Orphans(s) \cup batch THEN None ELSE supersededBy[f]

Standing(s, batch) ==
  {f \in Kept(s, batch) : Released(s, batch, f) = None /\ f \notin retired \ Stale(s)}

KeysToCollapse(s, batch) == {KeyOf[f] : f \in (batch \cup Orphans(s)) \ Independent}

(* Whoever is deleted or loses leaves the vector index in the same step.     *)
IngestFacts(s, batch, last) ==
  LET S    == Standing(s, batch)
      lost == Losers(S, KeysToCollapse(s, batch), last)
  IN  /\ stored' = Kept(s, batch)
      /\ retired' = retired \ Stale(s)
      /\ supersededBy' = [f \in Fact |-> IF f \in lost THEN Winner(S, KeyOf[f], last)
                                                      ELSE Released(s, batch, f)]
      /\ vectors' = vectors \ (Stale(s) \cup lost)

(* The last fact of each key in the order the batch was extracted in.        *)
LastOfBatch(batch) ==
  {last \in [Key -> batch \cup {None}] :
     \A k \in Key : LET here == {f \in batch \ Independent : KeyOf[f] = k}
                    IN  IF here = {} THEN last[k] = None ELSE last[k] \in here}

(* markSuperseded's fact part: each fact of the predecessor points to a fact *)
(* of the successor with the same key that nothing supersedes (retired or    *)
(* not; LIMIT 1 picks one), and leaves the vector index.                     *)
Heirs(k, succ) ==
  {g \in stored \cap FactsOf(succ) : KeyOf[g] = k /\ supersededBy[g] = None}

HeirChoices(succ) ==
  {heir \in [Key -> (stored \cap FactsOf(succ)) \cup {None}] :
     \A k \in Key : IF Heirs(k, succ) = {} THEN heir[k] = None
                                         ELSE heir[k] \in Heirs(k, succ)}

CascadeFacts(pred, succ, heir) ==
  LET moved == {f \in stored \cap FactsOf(pred) : heir[KeyOf[f]] # None}
  IN  /\ supersededBy' = [f \in Fact |-> IF f \in moved THEN heir[KeyOf[f]]
                                                        ELSE supersededBy[f]]
      /\ vectors' = vectors \ moved
      /\ UNCHANGED <<stored, retired>>

(* Mutant: a fact id that is not there is retired all the same.              *)
RetireAnything(f) ==
  /\ retired' = retired \cup {f}
  /\ vectors' = vectors \ {f}
  /\ UNCHANGED <<stored, supersededBy>>

(* retire, the supersede_fact tool: no successor, gone from the index.       *)
Retire(f) ==
  /\ f \in stored
  /\ retired' = retired \cup {f}
  /\ vectors' = vectors \ {f}
  /\ UNCHANGED <<stored, supersededBy>>

(* upsertEmbedding: the only thing it asks is that the fact still exists.    *)
UpsertEmbedding(f) ==
  /\ f \in stored
  /\ vectors' = vectors \cup {f}
  /\ UNCHANGED <<stored, supersededBy, retired>>

-----------------------------------------------------------------------------
(* A batch of session s: fresh ids of s, all of one date.                    *)
Batches(s) ==
  {B \in SUBSET (FactsOf(s) \ stored) : \A f, g \in B : CreatedAt[f] = CreatedAt[g]}

FactNext ==
  \/ \E s \in Session : \E batch \in Batches(s) :
       \E last \in LastOfBatch(batch) : IngestFacts(s, batch, last)
  \/ \E pred, succ \in Session :
       pred # succ /\ \E heir \in HeirChoices(succ) : CascadeFacts(pred, succ, heir)
  \/ \E f \in Fact : Retire(f)
  \/ \E f \in Fact : UpsertEmbedding(f)

FactSpec == FactInit /\ [][FactNext]_factVars

-----------------------------------------------------------------------------
(* I5a of check-invariants.ts, for the facts ingest collapses: a key has at  *)
(* most one current value, through re-ingests that release what their old    *)
(* facts had superseded, batches with duplicates, and sessions that arrive   *)
(* out of order.                                                             *)
OneCurrentPerKey ==
  \A f, g \in Active \ Independent : KeyOf[f] = KeyOf[g] => f = g

(* I5b: superseded_by never dangles, although a re-ingest deletes the rows   *)
(* it points to.                                                             *)
NoDanglingSuccessor ==
  \A f \in stored : supersededBy[f] # None => supersededBy[f] \in stored

(* I5c: superseded_by has no cycle.  Every non-empty set of facts has one    *)
(* whose successor is outside the set.                                       *)
ChainsEnd ==
  \A S \in (SUBSET stored) \ {{}} : \E f \in S : supersededBy[f] \notin S

(* A fact is only ever superseded by one that answers the same question,     *)
(* also when a released fact is judged again or a correction between         *)
(* sessions carries the facts along.                                         *)
SuccessorHasTheKey ==
  \A f \in stored : supersededBy[f] # None => KeyOf[supersededBy[f]] = KeyOf[f]

(* A vector never outlives its fact, although the vector table has no        *)
(* foreign key and the fact may go while its vector is being computed (the   *)
(* half of I7 that joins on facts.id).                                       *)
VectorsHaveFacts == vectors \subseteq stored

(* fact-batch.ts: a re-ingested old session can never displace newer facts.  *)
(* When another fact becomes the current value of a key while the previous   *)
(* one is still on file and not retired, it is at least as new.              *)
CurrentNeverGetsOlder ==
  [][\A f \in Active \ Independent, g \in Active' \ Independent :
       f # g /\ KeyOf[f] = KeyOf[g] /\ f \in stored' \ retired'
         => CreatedAt[g] >= CreatedAt[f]]_factVars

(* A transaction never turns a searchable vector into a ghost: when a fact   *)
(* stops being current its vector goes in the same step (NLM #351).          *)
Ghosts == {f \in vectors : f \notin Active}

TransactionsLeaveNoGhost ==
  [][\A f \in Ghosts' \ Ghosts : f \notin vectors]_factVars
=============================================================================
