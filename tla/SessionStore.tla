---------------------------- MODULE SessionStore ----------------------------
(***************************************************************************)
(* The store as its callers see it: each operation is one transaction on   *)
(* the session rows and edges of SessionGraph and on the fact tables of    *)
(* FactStore at once.                                                      *)
(***************************************************************************)
EXTENDS SessionGraph, Naturals

CONSTANTS Fact, Key, SourceOf, KeyOf, CreatedAt, IdRank, Independent

VARIABLES stored, supersededBy, retired, vectors

F == INSTANCE FactStore

ASSUME StoreConstants == F!FactConstants

storeVars == <<graphVars, F!factVars>>

StoreInit == GraphInit /\ F!FactInit

(* Mutant (the drift behind NLM #351): the session path adds its facts       *)
(* without replacing the old ones and without a collapse.                    *)
InsertSessionInlined(s, prior) ==
  /\ UpsertSession(s, prior)
  /\ \E batch \in F!Batches(s) : stored' = stored \cup batch
  /\ UNCHANGED <<supersededBy, retired, vectors>>

(* insertSession, called by the scan (prior: the id the transcript had) and  *)
(* by push ingest (no prior): the row, the edge and the facts.               *)
InsertSession(s, prior) ==
  /\ UpsertSession(s, prior)
  /\ \E batch \in F!Batches(s) : \E last \in F!LastOfBatch(batch) : F!IngestFacts(s, batch, last)

(* Mutant: the session is not looked up.                                     *)
InsertFactsForAnySession(s) ==
  /\ \E batch \in F!Batches(s) : \E last \in F!LastOfBatch(batch) : F!IngestFacts(s, batch, last)
  /\ UNCHANGED graphVars

(* insertFactsForSession: new facts for a session that is already there.     *)
InsertFactsForSession(s) ==
  /\ Exists(s)
  /\ \E batch \in F!Batches(s) : \E last \in F!LastOfBatch(batch) : F!IngestFacts(s, batch, last)
  /\ UNCHANGED graphVars

(* Mutant: the status is set and the edge is not.                            *)
MarkWithoutEdge(pred, succ) ==
  /\ pred # succ /\ Exists(pred) /\ Exists(succ)
  /\ status' = [status EXCEPT ![pred] = "superseded"]
  /\ \E heir \in F!HeirChoices(succ) : F!CascadeFacts(pred, succ, heir)
  /\ UNCHANGED edges

(* markSuperseded: the edge, the status, and the facts along with it.        *)
MarkSuperseded(pred, succ) ==
  /\ SupersedeSession(pred, succ)
  /\ \E heir \in F!HeirChoices(succ) : F!CascadeFacts(pred, succ, heir)

RetireFact(f) == F!Retire(f) /\ UNCHANGED graphVars

WriteVector(f) == F!UpsertEmbedding(f) /\ UNCHANGED graphVars

StoreNext ==
  \/ \E s \in Session, prior \in Session \cup {None} : InsertSession(s, prior)
  \/ \E s \in Session : InsertFactsForSession(s)
  \/ \E pred, succ \in Session : MarkSuperseded(pred, succ)
  \/ \E f \in Fact : RetireFact(f) \/ WriteVector(f)

StoreSpec == StoreInit /\ [][StoreNext]_storeVars

-----------------------------------------------------------------------------
(* No transaction, whichever way it is reached, leaves facts without the     *)
(* session they came from.                                                   *)
FactsHaveSessions == \A f \in stored : Exists(SourceOf[f])

(* A fact gives way to one of an earlier session only because somebody       *)
(* marked its session superseded, and that mark is still on record: ingest   *)
(* alone, in any order of arrival, only ever puts later facts over earlier.  *)
OlderWinsOnlyByCorrection ==
  \A f \in stored : LET g == supersededBy[f] IN
     g # None /\ CreatedAt[g] < CreatedAt[f]
       => \E succ \in Session : <<succ, SourceOf[f], "supersedes">> \in edges

(* The transactions compose: seen by themselves the graph and the fact       *)
(* tables behave as their modules say.                                       *)
ImplementsGraph == GraphSpec
ImplementsFacts == F!FactSpec
=============================================================================
