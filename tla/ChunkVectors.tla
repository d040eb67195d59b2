----------------------------- MODULE ChunkVectors -----------------------------
(***************************************************************************)
(* The vectors of session chunks in the SQLite store: session_chunk_map    *)
(* with session_embedding_chunks, and the retry table chunk_embed_pending. *)
(* An ingest commits the session's text, clears its chunks and embeds them *)
(* one by one; the sweep retries the chunks whose embedding failed.  Both  *)
(* wait for the embedder between reading a text and writing its vector.    *)
(*                                                                         *)
(* A text is a version; it has the chunks ChunksIn says, and a chunk of    *)
(* one version differs from the chunk of another at the same place.  The   *)
(* embedder in use is a lane (provider, model, dimension); a vec0 table    *)
(* takes vectors of its own dimension only.  EmbedRebuild changes lanes.   *)
(***************************************************************************)
EXTENDS Naturals, FiniteSets

CONSTANTS
  Session, Version,
  Chunk,             \* chunk positions
  ChunksIn,          \* the chunks of a version: a shorter text has fewer
  Lane, Dim,         \* embedders, and the dimension of their vectors
  Ingester, Sweeper, \* calls of insertSession and ticks of the sweep
  Overlapping,       \* may two ingests of one session overlap?
  MaxAttempts,       \* MAX_CHUNK_EMBED_ATTEMPTS
  None

ASSUME ChunkConstants ==
  /\ Chunk \subseteq Nat /\ IsFiniteSet(Chunk)
  /\ ChunksIn \in [Version -> SUBSET Chunk]
  /\ Lane # {} /\ Dim \in [Lane -> Nat]
  /\ MaxAttempts \in Nat \ {0} /\ Overlapping \in BOOLEAN
  /\ None \notin Version \cup Session \cup Chunk \cup Lane

Ref == Session \X Chunk

VARIABLES
  text,              \* the stored text of a session
  vec,               \* per chunk: the version and lane its vector was made from
  pending,           \* per chunk: attempts in chunk_embed_pending, 0 for no row
  tableLane,         \* the lane the vec0 table was created for, None: there is no table
  live,              \* the embedder the daemon calls
  ingest,            \* per ingester: what insertSession still has to do
  sweep,             \* per sweeper: what a tick still has to do
  cut                \* sessions whose ingest a crash or an error cut off

chunkVars == <<text, vec, pending, tableLane, live, ingest, sweep, cut>>

NoIngest == [s |-> None, of |-> None, cleared |-> FALSE, todo |-> {},
             at |-> None, by |-> None]
NoSweep  == [todo |-> {}, at |-> None, read |-> None, by |-> None]

(* A chunk with a row in the map and, if of is not None, a vector for it.    *)
Vector == [of : Version \cup {None}, by : Lane]
NoVector == [of |-> None, by |-> None]

ChunkTypeOK ==
  /\ text \in [Session -> Version \cup {None}]
  /\ vec \in [Ref -> Vector \cup {NoVector}]
  /\ pending \in [Ref -> 0..MaxAttempts]
  /\ tableLane \in Lane \cup {None} /\ live \in Lane
  /\ ingest \in [Ingester -> [s : Session \cup {None}, of : Version \cup {None},
                              cleared : BOOLEAN, todo : SUBSET Chunk,
                              at : Chunk \cup {None}, by : Lane \cup {None}]]
  /\ sweep \in [Sweeper -> [todo : SUBSET Ref, at : Ref \cup {None},
                            read : Version \cup {None}, by : Lane \cup {None}]]
  /\ cut \subseteq Session

ChunkInit ==
  /\ text = [s \in Session |-> None]
  /\ vec = [r \in Ref |-> NoVector]
  /\ pending = [r \in Ref |-> 0]
  /\ tableLane = (CHOOSE l \in Lane : TRUE) /\ live = tableLane
  /\ ingest = [i \in Ingester |-> NoIngest]
  /\ sweep = [w \in Sweeper |-> NoSweep]
  /\ cut = {}

Mapped(r)    == vec[r] # NoVector
HasVector(r) == vec[r].of # None
Has(s, c)    == text[s] # None /\ c \in ChunksIn[text[s]]
Busy(s)      == \E i \in Ingester : ingest[i].s = s

-----------------------------------------------------------------------------
(* insertChunkEmbedding: a mapped chunk is left as it is, and a vector of    *)
(* another dimension, or without a table, is refused.  markChunkEmbedPending:*)
(* one attempt more; from MaxAttempts on nothing distinguishes them.         *)
Fits(lane) == tableLane # None /\ Dim[lane] = Dim[tableLane]

Refused(r, lane) == ~Mapped(r) /\ ~Fits(lane)

Insert(r, v, lane) ==
  /\ vec' = IF Mapped(r) THEN vec ELSE [vec EXCEPT ![r] = [of |-> v, by |-> lane]]
  /\ pending' = [pending EXCEPT ![r] = 0]

(* Mutant: a chunk whose embedding failed is not recorded.                   *)
ForgetFailure(r) == UNCHANGED <<vec, pending>>

(* Mutant: the attempts are not counted.                                     *)
NeverGivesUp(r) ==
  /\ pending' = [pending EXCEPT ![r] = 1]
  /\ UNCHANGED vec

(* Mutant: the doubling meant for the delay is applied to the counter.       *)
DoublesTheCount(r) ==
  /\ pending' = [pending EXCEPT ![r] = 2 * @ + 1]
  /\ UNCHANGED vec

MarkPending(r) ==
  /\ pending' = [pending EXCEPT ![r] = IF @ < MaxAttempts THEN @ + 1 ELSE @]
  /\ UNCHANGED vec

InsertOrMark(r, v, lane) ==
  IF Refused(r, lane) THEN MarkPending(r) ELSE Insert(r, v, lane)

(* insertSession, the chunk part.  A scan brings its sessions one at a time; *)
(* a push or a reprocess run may bring one that is being ingested.           *)
CommitText(i, s, v) ==
  /\ ingest[i] = NoIngest /\ (Overlapping \/ ~Busy(s))
  /\ text' = [text EXCEPT ![s] = v]
  /\ ingest' = [ingest EXCEPT ![i] = [NoIngest EXCEPT !.s = s, !.of = v, !.todo = ChunksIn[v]]]
  /\ UNCHANGED <<vec, pending, tableLane, live, sweep, cut>>

(* deleteSessionChunks, a transaction of its own.  It deletes vectors when   *)
(* the map names some; without their table insertSession throws, its text    *)
(* committed.                                                                *)
CanClear(i) == tableLane # None \/ \A c \in Chunk : ~Mapped(<<ingest[i].s, c>>)

ClearThrows(i) ==
  /\ ingest[i].s # None /\ ~ingest[i].cleared /\ ~CanClear(i)
  /\ cut' = cut \cup {ingest[i].s}
  /\ ingest' = [ingest EXCEPT ![i] = NoIngest]
  /\ UNCHANGED <<text, vec, pending, tableLane, live, sweep>>

ClearChunks(i) ==
  /\ ingest[i].s # None /\ ~ingest[i].cleared /\ CanClear(i)
  /\ vec' = [r \in Ref |-> IF r[1] = ingest[i].s THEN NoVector ELSE vec[r]]
  /\ pending' = [r \in Ref |-> IF r[1] = ingest[i].s THEN 0 ELSE pending[r]]
  /\ ingest' = [ingest EXCEPT ![i].cleared = TRUE]
  /\ cut' = cut \ {ingest[i].s}
  /\ UNCHANGED <<text, tableLane, live, sweep>>

CallEmbedder(i) ==
  /\ ingest[i].cleared /\ ingest[i].at = None
  /\ \E c \in ingest[i].todo :
       /\ \A d \in ingest[i].todo : c <= d
       /\ ingest' = [ingest EXCEPT ![i].at = c, ![i].todo = @ \ {c}, ![i].by = live]
  /\ UNCHANGED <<text, vec, pending, tableLane, live, sweep, cut>>

EmbedderAnswers(i) ==
  LET t == ingest[i]
      r == <<t.s, t.at>>
  IN  /\ t.at # None
      /\ InsertOrMark(r, t.of, t.by) \/ MarkPending(r)
      /\ ingest' = [ingest EXCEPT ![i].at = None, ![i].by = None]
      /\ UNCHANGED <<text, tableLane, live, sweep, cut>>

IngestDone(i) ==
  /\ ingest[i].cleared /\ ingest[i].todo = {} /\ ingest[i].at = None
  /\ ingest' = [ingest EXCEPT ![i] = NoIngest]
  /\ UNCHANGED <<text, vec, pending, tableLane, live, sweep, cut>>

-----------------------------------------------------------------------------
(* sweepChunkEmbeddings.  Which chunks are due depends on their backoff:     *)
(* any set of them.  Ticks may overlap; nothing guards them.                 *)
DueNow == {r \in Ref : pending[r] \in 1..(MaxAttempts - 1) /\ ~Mapped(r)}

SweepReads(w, due) ==
  /\ sweep[w] = NoSweep /\ due # {} /\ due \subseteq DueNow
  /\ sweep' = [sweep EXCEPT ![w].todo = due]
  /\ UNCHANGED <<text, vec, pending, tableLane, live, ingest, cut>>

(* The session was rewritten shorter.                                        *)
SweepClears(w, r) ==
  /\ r \in sweep[w].todo /\ sweep[w].at = None /\ ~Has(r[1], r[2])
  /\ pending' = [pending EXCEPT ![r] = 0]
  /\ sweep' = [sweep EXCEPT ![w].todo = @ \ {r}]
  /\ UNCHANGED <<text, vec, tableLane, live, ingest, cut>>

SweepCalls(w, r) ==
  /\ r \in sweep[w].todo /\ sweep[w].at = None /\ Has(r[1], r[2])
  /\ sweep' = [sweep EXCEPT ![w] = [todo |-> @.todo \ {r}, at |-> r,
                                    read |-> text[r[1]], by |-> live]]
  /\ UNCHANGED <<text, vec, pending, tableLane, live, ingest, cut>>

(* No slot under the cap: the rest of the batch is left to a later tick.     *)
SweepSheds(w) ==
  /\ sweep[w].todo # {} /\ sweep[w].at = None
  /\ sweep' = [sweep EXCEPT ![w] = NoSweep]
  /\ UNCHANGED <<text, vec, pending, tableLane, live, ingest, cut>>

(* Mutant: only that the chunk is still pending is checked.                  *)
StillPending(r, v) == pending[r] > 0

(* ifTextIs: still pending, and with the text that was embedded.             *)
StillWanted(r, v) == pending[r] > 0 /\ Has(r[1], r[2]) /\ text[r[1]] = v

SweepAnswered(w) ==
  LET r == sweep[w].at IN
  /\ r # None
  /\ \/ StillWanted(r, sweep[w].read) /\ InsertOrMark(r, sweep[w].read, sweep[w].by)
     \/ ~StillWanted(r, sweep[w].read) /\ UNCHANGED <<vec, pending>>
     \/ MarkPending(r)
  /\ sweep' = [sweep EXCEPT ![w] = [NoSweep EXCEPT !.todo = sweep[w].todo]]
  /\ UNCHANGED <<text, tableLane, live, ingest, cut>>

(* The daemon dies: ingests and ticks with it.                               *)
Crash ==
  /\ cut' = cut \cup {s \in Session : Busy(s)}
  /\ ingest' = [i \in Ingester |-> NoIngest]
  /\ sweep' = [w \in Sweeper |-> NoSweep]
  /\ UNCHANGED <<text, vec, pending, tableLane, live>>

Embeds(i) == ClearThrows(i) \/ CallEmbedder(i) \/ EmbedderAnswers(i) \/ IngestDone(i)

SweepSteps(w) ==
  \/ SweepReads(w, DueNow) \/ SweepAnswered(w)
  \/ \E r \in Ref : SweepClears(w, r) \/ SweepCalls(w, r)

ChunkNext ==
  \/ \E i \in Ingester : \/ ClearChunks(i) \/ Embeds(i)
                         \/ \E s \in Session, v \in Version : CommitText(i, s, v)
  \/ \E w \in Sweeper : \/ SweepSteps(w) \/ SweepSheds(w)
                        \/ \E due \in SUBSET DueNow : SweepReads(w, due)
  \/ Crash
=============================================================================
