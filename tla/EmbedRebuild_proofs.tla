------------------------- MODULE EmbedRebuild_proofs -------------------------
(***************************************************************************)
(* The chunk vectors are of the stored texts and none is lost, what a      *)
(* rebuild calls done for the lane of the table has vectors and the map of *)
(* such a table names none that is gone, for any sessions, texts,          *)
(* embedders, sweeps and deaths.                                           *)
(***************************************************************************)
EXTENDS EmbedRebuild, TLAPS

(* What is in memory across an await is of something.                        *)
IngestFits ==
  \A i \in Ingester :
    /\ ingest[i].s # None => ingest[i].of \in Version
    /\ ingest[i].cleared => ingest[i].s # None
    /\ ingest[i].at # None => ingest[i].cleared /\ ingest[i].by \in Lane

SweepFits == \A w \in Sweeper : sweep[w].at # None => sweep[w].read \in Version /\ sweep[w].by \in Lane

RebuildFits ==
  /\ rebuild.phase \notin {"none", "booting"} => rebuild.lane \in Lane
  /\ rebuild.phase = "embedding" => \A s \in rebuild.todo : rebuild.read[s] \in Version

(* A table, where there is one, holds vectors of its own dimension only.     *)
Placed(v) == v.of \in Version /\ tableLane # None /\ Dim[v.by] = Dim[tableLane]

TableFits == \A r \in Ref : HasVector(r) => Placed(vec[r])

MemoryInv == RebuildTypeOK /\ IngestFits /\ SweepFits /\ RebuildFits /\ TableFits

-----------------------------------------------------------------------------
(* The rebuild.  What counts as done for the lane of the table has vectors,  *)
(* on file and in the child.                                                 *)
HasVectors(done) == \A s \in done \cap byRebuild : \E c \in Chunk : HasVector(<<s, c>>)

FileIsTrue == file.for = tableLane => HasVectors(file.done)

ChildIsTrue == Works /\ rebuild.lane = tableLane => HasVectors(rebuild.done)

(* A file or a child for another lane than that of the table is one that     *)
(* embedding_config does not name.                                           *)
FileFitsConfig ==
  /\ row = tableLane => file.for \in {row, None}
  /\ file.for = None => file.done = {}

ChildFitsConfig == Works /\ row = tableLane => rebuild.lane = row

(* A child that drops the table does so for a lane that neither names, and   *)
(* has nothing done.                                                         *)
Drops == rebuild.phase \in {"dropping", "creating", "unmapping"}

DropsForItsLane ==
  /\ Drops => NeedsRebuild(rebuild.lane) /\ rebuild.done = {}
  /\ rebuild.phase = "creating" => tableLane = None
  /\ rebuild.phase = "unmapping" => tableLane = rebuild.lane

(* A chunk whose map row outlived its vector is in no table that somebody    *)
(* takes for whole.                                                          *)
Hollow(r) == Mapped(r) /\ ~HasVector(r)

NoneHollow == \A r \in Ref : ~Hollow(r)

TrustedIsWhole ==
  /\ tableLane # None /\ tableLane \in {row, file.for} => NoneHollow
  /\ Works /\ rebuild.lane = tableLane => NoneHollow

DoneInv ==
  /\ FileIsTrue /\ ChildIsTrue /\ FileFitsConfig /\ ChildFitsConfig
  /\ DropsForItsLane /\ TrustedIsWhole

-----------------------------------------------------------------------------
(* The ingests, one at a time per session.                                   *)
OneIngest == \A i, j \in Ingester : ingest[i].s # None /\ ingest[i].s = ingest[j].s => i = j

TextIsIngested == \A i \in Ingester : ingest[i].s # None => text[ingest[i].s] = ingest[i].of

ClearedFirst ==
  \A i \in Ingester : ingest[i].s # None /\ ~ingest[i].cleared => ingest[i].todo = ChunksIn[ingest[i].of]

(* A chunk of the text under way is still to be embedded, being embedded,    *)
(* embedded, or on record.                                                   *)
Settled(s, c) == Mapped(<<s, c>>) \/ pending[<<s, c>>] > 0

IngestLosesNothing ==
  \A i \in Ingester : ingest[i].cleared /\ ingest[i].s \notin byRebuild \cup cut =>
    \A c \in ChunksIn[ingest[i].of] :
      c \in ingest[i].todo \/ c = ingest[i].at \/ Settled(ingest[i].s, c)

VectorInv ==
  OneIngest /\ TextIsIngested /\ ClearedFirst /\ IngestLosesNothing /\ VectorsCurrent /\ NothingLost

-----------------------------------------------------------------------------
Ingest == [s : Session \cup {None}, of : Version \cup {None}, cleared : BOOLEAN, todo : SUBSET Chunk,
           at : Chunk \cup {None}, by : Lane \cup {None}]
Sweep  == [todo : SUBSET Ref, at : Ref \cup {None}, read : Version \cup {None}, by : Lane \cup {None}]
Rebuild == [phase : Phase, lane : Lane \cup {None}, todo : SUBSET Session,
            done : SUBSET Session, read : [Session -> Version \cup {None}], new : Nat]

LEMMA Types ==
  ASSUME RebuildTypeOK
  PROVE  /\ text \in [Session -> Version \cup {None}]
         /\ vec \in [Ref -> Vector \cup {NoVector}] /\ pending \in [Ref -> 0..MaxAttempts]
         /\ tableLane \in Lane \cup {None} /\ live \in Lane /\ cut \subseteq Session
         /\ ingest \in [Ingester -> Ingest] /\ sweep \in [Sweeper -> Sweep] /\ saving \subseteq Save
         /\ row \in Lane /\ file \in File /\ job \in {"idle", "running", "ended"} /\ rebuild \in Rebuild
         /\ byRebuild \subseteq Session /\ saves \in 0..MaxSaves /\ deaths \in 0..MaxDeaths
  BY DEF RebuildTypeOK, ChunkTypeOK, Ingest, Sweep, Rebuild

LEMMA TypesFit ==
  ASSUME text' \in [Session -> Version \cup {None}],
         vec' \in [Ref -> Vector \cup {NoVector}], pending' \in [Ref -> 0..MaxAttempts],
         tableLane' \in Lane \cup {None}, live' \in Lane, cut' \subseteq Session, saving' \subseteq Save,
         ingest' \in [Ingester -> Ingest], sweep' \in [Sweeper -> Sweep],
         row' \in Lane, file' \in File, job' \in {"idle", "running", "ended"}, rebuild' \in Rebuild,
         byRebuild' \subseteq Session, saves' \in 0..MaxSaves, deaths' \in 0..MaxDeaths
  PROVE  RebuildTypeOK'
  BY DEF RebuildTypeOK, ChunkTypeOK, Ingest, Sweep, Rebuild

LEMMA NothingInMemory ==
  /\ NoIngest \in Ingest /\ NoIngest.s = None /\ ~NoIngest.cleared /\ NoIngest.at = None
  /\ NoSweep \in Sweep /\ NoSweep.at = None
  /\ NoChild \in Rebuild /\ NoChild.phase = "none"
  /\ Spawned \in Rebuild /\ Spawned.phase = "booting"
  BY DEF NoIngest, Ingest, NoSweep, Sweep, NoChild, Spawned, Rebuild, Phase

(* What an answer of the embedder does to the two tables: it changes the one *)
(* chunk, which it leaves with a vector or on record, and takes none away.   *)
LEMMA AnswerFacts ==
  ASSUME RebuildTypeOK, NEW r \in Ref, NEW v \in Version, NEW lane \in Lane,
         InsertOrMark(r, v, lane) \/ MarkPending(r)
  PROVE  /\ vec' \in [Ref -> Vector \cup {NoVector}] /\ pending' \in [Ref -> 0..MaxAttempts]
         /\ \A q \in Ref : Mapped(q) => vec'[q] = vec[q]
         /\ \A q \in Ref : q # r => vec'[q] = vec[q] /\ pending'[q] = pending[q]
         /\ \/ vec'[r] = vec[r]
            \/ vec'[r].of = v /\ Placed(vec'[r])
         /\ vec'[r] # NoVector \/ pending'[r] > 0
<1> DEFINE new == [of |-> v, by |-> lane]
<1>1. /\ vec \in [Ref -> Vector \cup {NoVector}] /\ pending \in [Ref -> 0..MaxAttempts]
      /\ pending[r] \in 0..MaxAttempts /\ MaxAttempts \in Nat \ {0}
  BY Types, ChunkConstants
<1>2. new \in Vector /\ new # NoVector /\ new.of = v /\ new.by = lane
  BY ChunkConstants DEF Vector, NoVector
<1> HIDE DEF new
<1>3. CASE MarkPending(r)
  <2> DEFINE n == IF pending[r] < MaxAttempts THEN pending[r] + 1 ELSE pending[r]
  <2>1. n \in 0..MaxAttempts /\ n > 0 /\ 0 \in 0..MaxAttempts
    BY <1>1
  <2>2. vec' = vec /\ pending' = [pending EXCEPT ![r] = n]
    BY <1>3 DEF MarkPending
  <2> HIDE DEF n
  <2> QED  BY <1>1, <2>1, <2>2
<1>4. CASE Insert(r, v, lane) /\ ~Refused(r, lane)
  <2>1. 0 \in 0..MaxAttempts /\ pending' = [pending EXCEPT ![r] = 0]
    BY <1>1, <1>4 DEF Insert
  <2>2. CASE Mapped(r)
    BY <1>1, <1>4, <2>1, <2>2 DEF Insert, Mapped
  <2>3. CASE ~Mapped(r)
    <3>1. vec' = [vec EXCEPT ![r] = new] /\ Placed(new)
      BY <1>2, <1>4, <2>3 DEF Insert, Refused, Fits, Placed, new
    <3> QED  BY <1>1, <1>2, <2>1, <2>3, <3>1
  <2> QED  BY <2>2, <2>3
<1> QED  BY <1>3, <1>4 DEF InsertOrMark

(* Steps that take no vector of what a rebuild did, and leave no map row     *)
(* without one.                                                              *)
SameWork ==
  \/ rebuild'.phase \in {"none", "booting"}
  \/ /\ rebuild'.lane = rebuild.lane /\ rebuild'.done = rebuild.done
     /\ \/ rebuild'.phase = rebuild.phase
        \/ Works /\ Works'

LEMMA DoneKept ==
  ASSUME DoneInv, UNCHANGED <<row, file, tableLane>>, SameWork,
         byRebuild' \subseteq byRebuild,
         \A s \in byRebuild' : \A c \in Chunk : HasVector(<<s, c>>) => HasVector(<<s, c>>)',
         \A r \in Ref : Hollow(r)' => Hollow(r)
  PROVE  DoneInv'
<1>1. ASSUME NEW done, HasVectors(done) PROVE HasVectors(done)'
  BY <1>1 DEF HasVectors
<1>2. FileIsTrue' /\ FileFitsConfig'
  BY <1>1 DEF DoneInv, FileIsTrue, FileFitsConfig
<1>3. /\ Works' => Works /\ rebuild'.lane = rebuild.lane /\ rebuild'.done = rebuild.done
      /\ Drops' => rebuild'.phase = rebuild.phase /\ rebuild'.lane = rebuild.lane /\ rebuild'.done = rebuild.done
  BY DEF SameWork, Works, Drops
<1>4. ChildIsTrue' /\ ChildFitsConfig'
  BY <1>1, <1>3 DEF DoneInv, ChildIsTrue, ChildFitsConfig
<1>5. DropsForItsLane'
  BY <1>3 DEF DoneInv, DropsForItsLane, Drops, NeedsRebuild
<1>6. NoneHollow => NoneHollow'
  BY DEF NoneHollow
<1>7. TrustedIsWhole'
  BY <1>3, <1>6 DEF DoneInv, TrustedIsWhole
<1> QED  BY <1>2, <1>4, <1>5, <1>7 DEF DoneInv

(* Steps that leave the ingests and the texts alone: what they do to a       *)
(* session no rebuild or crash has touched is to add to it, rightly.         *)
LEMMA VectorsKept ==
  ASSUME VectorInv, UNCHANGED <<text, ingest, cut>>, byRebuild \subseteq byRebuild',
         \A r \in Ref : r[1] \notin byRebuild' \cup cut =>
           /\ Mapped(r) => vec'[r] = vec[r]
           /\ vec'[r] # NoVector /\ vec'[r] # vec[r] => vec'[r].of = text[r[1]]
           /\ Has(r[1], r[2]) /\ (Mapped(r) \/ pending[r] > 0) => vec'[r] # NoVector \/ pending'[r] > 0,
         \A i \in Ingester : ingest[i].cleared => ingest[i].s # None,
         \A i \in Ingester : ingest[i] \in Ingest,
         \A i \in Ingester : ingest[i].s # None => ingest[i].of \in Version
  PROVE  VectorInv'
<1>1. OneIngest' /\ TextIsIngested' /\ ClearedFirst'
  BY DEF VectorInv, OneIngest, TextIsIngested, ClearedFirst
<1>2. ASSUME NEW s \in Session, NEW c \in Chunk, s \notin byRebuild' \cup cut, Has(s, c), Settled(s, c)
      PROVE  Settled(s, c)'
  <2>1. <<s, c>> \in Ref /\ <<s, c>>[1] = s /\ <<s, c>>[2] = c
    BY DEF Ref
  <2> QED  BY <1>2, <2>1 DEF Settled, Mapped
<1>3. IngestLosesNothing'
  <2>1. SUFFICES ASSUME NEW i \in Ingester, ingest[i].cleared, ingest[i].s \notin byRebuild' \cup cut,
                        NEW c \in ChunksIn[ingest[i].of]
                 PROVE  c \in ingest[i].todo \/ c = ingest[i].at \/ Settled(ingest[i].s, c)'
    BY DEF IngestLosesNothing
  <2>2. /\ ingest[i].s \in Session /\ ingest[i].of \in Version /\ c \in Chunk
        /\ text[ingest[i].s] = ingest[i].of
    BY <2>1, ChunkConstants DEF Ingest, VectorInv, TextIsIngested
  <2>3. Has(ingest[i].s, c)
    BY <2>1, <2>2, ChunkConstants DEF Has
  <2>4. c \in ingest[i].todo \/ c = ingest[i].at \/ Settled(ingest[i].s, c)
    BY <2>1 DEF VectorInv, IngestLosesNothing
  <2> QED  BY <1>2, <2>1, <2>2, <2>3, <2>4
<1>4. VectorsCurrent'
  <2>1. SUFFICES ASSUME NEW r \in Ref, vec'[r] # NoVector, r[1] \notin byRebuild' \cup cut, ~Committed(r[1])
                 PROVE  vec'[r].of = text[r[1]]
    BY DEF VectorsCurrent, Mapped, Committed
  <2>2. CASE vec'[r] = vec[r]
    BY <2>1, <2>2 DEF VectorInv, VectorsCurrent, Mapped
  <2>3. CASE vec'[r] # vec[r]
    BY <2>1, <2>3
  <2> QED  BY <2>2, <2>3
<1>5. NothingLost'
  <2>1. SUFFICES ASSUME NEW s \in Session, s \notin byRebuild' \cup cut, ~Busy(s), NEW c \in Chunk, Has(s, c)
                 PROVE  Settled(s, c)'
    BY DEF NothingLost, Settled, Busy, Has
  <2>2. Settled(s, c)
    BY <2>1 DEF VectorInv, NothingLost, Settled
  <2> QED  BY <1>2, <2>1, <2>2
<1> QED  BY <1>1, <1>3, <1>4, <1>5 DEF VectorInv

EmbedInv == MemoryInv /\ DoneInv /\ (~Overlapping => VectorInv)

LEMMA MemoryFacts ==
  ASSUME MemoryInv
  PROVE  /\ \A i \in Ingester : ingest[i].cleared => ingest[i].s # None
         /\ \A i \in Ingester : ingest[i] \in Ingest
         /\ \A i \in Ingester : ingest[i].s # None => ingest[i].s \in Session /\ ingest[i].of \in Version
  BY Types DEF MemoryInv, IngestFits, Ingest

(* Steps that write no vector.                                               *)
LEMMA DoneUntouched ==
  ASSUME DoneInv, UNCHANGED <<row, file, tableLane, vec, byRebuild>>, SameWork
  PROVE  DoneInv'
<1>1. \A s \in byRebuild' : \A c \in Chunk : HasVector(<<s, c>>) => HasVector(<<s, c>>)'
  BY DEF HasVector
<1>2. \A r \in Ref : Hollow(r)' => Hollow(r)
  BY DEF Hollow, Mapped, HasVector
<1> QED  BY <1>1, <1>2, DoneKept

LEMMA VectorsUntouched ==
  ASSUME MemoryInv, VectorInv, UNCHANGED <<text, vec, pending, ingest, cut>>, byRebuild \subseteq byRebuild'
  PROVE  VectorInv'
<1>1. \A r \in Ref : r[1] \notin byRebuild' \cup cut =>
        /\ Mapped(r) => vec'[r] = vec[r]
        /\ vec'[r] # NoVector /\ vec'[r] # vec[r] => vec'[r].of = text[r[1]]
        /\ Has(r[1], r[2]) /\ (Mapped(r) \/ pending[r] > 0) => vec'[r] # NoVector \/ pending'[r] > 0
  BY DEF Mapped
<1> QED  BY <1>1, MemoryFacts, VectorsKept

(* Steps that only the operator, the supervisor and the child's own memory   *)
(* take part in.                                                             *)
LEMMA NothingWritten ==
  ASSUME EmbedInv, UNCHANGED <<text, vec, pending, tableLane, ingest, sweep, cut, row, file, byRebuild>>,
         live' \in Lane, saving' \subseteq Save, job' \in {"idle", "running", "ended"},
         saves' \in 0..MaxSaves, deaths' \in 0..MaxDeaths,
         rebuild' \in Rebuild, RebuildFits', SameWork
  PROVE  EmbedInv'
<1>1. RebuildTypeOK'
  BY Types, TypesFit DEF EmbedInv, MemoryInv
<1>2. MemoryInv'
  BY <1>1 DEF EmbedInv, MemoryInv, IngestFits, SweepFits, TableFits, Placed, HasVector
<1>3. DoneInv'
  BY DoneUntouched DEF EmbedInv
<1>4. ~Overlapping => VectorInv'
  BY VectorsUntouched DEF EmbedInv
<1> QED  BY <1>2, <1>3, <1>4 DEF EmbedInv

LEMMA RebuildTypes ==
  ASSUME EmbedInv
  PROVE  /\ RebuildTypeOK /\ live \in Lane /\ saving \subseteq Save /\ job \in {"idle", "running", "ended"}
         /\ saves \in 0..MaxSaves /\ deaths \in 0..MaxDeaths /\ rebuild \in Rebuild /\ RebuildFits
         /\ row \in Lane /\ file \in File /\ text \in [Session -> Version \cup {None}]
         /\ tableLane \in Lane \cup {None} /\ vec \in [Ref -> Vector \cup {NoVector}]
         /\ byRebuild \subseteq Session /\ None \notin Lane
  BY Types, ChunkConstants DEF EmbedInv, MemoryInv

LEMMA SaveChecksHolds ==
  ASSUME EmbedInv, NEW l \in Lane, SaveChecks(l)
  PROVE  EmbedInv'
<1>1. saves' \in 0..MaxSaves /\ saving' \subseteq Save
  <2>1. [lane |-> l, restarts |-> Stale(l)] \in Save
    BY DEF Save, Stale
  <2> QED  BY <2>1, RebuildTypes, RebuildConstants DEF SaveChecks
<1>2. UNCHANGED <<chunkVars, row, file, job, rebuild, byRebuild, deaths>>
  BY DEF SaveChecks
<1> QED  BY <1>1, <1>2, RebuildTypes, NothingWritten DEF chunkVars, RebuildFits, SameWork

LEMMA SaveSwapsHolds ==
  ASSUME EmbedInv, NEW x \in saving, SaveSwaps(x)
  PROVE  EmbedInv'
<1>1. /\ UNCHANGED <<text, vec, pending, tableLane, ingest, sweep, cut, row, file, byRebuild, saves, deaths>>
      /\ saving' = saving \ {x} /\ live' = x.lane
      /\ \/ UNCHANGED <<job, rebuild>>
         \/ job' = "running" /\ rebuild' = Spawned
         \/ job' = "ended" /\ UNCHANGED rebuild
  BY DEF SaveSwaps, StartRebuild
<1>2. live' \in Lane /\ saving' \subseteq Save /\ job' \in {"idle", "running", "ended"} /\ rebuild' \in Rebuild
  BY <1>1, RebuildTypes, NothingInMemory DEF Save
<1>3. RebuildFits' /\ SameWork
  BY <1>1, RebuildTypes, NothingInMemory DEF RebuildFits, SameWork
<1> QED  BY <1>1, <1>2, <1>3, RebuildTypes, NothingWritten

-----------------------------------------------------------------------------
(* The child.                                                                *)
LEMMA ChildFailsHolds ==
  ASSUME EmbedInv, NEW s \in Session, ChildFails(s)
  PROVE  EmbedInv'
<1>1. /\ rebuild' \in Rebuild /\ rebuild'.phase = rebuild.phase /\ rebuild'.lane = rebuild.lane
      /\ rebuild'.done = rebuild.done /\ rebuild'.read = rebuild.read /\ rebuild'.todo \subseteq rebuild.todo
  BY RebuildTypes DEF ChildFails, Rebuild
<1>2. UNCHANGED <<chunkVars, row, file, saving, job, byRebuild, saves, deaths>>
  BY DEF ChildFails
<1>3. RebuildFits' /\ SameWork
  BY <1>1, RebuildTypes DEF RebuildFits, SameWork
<1> QED  BY <1>1, <1>2, <1>3, RebuildTypes, NothingWritten DEF chunkVars

LEMMA ChildDiesHolds ==
  ASSUME EmbedInv, ChildDies
  PROVE  EmbedInv'
<1>1. /\ UNCHANGED <<chunkVars, row, file, saving, byRebuild, saves>>
      /\ deaths < MaxDeaths /\ deaths' = deaths + 1
      /\ \/ rebuild' = Spawned /\ UNCHANGED job
         \/ rebuild' = NoChild /\ job' = "ended"
  BY DEF ChildDies
<1>2. rebuild' \in Rebuild /\ job' \in {"idle", "running", "ended"} /\ deaths' \in 0..MaxDeaths
  BY <1>1, RebuildTypes, NothingInMemory, RebuildConstants
<1>3. RebuildFits' /\ SameWork
  BY <1>1, NothingInMemory DEF RebuildFits, SameWork
<1> QED  BY <1>1, <1>2, <1>3, RebuildTypes, NothingWritten DEF chunkVars

LEMMA ChildCompletesHolds ==
  ASSUME EmbedInv, ChildCompletes
  PROVE  EmbedInv'
<1>1. /\ UNCHANGED <<chunkVars, saving, byRebuild, saves, deaths>> /\ rebuild.phase = "embedding"
      /\ row' = rebuild.lane /\ row' \in Lane /\ job' = "ended" /\ rebuild' = NoChild
      /\ file' = [done |-> rebuild.done, for |-> rebuild.lane] /\ rebuild.done \subseteq Session
  BY RebuildTypes DEF ChildCompletes, RebuildFits, Rebuild
<1>2. RebuildTypeOK'
  BY <1>1, RebuildTypes, Types, TypesFit, NothingInMemory DEF chunkVars, File
<1>3. MemoryInv'
  BY <1>1, <1>2, NothingInMemory
     DEF EmbedInv, MemoryInv, IngestFits, SweepFits, RebuildFits, TableFits, Placed, HasVector, chunkVars
<1>4. DoneInv'
  <2>1. Works /\ ~Works' /\ ~Drops' /\ rebuild'.phase \notin {"creating", "unmapping"}
    BY <1>1, NothingInMemory DEF Works, Drops
  <2>2. FileIsTrue'
    BY <1>1, <2>1 DEF EmbedInv, DoneInv, ChildIsTrue, FileIsTrue, HasVectors, HasVector, chunkVars
  <2>3. FileFitsConfig'
    BY <1>1, ChunkConstants DEF FileFitsConfig
  <2>4. TrustedIsWhole'
    BY <1>1, <2>1 DEF EmbedInv, DoneInv, TrustedIsWhole, NoneHollow, Hollow, Mapped, HasVector, chunkVars
  <2> QED  BY <2>1, <2>2, <2>3, <2>4 DEF DoneInv, ChildIsTrue, ChildFitsConfig, DropsForItsLane
<1>5. ~Overlapping => VectorInv'
  BY <1>1, VectorsUntouched DEF EmbedInv, chunkVars
<1> QED  BY <1>3, <1>4, <1>5 DEF EmbedInv

(* A child that boots without a drop goes on with what is on file for its    *)
(* lane, or with nothing.                                                    *)
LEMMA ChildBootsHolds ==
  ASSUME EmbedInv, ChildBoots
  PROVE  EmbedInv'
<1>1. /\ UNCHANGED <<text, vec, pending, tableLane, live, ingest, sweep, cut, row, file, saving, job,
                     byRebuild, saves, deaths>>
      /\ rebuild.phase = "booting" /\ rebuild'.lane = live /\ rebuild'.done = Skipped(live)
      /\ rebuild'.phase = IF NeedsRebuild(live) THEN "dropping" ELSE "selecting"
  BY RebuildTypes DEF ChildBoots, ChildUnchanged, Rebuild
<1>2. rebuild' \in Rebuild
  <2>1. Skipped(live) \in SUBSET Session
    BY RebuildTypes DEF Skipped, File
  <2>2. (IF NeedsRebuild(live) THEN "dropping" ELSE "selecting") \in Phase
    BY DEF Phase
  <2> QED  BY <2>1, <2>2, RebuildTypes DEF ChildBoots, Rebuild
<1>3. RebuildTypeOK'
  BY <1>1, <1>2, RebuildTypes, Types, TypesFit
<1>4. MemoryInv'
  BY <1>1, <1>3, RebuildTypes
     DEF EmbedInv, MemoryInv, IngestFits, SweepFits, RebuildFits, TableFits, Placed, HasVector
<1>5. DoneInv'
  <2>1. FileIsTrue' /\ FileFitsConfig'
    BY <1>1 DEF EmbedInv, DoneInv, FileIsTrue, FileFitsConfig, HasVectors, HasVector
  <2>2. NoneHollow' <=> NoneHollow
    BY <1>1 DEF NoneHollow, Hollow, Mapped, HasVector
  <2>3. CASE NeedsRebuild(live)
    <3>1. Drops' /\ ~Works' /\ rebuild'.phase \notin {"creating", "unmapping"} /\ rebuild'.done = {} /\ NeedsRebuild(live)'
      BY <1>1, <2>3 DEF Drops, Works, Skipped, NeedsRebuild
    <3>2. DropsForItsLane'
      BY <1>1, <3>1 DEF DropsForItsLane, NeedsRebuild
    <3>3. TrustedIsWhole'
      BY <1>1, <2>2, <3>1 DEF EmbedInv, DoneInv, TrustedIsWhole
    <3> QED  BY <2>1, <3>1, <3>2, <3>3 DEF DoneInv, ChildIsTrue, ChildFitsConfig
  <2>4. CASE ~NeedsRebuild(live)
    <3>1. Works' /\ ~Drops' /\ rebuild'.phase \notin {"creating", "unmapping"} /\ Skipped(live) = file.done
      BY <1>1, <2>4 DEF Drops, Works, Skipped
    <3>2. live \in {row, file.for} /\ live # None
      BY <2>4, RebuildTypes DEF NeedsRebuild
    <3>3. ChildIsTrue'
      <4>1. live = tableLane => HasVectors(file.done)
        BY <3>2 DEF EmbedInv, DoneInv, FileIsTrue, FileFitsConfig, HasVectors
      <4> QED  BY <1>1, <3>1, <4>1 DEF ChildIsTrue, HasVectors, HasVector
    <3>4. ChildFitsConfig'
      BY <1>1, <3>2 DEF EmbedInv, DoneInv, FileFitsConfig, ChildFitsConfig
    <3>5. TrustedIsWhole'
      BY <1>1, <2>2, <3>2 DEF EmbedInv, DoneInv, TrustedIsWhole
    <3> QED  BY <2>1, <3>1, <3>3, <3>4, <3>5 DEF DoneInv, DropsForItsLane
  <2> QED  BY <2>3, <2>4
<1>6. ~Overlapping => VectorInv'
  BY <1>1, VectorsUntouched DEF EmbedInv
<1> QED  BY <1>4, <1>5, <1>6 DEF EmbedInv

LEMMA ChildSelectsHolds ==
  ASSUME EmbedInv, ChildSelects
  PROVE  EmbedInv'
<1>1. /\ UNCHANGED <<text, vec, pending, tableLane, live, ingest, sweep, cut, row, file, saving, job,
                     byRebuild, saves, deaths>>
      /\ rebuild.phase = "selecting" /\ rebuild'.phase = "embedding" /\ rebuild'.lane = rebuild.lane
      /\ rebuild'.done = rebuild.done /\ rebuild'.read = text
      /\ rebuild'.todo \subseteq {s \in Session : text[s] # None}
  BY RebuildTypes DEF ChildSelects, ChildUnchanged, Rebuild
<1>2. rebuild' \in Rebuild
  BY RebuildTypes DEF ChildSelects, Rebuild, Phase
<1>3. RebuildFits'
  BY <1>1, RebuildTypes DEF RebuildFits
<1>4. SameWork
  BY <1>1 DEF SameWork, Works
<1> QED  BY <1>1, <1>2, <1>3, <1>4, RebuildTypes, NothingWritten

(* The three statements of the drop.  The sessions are all the rebuild's     *)
(* then, and what the daemon writes in between is not of a child that works. *)
LEMMA DropStep ==
  ASSUME EmbedInv, Drops, ChildUnchanged,
         vec' \in [Ref -> Vector \cup {NoVector}], tableLane' \in Lane \cup {None},
         byRebuild' = Session \/ (vec' = vec /\ byRebuild' = byRebuild),
         rebuild' \in Rebuild, rebuild'.lane = rebuild.lane, rebuild'.done = rebuild.done,
         rebuild'.phase \notin {"none", "booting", "embedding"},
         TableFits', tableLane' \in {None, rebuild.lane},
         rebuild'.phase = "creating" => tableLane' = None,
         rebuild'.phase = "unmapping" => tableLane' = rebuild.lane,
         Works' => NoneHollow'
  PROVE  EmbedInv'
<1>1. UNCHANGED <<text, pending, live, ingest, sweep, cut, row, file, saving, job, saves, deaths>>
  BY DEF ChildUnchanged
<1>2. /\ byRebuild' \subseteq Session /\ byRebuild \subseteq byRebuild'
  BY RebuildTypes
<1>3. RebuildTypeOK'
  BY <1>1, <1>2, RebuildTypes, Types, TypesFit
<1>4. MemoryInv'
  <2>1. RebuildFits'
    BY RebuildTypes DEF RebuildFits, Drops
  <2> QED  BY <1>1, <1>3, <2>1 DEF EmbedInv, MemoryInv, IngestFits, SweepFits
<1>5. DoneInv'
  <2>1. /\ row # rebuild.lane /\ file.for # rebuild.lane /\ rebuild.done = {} /\ row # None
        /\ file.for = None => file.done = {}
    BY RebuildTypes DEF EmbedInv, DoneInv, DropsForItsLane, NeedsRebuild, FileFitsConfig
  <2>2. FileIsTrue' /\ FileFitsConfig' /\ ChildFitsConfig'
    BY <1>1, <2>1 DEF FileIsTrue, FileFitsConfig, ChildFitsConfig, HasVectors
  <2>3. ChildIsTrue' /\ DropsForItsLane'
    BY <1>1, <2>1 DEF ChildIsTrue, DropsForItsLane, HasVectors, NeedsRebuild
  <2>4. TrustedIsWhole'
    BY <1>1, <2>1 DEF TrustedIsWhole
  <2> QED  BY <2>2, <2>3, <2>4 DEF DoneInv
<1>6. ~Overlapping => VectorInv'
  <2>1. \A r \in Ref : r[1] \notin byRebuild' \cup cut => vec' = vec
    BY DEF Ref
  <2>2. \A r \in Ref : r[1] \notin byRebuild' \cup cut =>
          /\ Mapped(r) => vec'[r] = vec[r]
          /\ vec'[r] # NoVector /\ vec'[r] # vec[r] => vec'[r].of = text[r[1]]
          /\ Has(r[1], r[2]) /\ (Mapped(r) \/ pending[r] > 0) => vec'[r] # NoVector \/ pending'[r] > 0
    BY <1>1, <2>1 DEF Mapped
  <2> QED  BY <1>1, <1>2, <2>2, MemoryFacts, VectorsKept DEF EmbedInv
<1> QED  BY <1>4, <1>5, <1>6 DEF EmbedInv

LEMMA DropTableHolds ==
  ASSUME EmbedInv, DropTable
  PROVE  EmbedInv'
<1>1. /\ rebuild'.phase = "creating" /\ rebuild'.lane = rebuild.lane /\ rebuild'.done = rebuild.done
      /\ rebuild' \in Rebuild /\ Drops /\ ~Works'
  BY RebuildTypes DEF DropTable, Rebuild, Phase, Drops, Works
<1>2. tableLane' = None /\ byRebuild' = Session /\ ChildUnchanged
  BY DEF DropTable
<1>3. vec' \in [Ref -> Vector \cup {NoVector}] /\ \A r \in Ref : vec'[r].of = None
  <2>1. ASSUME NEW r \in Ref
        PROVE  /\ [vec[r] EXCEPT !.of = None] \in Vector \cup {NoVector}
               /\ [vec[r] EXCEPT !.of = None].of = None
    <3>1. CASE vec[r] \in Vector
      BY <3>1 DEF Vector
    <3>2. CASE vec[r] = NoVector
      BY <3>2 DEF NoVector
    <3> QED  BY <3>1, <3>2, RebuildTypes
  <2>2. vec' = [r \in Ref |-> [vec[r] EXCEPT !.of = None]]
    BY DEF DropTable
  <2> QED  BY <2>1, <2>2
<1>4. TableFits'
  BY <1>3 DEF TableFits, HasVector
<1> QED  BY <1>1, <1>2, <1>3, <1>4, DropStep

LEMMA CreateTableHolds ==
  ASSUME EmbedInv, CreateTable
  PROVE  EmbedInv'
<1>1. /\ rebuild'.phase = "unmapping" /\ rebuild'.lane = rebuild.lane /\ rebuild'.done = rebuild.done
      /\ rebuild' \in Rebuild /\ Drops /\ ~Works' /\ rebuild.lane \in Lane
  BY RebuildTypes DEF CreateTable, Rebuild, Phase, Drops, Works, RebuildFits
<1>2. tableLane' = rebuild.lane /\ ChildUnchanged /\ vec' = vec /\ byRebuild' = byRebuild
  BY DEF CreateTable
<1>3. tableLane = None
  BY DEF EmbedInv, DoneInv, DropsForItsLane, CreateTable
<1>4. TableFits'
  BY <1>2, <1>3 DEF EmbedInv, MemoryInv, TableFits, HasVector, Placed
<1> QED  BY <1>1, <1>2, <1>4, RebuildTypes, DropStep

LEMMA DeleteMapHolds ==
  ASSUME EmbedInv, DeleteMap
  PROVE  EmbedInv'
<1>1. /\ rebuild'.phase = "selecting" /\ rebuild'.lane = rebuild.lane /\ rebuild'.done = rebuild.done
      /\ rebuild' \in Rebuild /\ Drops /\ tableLane = rebuild.lane
  BY RebuildTypes DEF DeleteMap, Rebuild, Phase, Drops, EmbedInv, DoneInv, DropsForItsLane
<1>2. tableLane' = tableLane /\ ChildUnchanged /\ byRebuild' = Session
  BY DEF DeleteMap
<1>3. vec' \in [Ref -> Vector \cup {NoVector}] /\ \A r \in Ref : vec'[r] = NoVector
  BY DEF DeleteMap, MapEmptied
<1>4. TableFits' /\ NoneHollow'
  BY <1>3 DEF TableFits, NoneHollow, Hollow, Mapped, HasVector, NoVector
<1> QED  BY <1>1, <1>2, <1>3, <1>4, RebuildTypes, DropStep

LEMMA ChildEmbedsHolds ==
  ASSUME EmbedInv, NEW s \in Session, NEW S \in SUBSET Chunk, ChildEmbeds(s, S)
  PROVE  EmbedInv'
<1> DEFINE done == rebuild.done \cup {s}
           new  == [of |-> rebuild.read[s], by |-> rebuild.lane]
<1>1. /\ UNCHANGED <<text, pending, tableLane, live, ingest, sweep, cut, row, saving, job, saves, deaths>>
      /\ rebuild.phase = "embedding" /\ s \in rebuild.todo /\ S # {}
      /\ Fits(rebuild.lane) /\ byRebuild' = byRebuild \cup {s}
      /\ file' = [done |-> done, for |-> rebuild.lane] \/ file' = file
  BY DEF ChildEmbeds
<1>2. /\ rebuild \in Rebuild /\ file \in File /\ vec \in [Ref -> Vector \cup {NoVector}]
      /\ byRebuild \subseteq Session
      /\ rebuild.lane \in Lane /\ rebuild.read[s] \in Version /\ rebuild.done \subseteq Session
  BY <1>1, RebuildTypes DEF RebuildFits, Rebuild
<1>3. new \in Vector /\ new # NoVector /\ new.of # None /\ Placed(new) /\ NoVector.of = None
  BY <1>1, <1>2, ChunkConstants DEF Vector, NoVector, Placed, Fits
<1>4. /\ rebuild' \in Rebuild /\ rebuild'.phase = "embedding" /\ rebuild'.lane = rebuild.lane
      /\ rebuild'.done = done /\ rebuild'.read = rebuild.read /\ rebuild'.todo \subseteq rebuild.todo
  <2>1. rebuild' = [rebuild EXCEPT !.todo = @ \ {s}, !.done = done, !.new = rebuild.new + 1]
    BY DEF ChildEmbeds
  <2>2. done \in SUBSET Session /\ rebuild.todo \ {s} \in SUBSET Session /\ rebuild.new + 1 \in Nat
    BY <1>2 DEF Rebuild
  <2> HIDE DEF done
  <2> QED  BY <1>1, <1>2, <2>1, <2>2 DEF Rebuild
<1>5. vec' = [r \in Ref |-> IF r[1] # s THEN vec[r] ELSE IF r[2] \in S THEN new ELSE NoVector]
  BY DEF ChildEmbeds, Rewritten
<1> HIDE DEF new
<1>6. /\ vec' \in [Ref -> Vector \cup {NoVector}]
      /\ \A r \in Ref : r[1] # s => vec'[r] = vec[r]
      /\ \A r \in Ref : r[1] = s => vec'[r] \in {new, NoVector}
      /\ \A c \in S : vec'[<<s, c>>] = new
  <2>1. \A c \in S : <<s, c>> \in Ref /\ <<s, c>>[1] = s /\ <<s, c>>[2] = c
    BY DEF Ref
  <2> QED  BY <1>2, <1>3, <1>5, <2>1
<1>7. file' \in File
  BY <1>1, <1>2 DEF File
<1>8. RebuildTypeOK'
  <2>1. byRebuild' \subseteq Session
    BY <1>1, <1>2
  <2>2. RebuildTypeOK
    BY DEF EmbedInv, MemoryInv
  <2> QED  BY <1>1, <1>4, <1>6, <1>7, <2>1, <2>2, Types, TypesFit
<1>9. MemoryInv'
  <2>1. RebuildFits'
    BY <1>1, <1>4 DEF EmbedInv, MemoryInv, RebuildFits
  <2>2. TableFits'
    <3>1. SUFFICES ASSUME NEW r \in Ref, vec'[r].of # None
                   PROVE  Placed(vec'[r])
      BY <1>1 DEF TableFits, HasVector, Placed
    <3>2. CASE r[1] = s
      BY <1>3, <1>6, <3>1, <3>2
    <3>3. CASE r[1] # s
      BY <1>6, <3>1, <3>3 DEF EmbedInv, MemoryInv, TableFits, HasVector
    <3> QED  BY <3>2, <3>3
  <2> QED  BY <1>1, <1>8, <2>1, <2>2 DEF EmbedInv, MemoryInv, IngestFits, SweepFits
<1> DEFINE After(d) == \A q \in d \cap byRebuild' : \E c \in Chunk : vec'[<<q, c>>].of # None
<1>10. ASSUME NEW d, HasVectors(d)
       PROVE  After(d) /\ After(d \cup {s})
  <2>1. SUFFICES ASSUME NEW q \in (d \cup {s}) \cap (byRebuild \cup {s})
                 PROVE  \E c \in Chunk : vec'[<<q, c>>].of # None
    BY <1>1
  <2>2. CASE q = s
    BY <1>1, <1>3, <1>6, <2>2
  <2>3. CASE q # s
    <3>1. PICK c \in Chunk : HasVector(<<q, c>>)
      BY <1>10, <2>1, <2>3 DEF HasVectors
    <3>2. <<q, c>> \in Ref /\ <<q, c>>[1] # s
      BY <1>2, <2>1, <2>3 DEF Ref
    <3> QED  BY <1>6, <3>1, <3>2 DEF HasVector
  <2> QED  BY <2>2, <2>3
<1>11. DoneInv'
  <2>1. (rebuild.lane = tableLane => After(done)) /\ (file.for = tableLane => After(file.done))
    BY <1>1, <1>10 DEF EmbedInv, DoneInv, ChildIsTrue, FileIsTrue, Works
  <2>2. FileIsTrue'
    <3>1. CASE file' = [done |-> done, for |-> rebuild.lane]
      BY <1>1, <2>1, <3>1 DEF FileIsTrue, HasVectors, HasVector
    <3>2. CASE file' = file
      BY <1>1, <2>1, <3>2 DEF FileIsTrue, HasVectors, HasVector
    <3> QED  BY <1>1, <3>1, <3>2
  <2>3. ChildIsTrue'
    BY <1>1, <1>4, <2>1 DEF ChildIsTrue, HasVectors, HasVector
  <2>4. FileFitsConfig'
    <3>1. row = tableLane => rebuild.lane = row
      BY <1>1 DEF EmbedInv, DoneInv, ChildFitsConfig, Works
    <3> QED  BY <1>1, <1>2, <3>1, ChunkConstants DEF EmbedInv, DoneInv, FileFitsConfig
  <2>5. ChildFitsConfig'
    BY <1>1, <1>4 DEF EmbedInv, DoneInv, ChildFitsConfig, Works
  <2>6. DropsForItsLane'
    BY <1>4 DEF DropsForItsLane, Drops
  <2>7. TrustedIsWhole'
    <3>1. NoneHollow => NoneHollow'
      <4>1. SUFFICES ASSUME NoneHollow, NEW r \in Ref, vec'[r] # NoVector PROVE vec'[r].of # None
        BY DEF NoneHollow, Hollow, Mapped, HasVector
      <4>2. CASE r[1] = s
        BY <1>3, <1>6, <4>1, <4>2
      <4>3. CASE r[1] # s
        BY <1>6, <4>1, <4>3 DEF NoneHollow, Hollow, Mapped, HasVector
      <4> QED  BY <4>2, <4>3
    <3>2. file'.for \in {file.for, rebuild.lane} /\ Works
      BY <1>1 DEF Works
    <3> QED  BY <1>1, <1>4, <3>1, <3>2 DEF EmbedInv, DoneInv, TrustedIsWhole
  <2> QED  BY <2>2, <2>3, <2>4, <2>5, <2>6, <2>7 DEF DoneInv
<1>12. ~Overlapping => VectorInv'
  <2>1. byRebuild \subseteq byRebuild' /\ pending' = pending
    BY <1>1
  <2>2. \A r \in Ref : r[1] \notin byRebuild' \cup cut =>
          /\ Mapped(r) => vec'[r] = vec[r]
          /\ vec'[r] # NoVector /\ vec'[r] # vec[r] => vec'[r].of = text[r[1]]
          /\ Has(r[1], r[2]) /\ (Mapped(r) \/ pending[r] > 0) => vec'[r] # NoVector \/ pending'[r] > 0
    BY <1>1, <1>6 DEF Mapped
  <2> QED  BY <1>1, <2>1, <2>2, MemoryFacts, VectorsKept DEF EmbedInv
<1> QED  BY <1>9, <1>11, <1>12 DEF EmbedInv

-----------------------------------------------------------------------------
(* The sweep.  A step of it changes its own memory, and adds to a session    *)
(* only what is of its text.                                                 *)
LEMMA SweepStep ==
  ASSUME EmbedInv, UNCHANGED <<text, tableLane, live, ingest, cut, rebuildVars>>,
         vec' \in [Ref -> Vector \cup {NoVector}], pending' \in [Ref -> 0..MaxAttempts],
         sweep' \in [Sweeper -> Sweep], SweepFits',
         \A r \in Ref : Mapped(r) => vec'[r] = vec[r],
         \A r \in Ref : vec'[r] # vec[r] => vec'[r].of = text[r[1]] /\ Placed(vec'[r]),
         \A r \in Ref : Has(r[1], r[2]) /\ (Mapped(r) \/ pending[r] > 0) => vec'[r] # NoVector \/ pending'[r] > 0
  PROVE  EmbedInv'
<1>1. RebuildTypeOK'
  BY Types, TypesFit DEF EmbedInv, MemoryInv, rebuildVars
<1>2. MemoryInv'
  <2>1. TableFits'
    <3>1. SUFFICES ASSUME NEW r \in Ref, vec'[r].of # None
                   PROVE  Placed(vec'[r])
      BY DEF TableFits, HasVector, Placed
    <3>2. CASE vec'[r] = vec[r]
      BY <3>1, <3>2 DEF EmbedInv, MemoryInv, TableFits, HasVector
    <3> QED  BY <3>2
  <2> QED  BY <1>1, <2>1 DEF EmbedInv, MemoryInv, IngestFits, RebuildFits, rebuildVars
<1>3. DoneInv'
  <2>1. \A s \in byRebuild' : \A c \in Chunk : HasVector(<<s, c>>) => HasVector(<<s, c>>)'
    <3>1. byRebuild \subseteq Session /\ byRebuild' = byRebuild
      BY Types DEF EmbedInv, MemoryInv, rebuildVars
    <3>2. \A s \in byRebuild : \A c \in Chunk : <<s, c>> \in Ref
      BY <3>1 DEF Ref
    <3> QED  BY <3>1, <3>2 DEF HasVector, Mapped, NoVector
  <2>2. \A r \in Ref : Hollow(r)' => Hollow(r)
    BY ChunkConstants DEF Hollow, Mapped, HasVector, Placed
  <2>3. SameWork
    BY DEF SameWork, rebuildVars
  <2> QED  BY <2>1, <2>2, <2>3, DoneKept DEF EmbedInv, rebuildVars
<1>4. ~Overlapping => VectorInv'
  <2>1. \A r \in Ref : r[1] \notin byRebuild' \cup cut =>
          /\ Mapped(r) => vec'[r] = vec[r]
          /\ vec'[r] # NoVector /\ vec'[r] # vec[r] => vec'[r].of = text[r[1]]
          /\ Has(r[1], r[2]) /\ (Mapped(r) \/ pending[r] > 0) => vec'[r] # NoVector \/ pending'[r] > 0
    OBVIOUS
  <2>2. byRebuild \subseteq byRebuild'
    BY DEF rebuildVars
  <2> QED  BY <2>1, <2>2, MemoryFacts, VectorsKept DEF EmbedInv
<1> QED  BY <1>2, <1>3, <1>4 DEF EmbedInv

(* The steps that only change what a tick has in memory.                     *)
LEMMA SweepMemory ==
  ASSUME EmbedInv, UNCHANGED <<text, vec, pending, tableLane, live, ingest, cut, rebuildVars>>,
         NEW w \in Sweeper, NEW t \in Sweep, sweep' = [sweep EXCEPT ![w] = t],
         t.at # None => t.read \in Version /\ t.by \in Lane
  PROVE  EmbedInv'
<1>1. /\ vec \in [Ref -> Vector \cup {NoVector}] /\ pending \in [Ref -> 0..MaxAttempts]
      /\ sweep \in [Sweeper -> Sweep] /\ SweepFits
  BY Types DEF EmbedInv, MemoryInv
<1>2. sweep' \in [Sweeper -> Sweep] /\ SweepFits'
  BY <1>1 DEF SweepFits
<1> QED  BY <1>1, <1>2, SweepStep DEF Mapped

LEMMA SweepReadsHolds ==
  ASSUME EmbedInv, UNCHANGED rebuildVars, NEW w \in Sweeper, NEW due \in SUBSET DueNow, SweepReads(w, due)
  PROVE  EmbedInv'
<1> DEFINE t == [sweep[w] EXCEPT !.todo = due]
<1>1. sweep[w] \in Sweep /\ sweep[w].at = None /\ due \in SUBSET Ref
  BY Types, NothingInMemory DEF EmbedInv, MemoryInv, SweepReads, DueNow
<1>2. t \in Sweep /\ t.at = None
  BY <1>1 DEF Sweep
<1>3. sweep' = [sweep EXCEPT ![w] = t]
  BY DEF SweepReads
<1> HIDE DEF t
<1> QED  BY <1>2, <1>3, SweepMemory DEF SweepReads

LEMMA SweepCallsHolds ==
  ASSUME EmbedInv, UNCHANGED rebuildVars, NEW w \in Sweeper, NEW r \in Ref, SweepCalls(w, r)
  PROVE  EmbedInv'
<1> DEFINE t == [todo |-> sweep[w].todo \ {r}, at |-> r, read |-> text[r[1]], by |-> live]
<1>1. sweep[w] \in Sweep /\ live \in Lane /\ text[r[1]] \in Version
  <2>1. r[1] \in Session /\ text[r[1]] # None
    BY DEF Ref, SweepCalls, Has
  <2> QED  BY <2>1, Types DEF EmbedInv, MemoryInv
<1>2. t \in Sweep /\ t.read \in Version /\ t.by \in Lane
  BY <1>1 DEF Sweep
<1>3. sweep' = [sweep EXCEPT ![w] = t]
  BY DEF SweepCalls
<1> HIDE DEF t
<1> QED  BY <1>2, <1>3, SweepMemory DEF SweepCalls

LEMMA SweepShedsHolds ==
  ASSUME EmbedInv, UNCHANGED rebuildVars, NEW w \in Sweeper, SweepSheds(w)
  PROVE  EmbedInv'
BY NothingInMemory, SweepMemory DEF SweepSheds

LEMMA SweepClearsHolds ==
  ASSUME EmbedInv, UNCHANGED rebuildVars, NEW w \in Sweeper, NEW r \in Ref, SweepClears(w, r)
  PROVE  EmbedInv'
<1> DEFINE t == [sweep[w] EXCEPT !.todo = sweep[w].todo \ {r}]
<1>1. /\ vec \in [Ref -> Vector \cup {NoVector}] /\ pending \in [Ref -> 0..MaxAttempts]
      /\ sweep \in [Sweeper -> Sweep] /\ SweepFits /\ sweep[w].at = None /\ 0 \in 0..MaxAttempts
  BY Types, ChunkConstants DEF EmbedInv, MemoryInv, SweepClears
<1>2. t \in Sweep /\ t.at = None
  BY <1>1 DEF Sweep
<1>3. sweep' = [sweep EXCEPT ![w] = t]
  BY DEF SweepClears
<1> HIDE DEF t
<1>4. sweep' \in [Sweeper -> Sweep] /\ SweepFits'
  BY <1>1, <1>2, <1>3 DEF SweepFits
<1>5. /\ pending' \in [Ref -> 0..MaxAttempts] /\ vec' = vec /\ ~Has(r[1], r[2])
      /\ \A q \in Ref : q # r => pending'[q] = pending[q]
  BY <1>1 DEF SweepClears
<1>6. \A q \in Ref : Has(q[1], q[2]) /\ (Mapped(q) \/ pending[q] > 0) => vec'[q] # NoVector \/ pending'[q] > 0
  BY <1>5 DEF Mapped
<1> QED  BY <1>1, <1>4, <1>5, <1>6, SweepStep DEF SweepClears

LEMMA SweepAnsweredHolds ==
  ASSUME EmbedInv, UNCHANGED rebuildVars, NEW w \in Sweeper, SweepAnswered(w)
  PROVE  EmbedInv'
<1> DEFINE r == sweep[w].at
           v == sweep[w].read
           t == [NoSweep EXCEPT !.todo = sweep[w].todo]
<1>1. /\ vec \in [Ref -> Vector \cup {NoVector}] /\ pending \in [Ref -> 0..MaxAttempts]
      /\ sweep \in [Sweeper -> Sweep] /\ SweepFits /\ RebuildTypeOK
  BY Types DEF EmbedInv, MemoryInv
<1>2. r \in Ref /\ v \in Version /\ sweep[w].by \in Lane
  BY <1>1 DEF SweepAnswered, SweepFits, Sweep
<1>3. t \in Sweep /\ t.at = None
  BY <1>1, NothingInMemory DEF Sweep
<1>4. sweep' = [sweep EXCEPT ![w] = t]
  BY DEF SweepAnswered
<1> HIDE DEF t
<1>5. sweep' \in [Sweeper -> Sweep] /\ SweepFits'
  BY <1>1, <1>3, <1>4 DEF SweepFits
<1>6. UNCHANGED <<text, tableLane, live, ingest, cut>>
  BY DEF SweepAnswered
<1>7. CASE StillWanted(r, v) /\ InsertOrMark(r, v, sweep[w].by)
  <2>1. text[r[1]] = v
    BY <1>7 DEF StillWanted
  <2> HIDE DEF r, v
  <2>2. /\ vec' \in [Ref -> Vector \cup {NoVector}] /\ pending' \in [Ref -> 0..MaxAttempts]
        /\ \A q \in Ref : Mapped(q) => vec'[q] = vec[q]
        /\ \A q \in Ref : q # r => vec'[q] = vec[q] /\ pending'[q] = pending[q]
        /\ \/ vec'[r] = vec[r]
           \/ vec'[r].of = v /\ Placed(vec'[r])
        /\ vec'[r] # NoVector \/ pending'[r] > 0
    BY <1>1, <1>2, <1>7, AnswerFacts
  <2>3. \A q \in Ref : vec'[q] # vec[q] => vec'[q].of = text[q[1]] /\ Placed(vec'[q])
    BY <2>1, <2>2
  <2>4. \A q \in Ref : Mapped(q) \/ pending[q] > 0 => vec'[q] # NoVector \/ pending'[q] > 0
    BY <2>2 DEF Mapped
  <2> QED  BY <1>5, <1>6, <2>2, <2>3, <2>4, SweepStep
<1>8. CASE MarkPending(r)
  <2> HIDE DEF r, v
  <2>1. /\ pending' \in [Ref -> 0..MaxAttempts] /\ vec' = vec
        /\ \A q \in Ref : q # r => pending'[q] = pending[q]
        /\ vec'[r] # NoVector \/ pending'[r] > 0
    BY <1>1, <1>2, <1>8, AnswerFacts DEF MarkPending
  <2>2. \A q \in Ref : Mapped(q) \/ pending[q] > 0 => vec'[q] # NoVector \/ pending'[q] > 0
    BY <2>1 DEF Mapped
  <2> QED  BY <1>1, <1>5, <1>6, <2>1, <2>2, SweepStep
<1>9. CASE UNCHANGED <<vec, pending>>
  BY <1>1, <1>5, <1>6, <1>9, SweepStep DEF Mapped
<1> QED  BY <1>7, <1>8, <1>9 DEF SweepAnswered

LEMMA SweepsHolds ==
  ASSUME EmbedInv, NEW w \in Sweeper, Sweeps(w)
  PROVE  EmbedInv'
<1>1. DueNow \in SUBSET DueNow
  OBVIOUS
<1> QED  BY <1>1, SweepReadsHolds, SweepAnsweredHolds, SweepClearsHolds, SweepCallsHolds DEF Sweeps, SweepSteps

-----------------------------------------------------------------------------
(* The ingests.  A step of one takes no vector from a session that a rebuild *)
(* wrote last.                                                               *)
LEMMA IngestStep ==
  ASSUME EmbedInv, UNCHANGED <<tableLane, live, row, file, saves>>, deaths' \in 0..MaxDeaths,
         saving' \subseteq Save, job' \in {"idle", "running", "ended"}, rebuild' \in {rebuild, NoChild},
         text' \in [Session -> Version \cup {None}],
         vec' \in [Ref -> Vector \cup {NoVector}], pending' \in [Ref -> 0..MaxAttempts],
         cut' \subseteq Session, byRebuild' \subseteq byRebuild,
         ingest' \in [Ingester -> Ingest], IngestFits', sweep' \in [Sweeper -> Sweep], SweepFits',
         \A r \in Ref : vec'[r] # NoVector /\ vec'[r] # vec[r] => Placed(vec'[r]),
         \A r \in Ref : r[1] \in byRebuild' /\ Mapped(r) => vec'[r] = vec[r]
  PROVE  MemoryInv' /\ DoneInv'
<1>0. rebuild' \in Rebuild /\ (rebuild' = rebuild \/ rebuild'.phase = "none")
  BY RebuildTypes, NothingInMemory
<1>1. RebuildTypeOK'
  <2>1. byRebuild \subseteq Session
    BY Types DEF EmbedInv, MemoryInv
  <2> QED  BY <1>0, <2>1, Types, TypesFit DEF EmbedInv, MemoryInv
<1>2. MemoryInv'
  <2>1. TableFits'
    <3>1. SUFFICES ASSUME NEW r \in Ref, vec'[r].of # None
                   PROVE  Placed(vec'[r])
      BY DEF TableFits, HasVector, Placed
    <3>2. CASE vec'[r] = vec[r]
      BY <3>1, <3>2 DEF EmbedInv, MemoryInv, TableFits, HasVector
    <3>3. vec'[r] # NoVector
      BY <3>1 DEF NoVector
    <3> QED  BY <3>2, <3>3
  <2> QED  BY <1>0, <1>1, <2>1 DEF EmbedInv, MemoryInv, RebuildFits
<1>3. DoneInv'
  <2>1. \A s \in byRebuild' : \A c \in Chunk : HasVector(<<s, c>>) => HasVector(<<s, c>>)'
    <3>1. \A s \in byRebuild' : \A c \in Chunk : <<s, c>> \in Ref /\ <<s, c>>[1] = s
      BY Types DEF Ref, EmbedInv, MemoryInv
    <3> QED  BY <3>1 DEF HasVector, Mapped, NoVector
  <2>2. \A r \in Ref : Hollow(r)' => Hollow(r)
    BY ChunkConstants DEF Hollow, Mapped, HasVector, Placed
  <2>3. SameWork
    BY <1>0 DEF SameWork
  <2> QED  BY <2>1, <2>2, <2>3, DoneKept DEF EmbedInv
<1> QED  BY <1>2, <1>3

LEMMA IngestTypes ==
  ASSUME EmbedInv
  PROVE  /\ text \in [Session -> Version \cup {None}]
         /\ vec \in [Ref -> Vector \cup {NoVector}] /\ pending \in [Ref -> 0..MaxAttempts]
         /\ cut \subseteq Session /\ byRebuild \subseteq Session /\ deaths \in 0..MaxDeaths
         /\ ingest \in [Ingester -> Ingest] /\ IngestFits /\ sweep \in [Sweeper -> Sweep] /\ SweepFits
         /\ RebuildTypeOK /\ live \in Lane /\ saving \subseteq Save
         /\ job \in {"idle", "running", "ended"} /\ rebuild \in Rebuild
  BY Types DEF EmbedInv, MemoryInv

(* The chunks of a text that is being ingested.                              *)
LEMMA IngestedChunks ==
  ASSUME EmbedInv, VectorInv, NEW i \in Ingester, ingest[i].s # None
  PROVE  /\ ingest[i].s \in Session /\ ingest[i].of \in Version /\ ingest[i].of # None
         /\ text[ingest[i].s] = ingest[i].of /\ ChunksIn[ingest[i].of] \subseteq Chunk
  BY IngestTypes, MemoryFacts, ChunkConstants DEF EmbedInv, VectorInv, TextIsIngested

LEMMA CommitHolds ==
  ASSUME EmbedInv, UNCHANGED rebuildVars, NEW i \in Ingester, NEW s \in Session, NEW v \in Version,
         CommitText(i, s, v)
  PROVE  EmbedInv'
<1> DEFINE t == [NoIngest EXCEPT !.s = s, !.of = v, !.todo = ChunksIn[v]]
<1>1. /\ t \in Ingest /\ t.s = s /\ t.of = v /\ t.todo = ChunksIn[v] /\ ~t.cleared /\ t.at = None
      /\ s # None /\ v # None
  BY ChunkConstants DEF NoIngest, Ingest
<1>2. /\ ingest' = [ingest EXCEPT ![i] = t] /\ text' = [text EXCEPT ![s] = v]
      /\ UNCHANGED <<vec, pending, tableLane, live, sweep, cut>>
      /\ ingest[i] = NoIngest /\ (Overlapping \/ ~Busy(s))
  BY DEF CommitText
<1> HIDE DEF t
<1>3. /\ ingest' \in [Ingester -> Ingest] /\ ingest'[i] = t
      /\ \A j \in Ingester : j # i => ingest'[j] = ingest[j]
      /\ text' \in [Session -> Version \cup {None}] /\ text'[s] = v
      /\ \A q \in Session : q # s => text'[q] = text[q]
      /\ ingest[i].s = None /\ ~ingest[i].cleared /\ ingest[i].at = None
  BY <1>1, <1>2, IngestTypes, NothingInMemory
<1>4. MemoryInv' /\ DoneInv'
  <2>1. IngestFits'
    <3>1. SUFFICES ASSUME NEW j \in Ingester
                   PROVE  /\ ingest'[j].s # None => ingest'[j].of \in Version
                          /\ ingest'[j].cleared => ingest'[j].s # None
                          /\ ingest'[j].at # None => ingest'[j].cleared /\ ingest'[j].by \in Lane
      BY DEF IngestFits
    <3> QED  BY <1>1, <1>3, IngestTypes DEF IngestFits
  <2>2. SweepFits'
    BY <1>2, IngestTypes DEF SweepFits
  <2> QED  BY <1>2, <1>3, <2>1, <2>2, IngestTypes, IngestStep DEF rebuildVars
<1>5. ~Overlapping => VectorInv'
  <2>1. SUFFICES ASSUME ~Overlapping PROVE VectorInv'
    OBVIOUS
  <2>2. VectorInv /\ \A j \in Ingester : ingest[j].s # s
    BY <1>2, <2>1 DEF EmbedInv, Busy
  <2>3. OneIngest'
    BY <1>1, <1>3, <2>2 DEF VectorInv, OneIngest
  <2>4. TextIsIngested'
    <3>1. SUFFICES ASSUME NEW j \in Ingester, ingest'[j].s # None
                   PROVE  text'[ingest'[j].s] = ingest'[j].of
      BY DEF TextIsIngested
    <3>2. CASE j = i
      BY <1>1, <1>3, <3>2
    <3>3. CASE j # i
      <4>1. ingest[j].s # None /\ ingest[j].s \in Session /\ text[ingest[j].s] = ingest[j].of
        BY <1>3, <2>2, <3>1, <3>3, IngestedChunks
      <4> QED  BY <1>3, <2>2, <3>3, <4>1
    <3> QED  BY <3>2, <3>3
  <2>5. ClearedFirst'
    BY <1>1, <1>3, <2>2 DEF VectorInv, ClearedFirst
  <2>6. IngestLosesNothing'
    <3>1. SUFFICES ASSUME NEW j \in Ingester, ingest'[j].cleared, ingest'[j].s \notin byRebuild \cup cut,
                          NEW c \in ChunksIn[ingest'[j].of]
                   PROVE  c \in ingest'[j].todo \/ c = ingest'[j].at \/ Settled(ingest'[j].s, c)
      BY <1>2 DEF IngestLosesNothing, Settled, Mapped, rebuildVars
    <3>2. j # i /\ ingest'[j] = ingest[j]
      BY <1>1, <1>3, <3>1
    <3>3. c \in ingest[j].todo \/ c = ingest[j].at \/ Settled(ingest[j].s, c)
      BY <2>2, <3>1, <3>2 DEF VectorInv, IngestLosesNothing
    <3> QED  BY <3>2, <3>3
  <2>7. VectorsCurrent'
    <3>1. SUFFICES ASSUME NEW r \in Ref, vec[r] # NoVector, r[1] \notin byRebuild \cup cut, ~Committed(r[1])'
                   PROVE  vec[r].of = text'[r[1]]
      BY <1>2 DEF VectorsCurrent, Mapped, rebuildVars
    <3>2. r[1] # s /\ r[1] \in Session /\ ~Committed(r[1])
      <4>1. \A j \in Ingester : ingest'[j].s # r[1] \/ ingest'[j].cleared
        BY <3>1 DEF Committed
      <4>2. r[1] \in Session /\ r[1] # None
        BY ChunkConstants DEF Ref
      <4> QED  BY <1>1, <1>3, <4>1, <4>2 DEF Committed
    <3> QED  BY <1>3, <2>2, <3>1, <3>2 DEF VectorInv, VectorsCurrent, Mapped
  <2>8. NothingLost'
    <3>1. SUFFICES ASSUME NEW q \in Session, q \notin byRebuild \cup cut, ~Busy(q)',
                          NEW c \in Chunk, Has(q, c)'
                   PROVE  Settled(q, c)
      BY <1>2 DEF NothingLost, Settled, Mapped, rebuildVars
    <3>2. q # s /\ ~Busy(q)
      <4>1. \A j \in Ingester : ingest'[j].s # q
        BY <3>1 DEF Busy
      <4>2. q # None
        BY ChunkConstants
      <4> QED  BY <1>1, <1>3, <4>1, <4>2 DEF Busy
    <3>3. Has(q, c)
      BY <1>3, <3>1, <3>2 DEF Has
    <3> QED  BY <2>2, <3>1, <3>2, <3>3 DEF VectorInv, NothingLost, Settled
  <2> QED  BY <2>3, <2>4, <2>5, <2>6, <2>7, <2>8 DEF VectorInv
<1> QED  BY <1>4, <1>5 DEF EmbedInv

LEMMA ClearHolds ==
  ASSUME EmbedInv, NEW i \in Ingester, ReplacesChunks(i)
  PROVE  EmbedInv'
<1> DEFINE s == ingest[i].s
           t == [ingest[i] EXCEPT !.cleared = TRUE]
<1>1. ingest[i] \in Ingest /\ s # None /\ ~ingest[i].cleared /\ s \in Session
  BY IngestTypes, MemoryFacts DEF EmbedInv, ReplacesChunks, ClearChunks
<1>2. /\ t \in Ingest /\ t.s = s /\ t.of = ingest[i].of /\ t.cleared /\ t.todo = ingest[i].todo
      /\ t.at = ingest[i].at /\ t.by = ingest[i].by
  BY <1>1 DEF Ingest
<1>3. /\ ingest' = [ingest EXCEPT ![i] = t]
      /\ vec' = [r \in Ref |-> IF r[1] = s THEN NoVector ELSE vec[r]]
      /\ pending' = [r \in Ref |-> IF r[1] = s THEN 0 ELSE pending[r]]
      /\ cut' = cut \ {s} /\ byRebuild' = byRebuild \ {s}
      /\ UNCHANGED <<text, tableLane, live, sweep, row, file, saving, job, rebuild, saves, deaths>>
  BY DEF ReplacesChunks, ClearChunks
<1> HIDE DEF t, s
<1>4. /\ ingest' \in [Ingester -> Ingest] /\ ingest'[i] = t
      /\ \A j \in Ingester : j # i => ingest'[j] = ingest[j]
      /\ vec' \in [Ref -> Vector \cup {NoVector}] /\ pending' \in [Ref -> 0..MaxAttempts]
      /\ \A r \in Ref : r[1] = s => vec'[r] = NoVector
      /\ \A r \in Ref : r[1] # s => vec'[r] = vec[r] /\ pending'[r] = pending[r]
      /\ \A j \in Ingester : ingest'[j].s = ingest[j].s /\ ingest'[j].of = ingest[j].of
      /\ \A j \in Ingester : ingest'[j].todo = ingest[j].todo /\ ingest'[j].at = ingest[j].at
  <2>1. 0 \in 0..MaxAttempts
    BY ChunkConstants
  <2>2. /\ ingest' \in [Ingester -> Ingest] /\ ingest'[i] = t
        /\ \A j \in Ingester : j # i => ingest'[j] = ingest[j]
    BY <1>2, <1>3, IngestTypes
  <2>3. t.s = ingest[i].s
    BY <1>2 DEF s
  <2> QED  BY <1>2, <1>3, <2>1, <2>2, <2>3, IngestTypes
<1>5. MemoryInv' /\ DoneInv'
  <2>1. IngestFits'
    <3>1. SUFFICES ASSUME NEW j \in Ingester
                   PROVE  /\ ingest'[j].s # None => ingest'[j].of \in Version
                          /\ ingest'[j].cleared => ingest'[j].s # None
                          /\ ingest'[j].at # None => ingest'[j].cleared /\ ingest'[j].by \in Lane
      BY DEF IngestFits
    <3>2. ingest[i].s = s
      BY DEF s
    <3> QED  BY <1>1, <1>2, <1>4, <3>2, IngestTypes DEF IngestFits
  <2>2. SweepFits'
    BY <1>3, IngestTypes DEF SweepFits
  <2>3. cut' \subseteq Session /\ byRebuild' \subseteq byRebuild
    BY <1>3, IngestTypes
  <2>4. \A r \in Ref : r[1] \in byRebuild' => vec'[r] = vec[r]
    BY <1>3, <1>4
  <2>5. \A r \in Ref : ~(vec'[r] # NoVector /\ vec'[r] # vec[r])
    BY <1>4
  <2>6. UNCHANGED <<tableLane, live, row, file, rebuild, saves>> /\ deaths' \in 0..MaxDeaths
        /\ saving' \subseteq Save /\ job' \in {"idle", "running", "ended"}
        /\ text' \in [Session -> Version \cup {None}] /\ sweep' \in [Sweeper -> Sweep]
    BY <1>3, IngestTypes
  <2> QED  BY <1>4, <2>1, <2>2, <2>3, <2>4, <2>5, <2>6, IngestStep
<1>6. ~Overlapping => VectorInv'
  <2>1. SUFFICES ASSUME ~Overlapping PROVE VectorInv'
    OBVIOUS
  <2>2. VectorInv
    BY <2>1 DEF EmbedInv
  <2>3. OneIngest' /\ TextIsIngested'
    BY <1>3, <1>4, <2>2 DEF VectorInv, OneIngest, TextIsIngested
  <2>4. ClearedFirst'
    BY <1>2, <1>4, <2>2 DEF VectorInv, ClearedFirst
  <2>5. \A q \in Session, c \in Chunk : q # s => (Settled(q, c)' <=> Settled(q, c))
    <3>1. \A q \in Session, c \in Chunk : <<q, c>> \in Ref /\ <<q, c>>[1] = q
      BY DEF Ref
    <3> QED  BY <1>4, <3>1 DEF Settled, Mapped
  <2>6. IngestLosesNothing'
    <3> DEFINE Kept(j, c) == \/ c \in ingest'[j].todo \/ c = ingest'[j].at
                             \/ vec'[<<ingest'[j].s, c>>] # NoVector \/ pending'[<<ingest'[j].s, c>>] > 0
    <3>1. SUFFICES ASSUME NEW j \in Ingester, ingest'[j].cleared, ingest'[j].s \notin byRebuild' \cup cut',
                          NEW c \in ChunksIn[ingest'[j].of]
                   PROVE  Kept(j, c)
      BY DEF IngestLosesNothing, Settled, Mapped
    <3>2. CASE j = i
      <4>1. ingest[i].todo = ChunksIn[ingest[i].of]
        BY <1>1, <2>2 DEF VectorInv, ClearedFirst, s
      <4> QED  BY <1>4, <3>1, <3>2, <4>1
    <3>3. CASE j # i
      <4>1. ingest'[j] = ingest[j] /\ ingest[j].cleared /\ ingest[j].s # None
        BY <1>4, <3>1, <3>3, IngestTypes DEF IngestFits
      <4>2. ingest[j].s # s
        BY <1>1, <2>2, <3>3, <4>1 DEF VectorInv, OneIngest, s
      <4>3. /\ ingest[j].s \in Session /\ c \in Chunk /\ ingest[j].s \notin byRebuild \cup cut
            /\ c \in ChunksIn[ingest[j].of]
        BY <1>3, <2>2, <3>1, <4>1, <4>2, IngestedChunks
      <4>4. c \in ingest[j].todo \/ c = ingest[j].at \/ Settled(ingest[j].s, c)
        BY <2>2, <4>1, <4>3 DEF VectorInv, IngestLosesNothing
      <4>5. /\ vec'[<<ingest[j].s, c>>] = vec[<<ingest[j].s, c>>]
            /\ pending'[<<ingest[j].s, c>>] = pending[<<ingest[j].s, c>>]
        <5>1. <<ingest[j].s, c>> \in Ref /\ <<ingest[j].s, c>>[1] = ingest[j].s
          BY <4>3 DEF Ref
        <5> QED  BY <1>4, <4>2, <5>1
      <4> QED  BY <4>1, <4>4, <4>5 DEF Settled, Mapped
    <3> QED  BY <3>2, <3>3
  <2>7. VectorsCurrent'
    <3>1. SUFFICES ASSUME NEW r \in Ref, vec'[r] # NoVector, r[1] \notin byRebuild' \cup cut', ~Committed(r[1])'
                   PROVE  vec'[r].of = text'[r[1]]
      BY DEF VectorsCurrent, Mapped
    <3>2. r[1] # s /\ vec'[r] = vec[r] /\ r[1] \notin byRebuild \cup cut
      BY <1>3, <1>4, <3>1
    <3>3. ~Committed(r[1])
      <4>1. \A j \in Ingester : ingest'[j].s # r[1] \/ ingest'[j].cleared
        BY <3>1 DEF Committed
      <4>2. ingest[i].s # r[1]
        BY <3>2 DEF s
      <4> QED  BY <1>4, <4>1, <4>2 DEF Committed
    <3> QED  BY <1>3, <2>2, <3>1, <3>2, <3>3 DEF VectorInv, VectorsCurrent, Mapped
  <2>8. NothingLost'
    <3>1. SUFFICES ASSUME NEW q \in Session, q \notin byRebuild' \cup cut', ~Busy(q)', NEW c \in Chunk, Has(q, c)
                   PROVE  Settled(q, c)'
      BY <1>3 DEF NothingLost, Settled, Has
    <3>2. ~Busy(q)
      BY <1>4, <3>1 DEF Busy
    <3>3. q # s
      BY <3>2 DEF Busy, s
    <3>4. Settled(q, c)
      BY <1>3, <2>2, <3>1, <3>2, <3>3 DEF VectorInv, NothingLost, Settled
    <3> QED  BY <2>5, <3>3, <3>4
  <2> QED  BY <2>3, <2>4, <2>6, <2>7, <2>8 DEF VectorInv
<1> QED  BY <1>5, <1>6 DEF EmbedInv

(* The steps of an ingest that has cleared the chunks: it goes on with its   *)
(* text or ends, and what it takes from its list is settled.                 *)
LEMMA EmbedsStep ==
  ASSUME EmbedInv, UNCHANGED <<text, tableLane, live, sweep, cut, rebuildVars>>,
         NEW i \in Ingester, ingest[i].cleared,
         NEW t \in Ingest, ingest' = [ingest EXCEPT ![i] = t],
         \/ t.s = None
         \/ t.s = ingest[i].s /\ t.of = ingest[i].of /\ t.cleared,
         t.cleared => t.s # None, t.at # None => t.cleared /\ t.by \in Lane,
         vec' \in [Ref -> Vector \cup {NoVector}], pending' \in [Ref -> 0..MaxAttempts],
         \A r \in Ref : Mapped(r) => vec'[r] = vec[r],
         \A r \in Ref : Mapped(r) \/ pending[r] > 0 => vec'[r] # NoVector \/ pending'[r] > 0,
         \A r \in Ref : vec'[r] # vec[r] => Placed(vec'[r]),
         ~Overlapping => \A r \in Ref : vec'[r] # vec[r] => vec'[r].of = text[r[1]],
         \A c \in Chunk : c \in ingest[i].todo \/ c = ingest[i].at =>
           \/ t.s = ingest[i].s /\ (c \in t.todo \/ c = t.at)
           \/ vec'[<<ingest[i].s, c>>] # NoVector \/ pending'[<<ingest[i].s, c>>] > 0
  PROVE  EmbedInv'
<1>1. /\ ingest' \in [Ingester -> Ingest] /\ ingest'[i] = t /\ ingest[i].s # None
      /\ \A j \in Ingester : j # i => ingest'[j] = ingest[j]
  BY IngestTypes DEF IngestFits
<1>2. MemoryInv' /\ DoneInv'
  <2>1. IngestFits'
    BY <1>1, IngestTypes DEF IngestFits
  <2>2. SweepFits'
    BY IngestTypes DEF SweepFits
  <2> QED  BY <1>1, <2>1, <2>2, IngestTypes, IngestStep DEF rebuildVars
<1>3. ~Overlapping => VectorInv'
  <2>1. SUFFICES ASSUME ~Overlapping PROVE VectorInv'
    OBVIOUS
  <2>2. VectorInv /\ byRebuild' = byRebuild
    BY <2>1 DEF EmbedInv, rebuildVars
  <2>3. /\ \A j \in Ingester : ingest'[j].s \in {ingest[j].s, None}
        /\ \A j \in Ingester : ingest'[j].s # None =>
               ingest'[j].of = ingest[j].of /\ (ingest'[j].cleared <=> ingest[j].cleared)
        /\ \A j \in Ingester : ingest[j].s # None /\ ~ingest[j].cleared => ingest'[j] = ingest[j]
    BY <1>1
  <2>4. OneIngest' /\ TextIsIngested'
    BY <2>2, <2>3 DEF VectorInv, OneIngest, TextIsIngested
  <2>5. ClearedFirst'
    BY <2>2, <2>3 DEF VectorInv, ClearedFirst
  <2>6. \A q \in Session, c \in Chunk : Settled(q, c) => Settled(q, c)'
    <3>1. \A q \in Session, c \in Chunk : <<q, c>> \in Ref
      BY DEF Ref
    <3> QED  BY <3>1 DEF Settled, Mapped
  <2> DEFINE Kept(j, c) == vec'[<<ingest[j].s, c>>] # NoVector \/ pending'[<<ingest[j].s, c>>] > 0
  <2>7. ASSUME NEW j \in Ingester, ingest[j].cleared, ingest[j].s \notin byRebuild \cup cut,
               NEW c \in ChunksIn[ingest[j].of]
        PROVE  \/ ingest'[j].s = ingest[j].s /\ (c \in ingest'[j].todo \/ c = ingest'[j].at)
               \/ Kept(j, c)
    <3>1. ingest[j].s \in Session /\ c \in Chunk /\ ingest[j].s # None
      BY <2>2, <2>7, IngestTypes, IngestedChunks DEF IngestFits
    <3>2. c \in ingest[j].todo \/ c = ingest[j].at \/ Settled(ingest[j].s, c)
      BY <2>2, <2>7 DEF VectorInv, IngestLosesNothing
    <3>3. CASE Settled(ingest[j].s, c)
      <4>1. <<ingest[j].s, c>> \in Ref
        BY <3>1 DEF Ref
      <4> QED  BY <3>3, <4>1 DEF Settled, Mapped
    <3>4. CASE c \in ingest[j].todo \/ c = ingest[j].at
      BY <1>1, <3>1, <3>4
    <3> QED  BY <3>2, <3>3, <3>4
  <2>8. IngestLosesNothing'
    <3>1. SUFFICES ASSUME NEW j \in Ingester, ingest'[j].cleared, ingest'[j].s \notin byRebuild \cup cut,
                          NEW c \in ChunksIn[ingest'[j].of]
                   PROVE  \/ c \in ingest'[j].todo \/ c = ingest'[j].at
                          \/ vec'[<<ingest'[j].s, c>>] # NoVector \/ pending'[<<ingest'[j].s, c>>] > 0
      BY <2>2 DEF IngestLosesNothing, Settled, Mapped
    <3>2. ingest'[j].s # None
      BY <1>1, <3>1, IngestTypes DEF IngestFits
    <3>3. /\ ingest'[j].s = ingest[j].s /\ ingest'[j].of = ingest[j].of /\ ingest[j].cleared
          /\ ingest[j].s \notin byRebuild \cup cut
      BY <2>3, <3>1, <3>2
    <3> QED  BY <2>7, <3>1, <3>3
  <2>9. VectorsCurrent'
    <3>1. SUFFICES ASSUME NEW r \in Ref, vec'[r] # NoVector, r[1] \notin byRebuild \cup cut, ~Committed(r[1])'
                   PROVE  vec'[r].of = text[r[1]]
      BY <2>2 DEF VectorsCurrent, Mapped
    <3>2. ~Committed(r[1])
      <4>1. r[1] # None
        BY ChunkConstants DEF Ref
      <4> QED  BY <2>3, <3>1, <4>1 DEF Committed
    <3>3. CASE vec'[r] = vec[r]
      BY <2>2, <3>1, <3>2, <3>3 DEF VectorInv, VectorsCurrent, Mapped
    <3> QED  BY <2>1, <3>3
  <2>10. NothingLost'
    <3>1. SUFFICES ASSUME NEW q \in Session, q \notin byRebuild \cup cut, ~Busy(q)', NEW c \in Chunk, Has(q, c)
                   PROVE  Settled(q, c)'
      BY <2>2 DEF NothingLost, Settled, Has
    <3>2. CASE ~Busy(q)
      <4>1. Settled(q, c)
        BY <2>2, <3>1, <3>2 DEF VectorInv, NothingLost, Settled
      <4> QED  BY <2>6, <4>1
    <3>3. CASE Busy(q)
      <4>1. ingest[i].s = q /\ ingest'[i].s # q
        BY <1>1, <3>1, <3>3 DEF Busy
      <4>2. c \in ChunksIn[ingest[i].of]
        BY <1>1, <2>2, <3>1, <4>1, IngestedChunks DEF Has
      <4>3. Kept(i, c)
        BY <2>7, <3>1, <4>1, <4>2
      <4> QED  BY <4>1, <4>3 DEF Settled, Mapped
    <3> QED  BY <3>2, <3>3
  <2> QED  BY <2>4, <2>5, <2>8, <2>9, <2>10 DEF VectorInv
<1> QED  BY <1>2, <1>3 DEF EmbedInv

LEMMA ThrowsHolds ==
  ASSUME EmbedInv, UNCHANGED rebuildVars, NEW i \in Ingester, ClearThrows(i)
  PROVE  EmbedInv'
<1>1. /\ ingest[i].s # None /\ cut' = cut \cup {ingest[i].s} /\ ingest' = [ingest EXCEPT ![i] = NoIngest]
      /\ UNCHANGED <<text, vec, pending, tableLane, live, sweep>>
  BY DEF ClearThrows
<1>2. /\ ingest' \in [Ingester -> Ingest] /\ ingest'[i] = NoIngest
      /\ \A j \in Ingester : j # i => ingest'[j] = ingest[j]
      /\ cut' \subseteq Session
  BY <1>1, IngestTypes, MemoryFacts, NothingInMemory DEF EmbedInv
<1>3. MemoryInv' /\ DoneInv'
  <2>1. IngestFits'
    BY <1>2, IngestTypes, NothingInMemory DEF IngestFits
  <2>2. SweepFits'
    BY <1>1, IngestTypes DEF SweepFits
  <2> QED  BY <1>1, <1>2, <2>1, <2>2, IngestTypes, IngestStep DEF rebuildVars
<1>4. ~Overlapping => VectorInv'
  <2>1. SUFFICES ASSUME ~Overlapping PROVE VectorInv'
    OBVIOUS
  <2>2. VectorInv /\ byRebuild' = byRebuild
    BY <2>1 DEF EmbedInv, rebuildVars
  <2>3. OneIngest' /\ TextIsIngested' /\ ClearedFirst'
    BY <1>1, <1>2, <2>2, NothingInMemory DEF VectorInv, OneIngest, TextIsIngested, ClearedFirst
  <2>4. IngestLosesNothing'
    BY <1>1, <1>2, <2>2, NothingInMemory DEF VectorInv, IngestLosesNothing, Settled, Mapped
  <2>5. ASSUME NEW q \in Session, q \notin cut'
        PROVE  /\ q \notin cut
               /\ Committed(q) <=> Committed(q)'
               /\ Busy(q) <=> Busy(q)'
    <3>1. q \notin cut /\ q # ingest[i].s /\ q # None
      BY <1>1, <2>5, ChunkConstants
    <3>2. \A j \in Ingester : ingest'[j].s = q <=> ingest[j].s = q
      BY <1>2, <3>1, NothingInMemory
    <3>3. \A j \in Ingester : ingest'[j].s = q => ingest'[j] = ingest[j]
      BY <1>2, <3>1, NothingInMemory
    <3> QED  BY <3>1, <3>2, <3>3 DEF Committed, Busy
  <2>6. VectorsCurrent'
    <3>1. SUFFICES ASSUME NEW r \in Ref, vec[r] # NoVector, r[1] \notin byRebuild \cup cut', ~Committed(r[1])'
                   PROVE  vec[r].of = text[r[1]]
      BY <1>1, <2>2 DEF VectorsCurrent, Mapped
    <3>2. r[1] \in Session
      BY DEF Ref
    <3> QED  BY <2>2, <2>5, <3>1, <3>2 DEF VectorInv, VectorsCurrent, Mapped
  <2>7. NothingLost'
    BY <1>1, <2>2, <2>5 DEF VectorInv, NothingLost, Mapped, Has
  <2> QED  BY <2>2, <2>3, <2>4, <2>6, <2>7 DEF VectorInv
<1> QED  BY <1>3, <1>4 DEF EmbedInv

LEMMA CallHolds ==
  ASSUME EmbedInv, UNCHANGED rebuildVars, NEW i \in Ingester, CallEmbedder(i)
  PROVE  EmbedInv'
<1>1. PICK c \in ingest[i].todo :
        ingest' = [ingest EXCEPT ![i].at = c, ![i].todo = ingest[i].todo \ {c}, ![i].by = live]
  BY DEF CallEmbedder
<1> DEFINE t == [ingest[i] EXCEPT !.at = c, !.todo = ingest[i].todo \ {c}, !.by = live]
<1>2. /\ ingest[i] \in Ingest /\ ingest[i].cleared /\ ingest[i].s # None /\ live \in Lane
      /\ ingest[i].at = None
  BY IngestTypes DEF CallEmbedder, IngestFits
<1>3. /\ t \in Ingest /\ t.s = ingest[i].s /\ t.of = ingest[i].of /\ t.cleared /\ t.at = c /\ t.by = live
      /\ t.todo = ingest[i].todo \ {c}
  BY <1>1, <1>2 DEF Ingest
<1>4. ingest' = [ingest EXCEPT ![i] = t]
  BY <1>1
<1> HIDE DEF t
<1>5. \A d \in Chunk : d \in ingest[i].todo \/ d = ingest[i].at => d \in t.todo \/ d = t.at
  BY <1>2, <1>3, ChunkConstants
<1>6. UNCHANGED <<text, vec, pending, tableLane, live, sweep, cut>>
  BY DEF CallEmbedder
<1> QED  BY <1>2, <1>3, <1>4, <1>5, <1>6, IngestTypes, EmbedsStep DEF Mapped

LEMMA DoneHolds ==
  ASSUME EmbedInv, UNCHANGED rebuildVars, NEW i \in Ingester, IngestDone(i)
  PROVE  EmbedInv'
<1>1. \A c \in Chunk : ~(c \in ingest[i].todo \/ c = ingest[i].at)
  BY ChunkConstants DEF IngestDone
<1>2. /\ ingest[i].cleared /\ ingest' = [ingest EXCEPT ![i] = NoIngest]
      /\ UNCHANGED <<text, vec, pending, tableLane, live, sweep, cut>>
  BY DEF IngestDone
<1> QED  BY <1>1, <1>2, NothingInMemory, IngestTypes, EmbedsStep DEF Mapped

LEMMA AnswersHolds ==
  ASSUME EmbedInv, UNCHANGED rebuildVars, NEW i \in Ingester, EmbedderAnswers(i)
  PROVE  EmbedInv'
<1> DEFINE r == <<ingest[i].s, ingest[i].at>>
           v == ingest[i].of
           t == [ingest[i] EXCEPT !.at = None, !.by = None]
<1>1. /\ ingest[i] \in Ingest /\ ingest[i].cleared /\ ingest[i].s # None /\ ingest[i].at \in Chunk
      /\ ingest[i].by \in Lane /\ ingest[i].s \in Session /\ v \in Version
  BY IngestTypes, MemoryFacts DEF EmbedInv, EmbedderAnswers, IngestFits, Ingest
<1>2. /\ t \in Ingest /\ t.s = ingest[i].s /\ t.of = ingest[i].of /\ t.cleared /\ t.at = None
      /\ t.todo = ingest[i].todo
  BY <1>1 DEF Ingest
<1>3. /\ ingest' = [ingest EXCEPT ![i] = t] /\ UNCHANGED <<text, tableLane, live, sweep, cut>>
      /\ InsertOrMark(r, v, ingest[i].by) \/ MarkPending(r)
  BY DEF EmbedderAnswers
<1>4. r \in Ref /\ r[1] = ingest[i].s /\ r[2] = ingest[i].at
  BY <1>1 DEF Ref
<1>5. ~Overlapping => text[r[1]] = v
  BY <1>1, <1>4 DEF EmbedInv, VectorInv, TextIsIngested
<1>6. \A c \in Chunk : c \in ingest[i].todo \/ c = ingest[i].at => c \in t.todo \/ <<ingest[i].s, c>> = r
  BY <1>2
<1> HIDE DEF r, v, t
<1>7. /\ vec' \in [Ref -> Vector \cup {NoVector}] /\ pending' \in [Ref -> 0..MaxAttempts]
      /\ \A q \in Ref : Mapped(q) => vec'[q] = vec[q]
      /\ \A q \in Ref : q # r => vec'[q] = vec[q] /\ pending'[q] = pending[q]
      /\ \/ vec'[r] = vec[r]
         \/ vec'[r].of = v /\ Placed(vec'[r])
      /\ vec'[r] # NoVector \/ pending'[r] > 0
  BY <1>1, <1>3, <1>4, IngestTypes, AnswerFacts
<1>8. \A q \in Ref : Mapped(q) \/ pending[q] > 0 => vec'[q] # NoVector \/ pending'[q] > 0
  BY <1>7 DEF Mapped
<1>9. \A q \in Ref : vec'[q] # vec[q] => Placed(vec'[q])
  BY <1>7
<1>10. ~Overlapping => \A q \in Ref : vec'[q] # vec[q] => vec'[q].of = text[q[1]]
  BY <1>5, <1>7
<1>11. \A c \in Chunk : c \in ingest[i].todo \/ c = ingest[i].at =>
         \/ t.s = ingest[i].s /\ (c \in t.todo \/ c = t.at)
         \/ vec'[<<ingest[i].s, c>>] # NoVector \/ pending'[<<ingest[i].s, c>>] > 0
  BY <1>2, <1>6, <1>7
<1> QED  BY <1>1, <1>2, <1>3, <1>7, <1>8, <1>9, <1>10, <1>11, EmbedsStep

LEMMA DaemonDiesHolds ==
  ASSUME EmbedInv, DaemonDies
  PROVE  EmbedInv'
<1>1. /\ UNCHANGED <<text, vec, pending, tableLane, live, row, file, byRebuild, saves>>
      /\ saving' = {} /\ job' = "idle" /\ rebuild' = NoChild
      /\ deaths' = deaths + 1 /\ deaths < MaxDeaths
      /\ cut' = cut \cup {s \in Session : Busy(s)}
      /\ ingest' = [i \in Ingester |-> NoIngest] /\ sweep' = [w \in Sweeper |-> NoSweep]
  BY DEF DaemonDies, Crash
<1>2. /\ ingest' \in [Ingester -> Ingest] /\ sweep' \in [Sweeper -> Sweep] /\ cut' \subseteq Session
      /\ \A i \in Ingester : ingest'[i] = NoIngest
      /\ \A w \in Sweeper : sweep'[w] = NoSweep
  BY <1>1, IngestTypes, NothingInMemory
<1>3. MemoryInv' /\ DoneInv'
  <2>1. IngestFits' /\ SweepFits'
    BY <1>2, NothingInMemory DEF IngestFits, SweepFits
  <2>2. deaths' \in 0..MaxDeaths
    BY <1>1, IngestTypes, RebuildConstants
  <2> QED  BY <1>1, <1>2, <2>1, <2>2, IngestTypes, IngestStep
<1>4. ~Overlapping => VectorInv'
  <2>1. SUFFICES ASSUME ~Overlapping PROVE VectorInv'
    OBVIOUS
  <2>2. VectorInv /\ \A s \in Session : s \notin cut' => ~Busy(s) /\ ~Committed(s) /\ s \notin cut
    BY <1>1, <2>1 DEF EmbedInv, Busy, Committed
  <2>3. OneIngest' /\ TextIsIngested' /\ ClearedFirst' /\ IngestLosesNothing'
    BY <1>2, NothingInMemory DEF OneIngest, TextIsIngested, ClearedFirst, IngestLosesNothing
  <2>4. VectorsCurrent'
    BY <1>1, <2>2 DEF VectorInv, VectorsCurrent, Mapped, Ref
  <2>5. NothingLost'
    BY <1>1, <2>2 DEF VectorInv, NothingLost, Mapped, Has
  <2> QED  BY <2>3, <2>4, <2>5 DEF VectorInv
<1> QED  BY <1>3, <1>4 DEF EmbedInv

-----------------------------------------------------------------------------
LEMMA EmbedInvHolds == RebuildSpec => []EmbedInv
<1>1. RebuildInit => EmbedInv
  <2>1. SUFFICES ASSUME RebuildInit PROVE EmbedInv
    OBVIOUS
  <2>2. RebuildTypeOK
    <3>1. 0 \in 0..MaxAttempts /\ 0 \in 0..MaxSaves /\ 0 \in 0..MaxDeaths
      BY ChunkConstants, RebuildConstants
    <3>2. tableLane \in Lane
      BY <2>1, ChunkConstants DEF RebuildInit, ChunkInit
    <3> QED  BY <2>1, <3>1, <3>2, NothingInMemory
             DEF RebuildInit, ChunkInit, RebuildTypeOK, ChunkTypeOK, Ingest, Sweep, Rebuild, File
  <2>3. MemoryInv
    BY <2>1, <2>2, NothingInMemory
       DEF RebuildInit, ChunkInit, MemoryInv, IngestFits, SweepFits, RebuildFits, TableFits, HasVector, NoVector
  <2>4. DoneInv
    <3>1. NoneHollow
      BY <2>1 DEF RebuildInit, ChunkInit, NoneHollow, Hollow, Mapped
    <3>2. ~Works /\ ~Drops /\ rebuild.phase \notin {"creating", "unmapping"}
      BY <2>1, NothingInMemory DEF RebuildInit, Works, Drops
    <3> QED  BY <2>1, <3>1, <3>2 DEF RebuildInit, DoneInv, FileIsTrue, ChildIsTrue, FileFitsConfig,
                                     ChildFitsConfig, DropsForItsLane, TrustedIsWhole, HasVectors
  <2>5. VectorInv
    <3>1. OneIngest /\ TextIsIngested /\ ClearedFirst /\ IngestLosesNothing
      BY <2>1, NothingInMemory
         DEF RebuildInit, ChunkInit, OneIngest, TextIsIngested, ClearedFirst, IngestLosesNothing
    <3>2. VectorsCurrent /\ NothingLost
      BY <2>1 DEF RebuildInit, ChunkInit, VectorsCurrent, NothingLost, Mapped, Has
    <3> QED  BY <3>1, <3>2 DEF VectorInv
  <2> QED  BY <2>3, <2>4, <2>5 DEF EmbedInv
<1>2. EmbedInv /\ [RebuildNext]_embedVars => EmbedInv'
  <2>1. SUFFICES ASSUME EmbedInv, [RebuildNext]_embedVars PROVE EmbedInv'
    OBVIOUS
  <2>2. /\ \A l \in Lane : SaveChecks(l) => EmbedInv'
        /\ \A x \in saving : SaveSwaps(x) => EmbedInv'
    BY <2>1, SaveChecksHolds, SaveSwapsHolds
  <2>3. CASE ChildSteps
    BY <2>1, <2>3, ChildBootsHolds, DropTableHolds, CreateTableHolds, DeleteMapHolds, ChildSelectsHolds,
       ChildCompletesHolds, ChildFailsHolds, ChildEmbedsHolds DEF ChildSteps
  <2>4. CASE ChildDies \/ DaemonDies
    BY <2>1, <2>4, ChildDiesHolds, DaemonDiesHolds
  <2>5. ASSUME NEW i \in Ingester, ReplacesChunks(i) PROVE EmbedInv'
    BY <2>1, <2>5, ClearHolds
  <2>6. ASSUME NEW i \in Ingester, Embeds(i), UNCHANGED rebuildVars PROVE EmbedInv'
    BY <2>1, <2>6, ThrowsHolds, CallHolds, AnswersHolds, DoneHolds DEF Embeds
  <2>7. ASSUME NEW i \in Ingester, NEW s \in Session, NEW v \in Version, CommitText(i, s, v), UNCHANGED rebuildVars
        PROVE  EmbedInv'
    BY <2>1, <2>7, CommitHolds
  <2>8. ASSUME NEW w \in Sweeper, Sweeps(w) PROVE EmbedInv'
    BY <2>1, <2>8, SweepsHolds
  <2>9. ASSUME NEW w \in Sweeper, UNCHANGED rebuildVars,
               SweepSheds(w) \/ \E due \in SUBSET DueNow : SweepReads(w, due)
        PROVE  EmbedInv'
    BY <2>1, <2>9, SweepShedsHolds, SweepReadsHolds
  <2>10. CASE UNCHANGED embedVars
    <3>1. UNCHANGED <<text, vec, pending, ingest, cut, row, file, tableLane, rebuild, byRebuild>>
      BY <2>10 DEF embedVars, chunkVars, rebuildVars
    <3>2. RebuildTypeOK'
      BY <2>1, <2>10, Types, TypesFit DEF EmbedInv, MemoryInv, embedVars, chunkVars, rebuildVars
    <3>3. MemoryInv'
      BY <2>1, <2>10, <3>2 DEF EmbedInv, MemoryInv, IngestFits, SweepFits, RebuildFits, TableFits, HasVector, Placed,
                               embedVars, chunkVars, rebuildVars
    <3>4. DoneInv'
      BY <2>1, <3>1, DoneUntouched DEF EmbedInv, SameWork
    <3>5. ~Overlapping => VectorInv'
      BY <2>1, <3>1, VectorsUntouched DEF EmbedInv
    <3> QED  BY <3>3, <3>4, <3>5 DEF EmbedInv
  <2>11. ASSUME NEW i \in Ingester,
                \/ ReplacesChunks(i)
                \/ Embeds(i) /\ UNCHANGED rebuildVars
                \/ \E s \in Session, v \in Version : CommitText(i, s, v) /\ UNCHANGED rebuildVars
         PROVE  EmbedInv'
    BY <2>5, <2>6, <2>7, <2>11
  <2>12. ASSUME NEW w \in Sweeper,
                \/ Sweeps(w)
                \/ SweepSheds(w) /\ UNCHANGED rebuildVars
                \/ \E due \in SUBSET DueNow : SweepReads(w, due) /\ UNCHANGED rebuildVars
         PROVE  EmbedInv'
    BY <2>8, <2>9, <2>12
  <2> QED  BY <2>1, <2>2, <2>3, <2>4, <2>10, <2>11, <2>12 DEF RebuildNext
<1> QED  BY <1>1, <1>2, PTL DEF RebuildSpec

(* Every value of the daemon, the child and the two stores has its type.     *)
THEOREM RebuildIsTyped == RebuildSpec => []RebuildTypeOK
<1>1. EmbedInv => RebuildTypeOK
  BY DEF EmbedInv, MemoryInv
<1> QED  BY <1>1, EmbedInvHolds, PTL

(* What the state file or the child calls done for the lane of the table has *)
(* a vector that fits it: however often children die, also between the       *)
(* statements of a drop, whatever lanes the operator saves meanwhile and     *)
(* whether or not ingests overlap.  Sessions done for a lane whose table     *)
(* another lane's rebuild has dropped since are not among them: those are    *)
(* skipped without one (embed-backfill.ts 149-157, 210-236, 296-298).        *)
THEOREM DoneIsDone == RebuildSpec => []DoneHasVectors
<1>1. EmbedInv => DoneHasVectors
  <2>1. ASSUME EmbedInv, NEW done, HasVectors(done)
        PROVE  Embedded(done)
    <3>1. SUFFICES ASSUME NEW s \in done \cap byRebuild
                   PROVE  \E c \in Chunk : HasVector(<<s, c>>) /\ Dim[vec[<<s, c>>].by] = Dim[tableLane]
      BY DEF Embedded
    <3>2. PICK c \in Chunk : HasVector(<<s, c>>)
      BY <2>1 DEF HasVectors
    <3>3. <<s, c>> \in Ref
      BY <2>1, IngestTypes DEF Ref
    <3> QED  BY <2>1, <3>2, <3>3 DEF EmbedInv, MemoryInv, TableFits, Placed
  <2> QED  BY <2>1 DEF EmbedInv, DoneInv, FileIsTrue, ChildIsTrue, DoneHasVectors, Detour
<1> QED  BY <1>1, EmbedInvHolds, PTL

(* No child works on a table of its lane in which the map names a chunk that *)
(* the drop took the vector of, wherever in the drop an earlier child died   *)
(* and whatever the daemon inserted meanwhile: the done chunks of the sweep  *)
(* and of the ingests are chunks with vectors (embed-backfill.ts 216-234).   *)
THEOREM MapIsWholeAgain == RebuildSpec => []MapIsWhole
<1>1. EmbedInv => MapIsWhole
  BY DEF EmbedInv, DoneInv, TrustedIsWhole, MapIsWhole, Detour, NoneHollow, Hollow
<1> QED  BY <1>1, EmbedInvHolds, PTL

(* When no two ingests of a session overlap, every vector an ingest or the   *)
(* sweep leaves is of the stored text: however many ticks and sessions there *)
(* are, and whatever a rebuild does meanwhile                                *)
(* (sqlite-session-store.ts 606-612).                                        *)
THEOREM VectorsFollowTheText ==
  ASSUME ~Overlapping
  PROVE  RebuildSpec => []VectorsCurrent
<1>1. EmbedInv => VectorsCurrent
  BY DEF EmbedInv, VectorInv
<1> QED  BY <1>1, EmbedInvHolds, PTL

(* Then, too, no chunk of a finished ingest is without both a vector and a   *)
(* row for its retry, unless a crash cut the ingest off or a rebuild wrote   *)
(* the session last (sqlite-session-store.ts 575-583).                       *)
THEOREM NoChunkIsLost ==
  ASSUME ~Overlapping
  PROVE  RebuildSpec => []NothingLost
<1>1. EmbedInv => NothingLost
  BY DEF EmbedInv, VectorInv
<1> QED  BY <1>1, EmbedInvHolds, PTL
=============================================================================
