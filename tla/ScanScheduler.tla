--------------------------- MODULE ScanScheduler ---------------------------
(***************************************************************************)
(* The scan of the transcript sources: ScanScheduler.tick with scanOnce.   *)
(* A tick reads adapter_state, looks at every source, then classifies and  *)
(* stores what it found, one source after the other, with awaits between   *)
(* them; a tick starts only after the one before it has ended.  Meanwhile  *)
(* the sources grow, and the daemon may die at any point: adapter_state    *)
(* and the sessions stay, the backoffs and text hashes are lost.           *)
(*                                                                         *)
(* A source has a size, which changes with every write, the text its       *)
(* adapter reads from it, and the session id found there; a write may      *)
(* leave the text as it is and may bring a new id with new text.  Texts    *)
(* are numbered in the order they appear.                                  *)
(***************************************************************************)
EXTENDS Naturals

CONSTANTS
  Source,            \* source paths of the adapter
  MaxSize,           \* bound: the size up to which a source grows, per source
  MaxFailures        \* MAX_CLASSIFY_FAILURES

ASSUME ScanConstants == MaxSize \in [Source -> Nat \ {0}] /\ MaxFailures \in Nat \ {0}

VARIABLES
  file,              \* the sources on disk
  hot,               \* sources modified within idleMinutes
  row,               \* adapter_state
  session,           \* text of the stored session, per source and id; 0: no row
  replaced,          \* sessions that a later id of their source replaces
  phase,             \* where the tick is
  snapshot,          \* adapter_state as the tick read it
  unseen,            \* sources the tick has still to look at
  sized,             \* the source being parsed, with the size it had
  found,             \* results of the scan still to be worked on
  item,              \* the result being worked on
  classified,        \* classifiedHash: text last classified and stored
  backoff,           \* deferrals
  handled            \* history: the text last classified, stored, failed or passed over

diskVars == <<file, hot>>
tableVars == <<row, session, replaced>>
tickVars == <<phase, snapshot, unseen, sized, found, item>>
memVars == <<classified, backoff>>
scanVars == <<diskVars, tableVars, tickVars, memVars, handled>>

Id == {1, 2}
Text == Nat \ {0}
Row == [size : Nat, id : Id \cup {0}, failures : 0 .. MaxFailures]
NoRow == [size |-> 0, id |-> 0, failures |-> 0]
Result == [src : Source, size : Nat \ {0}, text : Text, id : Id, prior : Id \cup {0}, resumed : BOOLEAN]
Nothing == [src |-> "none"]

ScanTypeOK ==
  /\ file \in [Source -> [size : Nat \ {0}, text : Text, id : Id]]
  /\ hot \subseteq Source
  /\ row \in [Source -> Row]
  /\ session \in [Source \X Id -> Nat]
  /\ replaced \subseteq Source \X Id
  /\ phase \in {"rest", "scan", "parse", "work", "classify", "store", "after"}
  /\ snapshot \in [Source -> Row]
  /\ unseen \subseteq Source
  /\ sized = Nothing \/ sized \in [src : Source, size : Nat \ {0}]
  /\ found \subseteq Result
  /\ item = Nothing \/ item \in [res : Result, gated : BOOLEAN]
  /\ classified \in [Source -> Nat]
  /\ backoff \in [Source -> {"none", "waiting", "elapsed"}]
  /\ handled \in [Source -> Nat]

ScanInit ==
  /\ file = [p \in Source |-> [size |-> 1, text |-> 1, id |-> 1]]
  /\ hot = Source
  /\ row = [p \in Source |-> NoRow]
  /\ session = [s \in Source \X Id |-> 0]
  /\ replaced = {}
  /\ phase = "rest"
  /\ snapshot = [p \in Source |-> NoRow]
  /\ unseen = {} /\ sized = Nothing /\ found = {} /\ item = Nothing
  /\ classified = [p \in Source |-> 0]
  /\ backoff = [p \in Source |-> "none"]
  /\ handled = [p \in Source |-> 0]

-----------------------------------------------------------------------------
(* The sources. *)

Write(p) ==
  /\ file[p].size < MaxSize[p]
  /\ LET n == file[p].size + 1 IN
       \/ file' = [file EXCEPT ![p].size = n]
       \/ \E id \in Id : file' = [file EXCEPT ![p] = [size |-> n, text |-> n, id |-> id]]
  /\ hot' = hot \cup {p}
  /\ UNCHANGED <<tableVars, tickVars, memVars, handled>>

GoesIdle(p) ==
  /\ p \in hot
  /\ hot' = hot \ {p}
  /\ UNCHANGED <<file, tableVars, tickVars, memVars, handled>>

-----------------------------------------------------------------------------
(* adapter_state: rows are written at the size the source had when the scan  *)
(* looked, and only the first of these keeps a new session id.               *)
HasRow(r) == r.size > 0

(* Mutant: the size is the one the source has by the time it is recorded.    *)
RecordAtCurrentSize(r) ==
  row' = [row EXCEPT ![r.src] = [size |-> file[r.src].size, id |-> r.id, failures |-> 0]]

RecordClassified(r) ==
  row' = [row EXCEPT ![r.src] = [size |-> r.size, id |-> r.id, failures |-> 0]]

RecordSkipped(p, size) ==
  row' = [row EXCEPT ![p].size = size, ![p].failures = 0]

(* Mutant: a failed source keeps the id it was found with.                   *)
RecordFailedWithId(r) ==
  row' = [row EXCEPT ![r.src] = [size |-> r.size, id |-> r.id, failures |-> @.failures + 1]]

RecordFailed(r) ==
  row' = [row EXCEPT ![r.src].size = r.size, ![r.src].failures = @ + 1]

Handle(p, text) == handled' = [handled EXCEPT ![p] = text]

NextItem ==
  /\ item' = Nothing
  /\ phase' = "work"
  /\ UNCHANGED <<snapshot, unseen, sized, found>>

-----------------------------------------------------------------------------
(* The scan: scanOnce. *)

StartTick ==
  /\ phase = "rest"
  /\ phase' = "scan"
  /\ snapshot' = row
  /\ unseen' = Source
  /\ UNCHANGED <<diskVars, tableVars, sized, found, item, memVars, handled>>

(* Mutant: a source with a row is never looked at again.                     *)
ChangedIfUnknown(p) == ~HasRow(snapshot[p])

Changed(p) == HasRow(snapshot[p]) => snapshot[p].size # file[p].size

(* A source still being written, or of the size it was recorded at, is left  *)
(* alone.                                                                    *)
PassOver(p) ==
  /\ phase = "scan" /\ p \in unseen
  /\ p \in hot \/ ~Changed(p)
  /\ unseen' = unseen \ {p}
  /\ UNCHANGED <<diskVars, tableVars, phase, snapshot, sized, found, item, memVars, handled>>

(* A source that cannot be stat'ed, or not even discovered, has to wait for  *)
(* the next tick (one that would be passed over waits anyway).               *)
StatFails(p) ==
  /\ phase = "scan" /\ p \in unseen
  /\ p \notin hot /\ Changed(p)
  /\ unseen' = unseen \ {p}
  /\ UNCHANGED <<diskVars, tableVars, phase, snapshot, sized, found, item, memVars, handled>>

(* Mutant: the strikes are kept when a source has grown.                     *)
LookAtKeepingStrikes(p) ==
  /\ phase = "scan" /\ p \in unseen
  /\ p \notin hot /\ Changed(p)
  /\ sized' = [src |-> p, size |-> file[p].size]
  /\ unseen' = unseen \ {p}
  /\ phase' = "parse"
  /\ UNCHANGED <<diskVars, tableVars, snapshot, found, item, memVars, handled>>

(* The size is taken before the text is read.                                *)
LookAt(p) ==
  /\ phase = "scan" /\ p \in unseen
  /\ p \notin hot /\ Changed(p)
  /\ row' = IF snapshot[p].failures >= MaxFailures THEN [row EXCEPT ![p].failures = 0] ELSE row
  /\ sized' = [src |-> p, size |-> file[p].size]
  /\ unseen' = unseen \ {p}
  /\ phase' = "parse"
  /\ UNCHANGED <<diskVars, session, replaced, snapshot, found, item, memVars, handled>>

(* parseSession reads what is there by now: a session, nothing worth a       *)
(* session, or an I/O error, which leaves the source for the next tick.      *)
PriorId(p) == IF snapshot[p].id # file[p].id THEN snapshot[p].id ELSE 0

ParseSession ==
  /\ phase = "parse"
  /\ LET p == sized.src IN
       found' = found \cup {[src |-> p, size |-> sized.size, text |-> file[p].text, id |-> file[p].id,
                             prior |-> PriorId(p), resumed |-> HasRow(snapshot[p])]}
  /\ sized' = Nothing
  /\ phase' = "scan"
  /\ UNCHANGED <<diskVars, tableVars, snapshot, unseen, item, memVars, handled>>

ParseNothing ==
  /\ phase = "parse"
  /\ RecordSkipped(sized.src, sized.size)
  /\ Handle(sized.src, file[sized.src].text)
  /\ sized' = Nothing
  /\ phase' = "scan"
  /\ UNCHANGED <<diskVars, session, replaced, snapshot, unseen, found, item, memVars>>

ParseError ==
  /\ phase = "parse"
  /\ sized' = Nothing
  /\ phase' = "scan"
  /\ UNCHANGED <<diskVars, tableVars, snapshot, unseen, found, item, memVars, handled>>

EndScan ==
  /\ phase = "scan" /\ unseen = {}
  /\ phase' = "work"
  /\ snapshot' = [p \in Source |-> NoRow]
  /\ UNCHANGED <<diskVars, tableVars, unseen, sized, found, item, memVars, handled>>

-----------------------------------------------------------------------------
(* The work on the results: tick. *)

Pending(r) == phase = "work" /\ r \in found

StillDeferred(r) ==
  /\ Pending(r) /\ backoff[r.src] = "waiting"
  /\ found' = found \ {r}
  /\ UNCHANGED <<diskVars, tableVars, phase, snapshot, unseen, sized, item, memVars, handled>>

(* A source that changed but yields the text classified last: only the new   *)
(* size (and id) is remembered.                                              *)
SameText(r) ==
  /\ Pending(r) /\ backoff[r.src] # "waiting"
  /\ r.resumed /\ classified[r.src] = r.text
  /\ RecordClassified(r)
  /\ Handle(r.src, r.text)
  /\ found' = found \ {r}
  /\ UNCHANGED <<diskVars, session, replaced, phase, snapshot, unseen, sized, item, memVars>>

(* Otherwise the ingest gate, when there is one, or the classifier judges.   *)
Judge(r) ==
  /\ Pending(r) /\ backoff[r.src] # "waiting"
  /\ ~(r.resumed /\ classified[r.src] = r.text)
  /\ found' = found \ {r}
  /\ \/ phase' = "classify" /\ item' = [res |-> r, gated |-> FALSE]
     \/ phase' = "store"    /\ item' = [res |-> r, gated |-> TRUE]
  /\ UNCHANGED <<diskVars, tableVars, snapshot, unseen, sized, memVars, handled>>

(* Mutant: the text counts as classified before it is stored.                *)
ConfidentRemembering ==
  /\ phase = "classify"
  /\ phase' = "store"
  /\ classified' = [classified EXCEPT ![item.res.src] = item.res.text]
  /\ UNCHANGED <<diskVars, tableVars, snapshot, unseen, sized, found, item, backoff, handled>>

Confident ==
  /\ phase = "classify"
  /\ phase' = "store"
  /\ UNCHANGED <<diskVars, tableVars, snapshot, unseen, sized, found, item, memVars, handled>>

LowConfidence ==
  /\ phase = "classify"
  /\ RecordSkipped(item.res.src, item.res.size)
  /\ Handle(item.res.src, item.res.text)
  /\ NextItem
  /\ UNCHANGED <<diskVars, session, replaced, memVars>>

ClassifyFails ==
  /\ phase = "classify"
  /\ RecordFailed(item.res)
  /\ Handle(item.res.src, item.res.text)
  /\ NextItem
  /\ UNCHANGED <<diskVars, session, replaced, memVars>>

(* The classifier is out of reach: no strike, a backoff for the source, and  *)
(* the rest of the tick is given up.                                         *)
ClassifierDown ==
  /\ phase = "classify"
  /\ backoff' = [backoff EXCEPT ![item.res.src] = "waiting"]
  /\ phase' = "rest"
  /\ found' = {} /\ item' = Nothing
  /\ UNCHANGED <<diskVars, tableVars, snapshot, unseen, sized, classified, handled>>

(* insertSession's transaction; a predecessor must be there, or the foreign  *)
(* key of the edge fails it.                                                 *)
Commit ==
  /\ phase = "store"
  /\ LET r == item.res IN
       /\ r.prior # 0 => session[<<r.src, r.prior>>] # 0
       /\ session' = [session EXCEPT ![<<r.src, r.id>>] = r.text]
       /\ replaced' = (replaced \ {<<r.src, r.id>>})
                        \cup (IF r.prior # 0 THEN {<<r.src, r.prior>>} ELSE {})
  /\ phase' = "after"
  /\ UNCHANGED <<diskVars, row, snapshot, unseen, sized, found, item, memVars, handled>>

StoreFails ==
  /\ phase = "store"
  /\ RecordFailed(item.res)
  /\ Handle(item.res.src, item.res.text)
  /\ NextItem
  /\ UNCHANGED <<diskVars, session, replaced, memVars>>

(* What follows the commit (vectors, then the record, then workstream and    *)
(* exemplars) may fail before the record, after it, or not.                  *)
Recorded ==
  /\ phase = "after"
  /\ RecordClassified(item.res)
  /\ Handle(item.res.src, item.res.text)
  /\ backoff' = [backoff EXCEPT ![item.res.src] = "none"]
  /\ classified' = IF item.gated THEN classified ELSE [classified EXCEPT ![item.res.src] = item.res.text]
  /\ NextItem
  /\ UNCHANGED <<diskVars, session, replaced>>

FailsUnrecorded ==
  /\ phase = "after"
  /\ RecordFailed(item.res)
  /\ Handle(item.res.src, item.res.text)
  /\ NextItem
  /\ UNCHANGED <<diskVars, session, replaced, memVars>>

FailsRecorded ==
  /\ phase = "after"
  /\ row' = [row EXCEPT ![item.res.src] = [size |-> item.res.size, id |-> item.res.id, failures |-> 1]]
  /\ Handle(item.res.src, item.res.text)
  /\ backoff' = [backoff EXCEPT ![item.res.src] = "none"]
  /\ classified' = IF item.gated THEN classified ELSE [classified EXCEPT ![item.res.src] = item.res.text]
  /\ NextItem
  /\ UNCHANGED <<diskVars, session, replaced>>

EndTick ==
  /\ phase = "work" /\ found = {}
  /\ phase' = "rest"
  /\ UNCHANGED <<diskVars, tableVars, snapshot, unseen, sized, found, item, memVars, handled>>

(* Backoffs are compared with the time the tick started at.                  *)
BackoffElapses(p) ==
  /\ phase = "rest" /\ backoff[p] = "waiting"
  /\ backoff' = [backoff EXCEPT ![p] = "elapsed"]
  /\ UNCHANGED <<diskVars, tableVars, tickVars, classified, handled>>

(* The daemon dies, also of an error no tick catches, and starts again.      *)
Restart ==
  /\ phase' = "rest"
  /\ snapshot' = [p \in Source |-> NoRow]
  /\ unseen' = {} /\ sized' = Nothing /\ found' = {} /\ item' = Nothing
  /\ classified' = [p \in Source |-> 0]
  /\ backoff' = [p \in Source |-> "none"]
  /\ UNCHANGED <<diskVars, tableVars, handled>>

TickStep ==
  \/ StartTick \/ EndScan \/ EndTick
  \/ \E p \in Source : PassOver(p) \/ StatFails(p) \/ LookAt(p)
  \/ ParseSession \/ ParseNothing \/ ParseError
  \/ \E r \in found : StillDeferred(r) \/ SameText(r) \/ Judge(r)
  \/ Confident \/ LowConfidence \/ ClassifyFails \/ ClassifierDown
  \/ Commit \/ StoreFails \/ Recorded \/ FailsUnrecorded \/ FailsRecorded

ScanNext ==
  \/ TickStep
  \/ \E p \in Source : Write(p) \/ GoesIdle(p) \/ BackoffElapses(p)
  \/ Restart

ScanSpec == ScanInit /\ [][ScanNext]_scanVars

(* Ticks go on, sources come to rest and backoffs elapse; a read error and   *)
(* an unreachable classifier do not win every time, and failing stats and    *)
(* restarts come to an end.                                                  *)
FairScanSpec ==
  /\ ScanSpec
  /\ <>[][~Restart /\ \A p \in Source : ~StatFails(p)]_scanVars
  /\ WF_scanVars(TickStep)
  /\ \A p \in Source : WF_scanVars(GoesIdle(p)) /\ SF_scanVars(BackoffElapses(p))
  /\ \A p \in Source : SF_scanVars(sized # Nothing /\ sized.src = p /\ ParseSession)
  /\ \A p \in Source : SF_scanVars(item # Nothing /\ item.res.src = p /\ (Confident \/ ClassifyFails))

-----------------------------------------------------------------------------
(* A source the scan will pass over because its size is the recorded one has *)
(* had exactly its present text handled: a write between the look at the     *)
(* size, the read, the classifier's answer and the record is never lost.     *)
UnchangedMeansHandled ==
  \A p \in Source : HasRow(row[p]) /\ row[p].size = file[p].size => handled[p] = file[p].text

(* I6: the session id of a row is that of a stored session.                  *)
RowsNameStoredSessions == \A p \in Source : row[p].id # 0 => session[<<p, row[p].id>>] # 0

(* classifiedHash: when a result is settled without a look by gate or        *)
(* classifier, the store already holds that very text under its id.          *)
SkippingLosesNothing ==
  [][\A r \in found : r \notin found' /\ phase' = "work" /\ row' # row
        => session[<<r.src, r.id>>] = r.text]_scanVars

(* A source that comes to rest is caught up with in the end, whatever failed *)
(* or was deferred before, and also if the daemon was restarted.             *)
CaughtUp(p) == HasRow(row[p]) /\ row[p].size = file[p].size

SourcesAreCaughtUp == \A p \in Source : <>[]CaughtUp(p)
=============================================================================
