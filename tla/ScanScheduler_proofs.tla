------------------------ MODULE ScanScheduler_proofs ------------------------
(***************************************************************************)
(* The scan handles every text it will later pass over, its rows name only *)
(* stored sessions and what it skips is stored, for any number of sources  *)
(* that grow to any size, whatever fails and whenever the daemon dies.     *)
(***************************************************************************)
EXTENDS ScanScheduler, TLAPS

Working == phase \in {"classify", "store", "after"}

(* A result is of a state the source was in, and no newer than the source;   *)
(* the size was looked at before the text was read.                          *)
SeenOf(r, f) ==
  /\ r.size <= f.size /\ r.text <= f.text
  /\ r.size = f.size => r.text = f.text
  /\ r.text = f.text => r.id = f.id

(* What holds of every result a tick has in hand: its source may still fail, *)
(* and the text last classified is not newer, and stored if it is the same.  *)
InHand(r) ==
  /\ SeenOf(r, file[r.src])
  /\ row[r.src].failures < MaxFailures
  /\ classified[r.src] <= r.text
  /\ classified[r.src] = r.text => session[<<r.src, r.id>>] = r.text

SourcesGrow == \A p \in Source : file[p].text <= file[p].size

RowsAreBehind == \A p \in Source : row[p].size <= file[p].size

ClassifiedIsStored ==
  \A p \in Source :
    /\ classified[p] <= file[p].text
    /\ classified[p] = file[p].text => session[<<p, file[p].id>>] = file[p].text

(* A tick has each source in one place: to be looked at, being parsed, among *)
(* the results, or being worked on.                                          *)
OncePerTick ==
  /\ phase \notin {"scan", "parse"} => unseen = {}
  /\ phase = "rest" => found = {}
  /\ \A r \in found : r.src \notin unseen
  /\ \A r, q \in found : r.src = q.src => r = q

ParsedIsSound ==
  phase = "parse" =>
    /\ sized \in [src : Source, size : Nat \ {0}]
    /\ sized.src \notin unseen
    /\ \A r \in found : r.src # sized.src
    /\ sized.size <= file[sized.src].size
    /\ row[sized.src].failures < MaxFailures

FoundIsSound == \A r \in found : InHand(r)

ItemIsSound ==
  Working =>
    /\ item \in [res : Result, gated : BOOLEAN]
    /\ \A r \in found : r.src # item.res.src
    /\ InHand(item.res)
    /\ phase = "after" => session[<<item.res.src, item.res.id>>] = item.res.text

(* The scan decides by a snapshot of the strikes: of a source it has still   *)
(* to look at they are what they were.                                       *)
SnapshotHasTheStrikes == \A p \in unseen : snapshot[p].failures = row[p].failures

ScanInv ==
  /\ ScanTypeOK /\ SourcesGrow /\ RowsAreBehind /\ UnchangedMeansHandled /\ RowsNameStoredSessions
  /\ ClassifiedIsStored /\ OncePerTick /\ ParsedIsSound /\ FoundIsSound /\ ItemIsSound
  /\ SnapshotHasTheStrikes

-----------------------------------------------------------------------------
LEMMA InitHolds == ScanInit => ScanInv
<1> SUFFICES ASSUME ScanInit PROVE ScanInv
  OBVIOUS
<1>1. 1 \in Nat \ {0} /\ 1 \in Text /\ 1 \in Id /\ NoRow \in Row
  BY ScanConstants DEF Text, Id, NoRow, Row
<1>2. ScanTypeOK
  BY <1>1 DEF ScanInit, ScanTypeOK
<1>3. SourcesGrow /\ RowsAreBehind /\ UnchangedMeansHandled /\ RowsNameStoredSessions /\ ClassifiedIsStored
  BY DEF ScanInit, NoRow, HasRow, SourcesGrow, RowsAreBehind, UnchangedMeansHandled, RowsNameStoredSessions,
         ClassifiedIsStored
<1>4. OncePerTick /\ ParsedIsSound /\ FoundIsSound /\ ItemIsSound /\ SnapshotHasTheStrikes
  BY DEF ScanInit, Working, OncePerTick, ParsedIsSound, FoundIsSound, ItemIsSound, SnapshotHasTheStrikes
<1> QED  BY <1>2, <1>3, <1>4 DEF ScanInv

(* The disk: sizes always grow, so that no row and no result keeps the size  *)
(* its source has.                                                           *)
LEMMA WriteHolds ==
  ASSUME ScanInv, NEW p \in Source, Write(p)
  PROVE  ScanInv'
<1> DEFINE n == file[p].size + 1
<1>1. UNCHANGED <<row, session, replaced, phase, snapshot, unseen, sized, found, item, classified, backoff, handled>>
  BY DEF Write, tableVars, tickVars, memVars
<1>2. /\ file \in [Source -> [size : Nat \ {0}, text : Text, id : Id]]
      /\ file[p] \in [size : Nat \ {0}, text : Text, id : Id] /\ n \in Nat \ {0}
  BY DEF ScanInv, ScanTypeOK
<1>3. PICK f \in [size : Nat \ {0}, text : Text, id : Id] :
        /\ file' = [file EXCEPT ![p] = f]
        /\ f.size = n
        /\ (f.text = file[p].text /\ f.id = file[p].id) \/ f.text = n
  <2>1. CASE file' = [file EXCEPT ![p].size = n]
    <3> DEFINE f == [file[p] EXCEPT !.size = n]
    <3>1. f \in [size : Nat \ {0}, text : Text, id : Id] /\ f.size = n /\ f.text = file[p].text /\ f.id = file[p].id
      BY <1>2
    <3>2. file' = [file EXCEPT ![p] = f]
      BY <2>1
    <3> QED  BY <3>1, <3>2
  <2>2. CASE \E id \in Id : file' = [file EXCEPT ![p] = [size |-> n, text |-> n, id |-> id]]
    BY <1>2, <2>2 DEF Text
  <2> QED  BY <2>1, <2>2 DEF Write
<1>4. /\ file' \in [Source -> [size : Nat \ {0}, text : Text, id : Id]]
      /\ file'[p] = f
      /\ \A q \in Source : q # p => file'[q] = file[q]
  BY <1>2, <1>3
<1> HIDE DEF n
<1>5. ScanTypeOK'
  <2>1. hot' \subseteq Source
    BY DEF Write, ScanInv, ScanTypeOK
  <2> QED  BY <1>1, <1>4, <2>1 DEF ScanInv, ScanTypeOK
<1>6. n > file[p].size /\ n > file[p].text /\ n > row[p].size /\ n > classified[p]
  <2>1. file[p].size \in Nat /\ file[p].text \in Nat /\ row[p].size \in Nat /\ classified[p] \in Nat
    BY DEF ScanInv, ScanTypeOK, Row, Text
  <2>2. file[p].text <= file[p].size /\ row[p].size <= file[p].size /\ classified[p] <= file[p].text
    BY DEF ScanInv, SourcesGrow, RowsAreBehind, ClassifiedIsStored
  <2> QED  BY <2>1, <2>2 DEF n
<1>7. SourcesGrow' /\ RowsAreBehind'
  BY <1>1, <1>2, <1>3, <1>4, <1>6 DEF ScanInv, ScanTypeOK, Row, Text, SourcesGrow, RowsAreBehind
<1>8. UnchangedMeansHandled' /\ RowsNameStoredSessions'
  BY <1>1, <1>2, <1>3, <1>4, <1>6 DEF ScanInv, ScanTypeOK, Row, UnchangedMeansHandled, RowsNameStoredSessions, HasRow
<1>9. ClassifiedIsStored'
  BY <1>1, <1>2, <1>3, <1>4, <1>6 DEF ScanInv, ScanTypeOK, Text, ClassifiedIsStored
<1>10. OncePerTick' /\ SnapshotHasTheStrikes'
  BY <1>1 DEF ScanInv, OncePerTick, SnapshotHasTheStrikes
<1>11. ASSUME NEW r \in Result, InHand(r)
       PROVE  InHand(r)'
  BY <1>1, <1>2, <1>3, <1>4, <1>6, <1>11 DEF ScanInv, ScanTypeOK, Text, Result, InHand, SeenOf
<1>12. ParsedIsSound'
  BY <1>1, <1>2, <1>3, <1>4, <1>6 DEF ScanInv, ScanTypeOK, ParsedIsSound
<1>13. FoundIsSound' /\ ItemIsSound'
  BY <1>1, <1>11 DEF ScanInv, ScanTypeOK, FoundIsSound, ItemIsSound, Working
<1> QED  BY <1>5, <1>7, <1>8, <1>9, <1>10, <1>12, <1>13 DEF ScanInv

-----------------------------------------------------------------------------
(* Steps that touch neither the disk nor the tables leave what is known of   *)
(* them, and of the results, as it was.                                      *)
Grounds == SourcesGrow /\ RowsAreBehind /\ UnchangedMeansHandled /\ RowsNameStoredSessions /\ ClassifiedIsStored

LEMMA GroundsKept ==
  ASSUME Grounds, UNCHANGED <<file, row, session, classified, handled>>
  PROVE  Grounds'
  BY DEF Grounds, SourcesGrow, RowsAreBehind, UnchangedMeansHandled, RowsNameStoredSessions, ClassifiedIsStored, HasRow

LEMMA HandKept ==
  ASSUME NEW r, InHand(r), file'[r.src] = file[r.src], row'[r.src] = row[r.src],
         classified'[r.src] = classified[r.src], session' = session
  PROVE  InHand(r)'
  BY DEF InHand, SeenOf

LEMMA ItemTypes ==
  ASSUME ScanInv, Working
  PROVE  /\ item.res \in Result /\ item.gated \in BOOLEAN /\ InHand(item.res)
         /\ item.res.src \in Source /\ item.res.size \in Nat \ {0} /\ item.res.text \in Nat \ {0}
         /\ item.res.id \in {1, 2} /\ item.res.prior \in Id \cup {0}
  BY DEF ScanInv, ItemIsSound, Result, Text, Id

(* A row written for a result, at the size and with the text it was found    *)
(* with.                                                                     *)
LEMMA RowSettled ==
  ASSUME ScanInv, NEW p \in Source, NEW size \in Nat \ {0}, NEW text \in Nat,
         size <= file[p].size, size = file[p].size => text = file[p].text,
         row' \in [Source -> Row], row'[p].size = size,
         row'[p].id = row[p].id \/ session[<<p, row'[p].id>>] # 0,
         \A q \in Source : q # p => row'[q] = row[q],
         Handle(p, text), UNCHANGED <<file, session>>
  PROVE  handled' \in [Source -> Nat] /\ RowsAreBehind' /\ UnchangedMeansHandled' /\ RowsNameStoredSessions'
<1>1. /\ handled' \in [Source -> Nat] /\ handled'[p] = text
      /\ \A q \in Source : q # p => handled'[q] = handled[q]
  BY DEF Handle, ScanInv, ScanTypeOK
<1>2. RowsAreBehind'
  BY DEF ScanInv, RowsAreBehind
<1>3. UnchangedMeansHandled'
  BY <1>1 DEF ScanInv, UnchangedMeansHandled, HasRow
<1>4. RowsNameStoredSessions'
  BY DEF ScanInv, RowsNameStoredSessions
<1> QED  BY <1>1, <1>2, <1>3, <1>4

LEMMA ItemSettled ==
  ASSUME ScanInv, Working, NextItem, Handle(item.res.src, item.res.text), UNCHANGED <<diskVars, session, replaced>>,
         row' \in [Source -> Row], row'[item.res.src].size = item.res.size,
         row'[item.res.src].id = row[item.res.src].id \/ session[<<item.res.src, row'[item.res.src].id>>] # 0,
         \A q \in Source : q # item.res.src => row'[q] = row[q],
         backoff' \in [Source -> {"none", "waiting", "elapsed"}],
         \/ classified' = classified
         \/ /\ classified' = [classified EXCEPT ![item.res.src] = item.res.text]
            /\ session[<<item.res.src, item.res.id>>] = item.res.text
  PROVE  ScanInv'
<1> DEFINE p == item.res.src
<1>1. /\ p \in Source /\ item.res.size \in Nat \ {0} /\ item.res.text \in Nat \ {0}
      /\ SeenOf(item.res, file[p])
  BY ItemTypes DEF InHand
<1>2. /\ classified' \in [Source -> Nat] /\ \A q \in Source : q # p => classified'[q] = classified[q]
      /\ \/ classified'[p] = classified[p]
         \/ classified'[p] = item.res.text /\ session[<<p, item.res.id>>] = item.res.text
  <2>1. classified \in [Source -> Nat] /\ item.res.text \in Nat
    BY <1>1 DEF ScanInv, ScanTypeOK
  <2>2. CASE classified' = classified
    BY <2>1, <2>2
  <2>3. CASE /\ classified' = [classified EXCEPT ![p] = item.res.text]
             /\ session[<<p, item.res.id>>] = item.res.text
    BY <1>1, <2>1, <2>3
  <2> QED  BY <2>2, <2>3
<1>3. handled' \in [Source -> Nat] /\ RowsAreBehind' /\ UnchangedMeansHandled' /\ RowsNameStoredSessions'
  BY <1>1, RowSettled DEF SeenOf, diskVars
<1>4. ScanTypeOK'
  BY <1>2, <1>3 DEF ScanInv, ScanTypeOK, NextItem, diskVars
<1>5. SourcesGrow'
  BY DEF ScanInv, SourcesGrow, diskVars
<1>6. ClassifiedIsStored'
  <2>1. file' = file /\ session' = session
    BY DEF diskVars
  <2>2. ASSUME NEW q \in Source
        PROVE  classified'[q] <= file[q].text /\ (classified'[q] = file[q].text => session[<<q, file[q].id>>] = file[q].text)
    <3>1. CASE classified'[q] = classified[q]
      BY <3>1 DEF ScanInv, ClassifiedIsStored
    <3>2. CASE q = p /\ classified'[p] = item.res.text /\ session[<<p, item.res.id>>] = item.res.text
      BY <1>1, <3>2 DEF SeenOf
    <3> QED  BY <1>2, <3>1, <3>2
  <2> QED  BY <2>1, <2>2 DEF ClassifiedIsStored
<1>7. OncePerTick' /\ ParsedIsSound' /\ ItemIsSound' /\ SnapshotHasTheStrikes'
  BY DEF ScanInv, OncePerTick, ParsedIsSound, ItemIsSound, SnapshotHasTheStrikes, NextItem, Working
<1>8. FoundIsSound'
  <2>1. SUFFICES ASSUME NEW r \in found PROVE InHand(r)'
    BY DEF FoundIsSound, NextItem
  <2>2. InHand(r) /\ r.src # p /\ r.src \in Source
    BY DEF ScanInv, ScanTypeOK, FoundIsSound, ItemIsSound, Result
  <2> QED  BY <2>2, <1>2, HandKept DEF diskVars
<1> QED  BY <1>3, <1>4, <1>5, <1>6, <1>7, <1>8 DEF ScanInv

-----------------------------------------------------------------------------
(* The steps that settle an item. *)

LEMMA RowTyped ==
  ASSUME ScanInv, NEW p \in Source
  PROVE  row \in [Source -> Row] /\ row[p] \in Row /\ row[p].id \in Id \cup {0} /\ row[p].failures \in 0 .. MaxFailures
  BY DEF ScanInv, ScanTypeOK, Row

LEMMA SkipHolds ==
  ASSUME ScanInv, NEW p \in Source, NEW size \in Nat \ {0}, RecordSkipped(p, size)
  PROVE  /\ row' \in [Source -> Row] /\ row'[p].size = size /\ row'[p].id = row[p].id /\ row'[p].failures = 0
         /\ \A q \in Source : q # p => row'[q] = row[q]
<1>1. row \in [Source -> Row] /\ row[p] \in Row /\ 0 \in 0 .. MaxFailures /\ size \in Nat
  BY RowTyped, ScanConstants
<1> DEFINE new == [row[p] EXCEPT !.size = size, !.failures = 0]
<1>2. new \in Row
  BY <1>1 DEF Row
<1>3. new.size = size /\ new.id = row[p].id /\ new.failures = 0
  BY <1>1 DEF Row
<1>4. row' = [row EXCEPT ![p] = new]
  BY DEF RecordSkipped
<1> HIDE DEF new
<1> QED  BY <1>1, <1>2, <1>3, <1>4

LEMMA FailHolds ==
  ASSUME ScanInv, NEW r \in Result, row[r.src].failures < MaxFailures, RecordFailed(r)
  PROVE  /\ row' \in [Source -> Row] /\ row'[r.src].size = r.size /\ row'[r.src].id = row[r.src].id
         /\ \A q \in Source : q # r.src => row'[q] = row[q]
<1> DEFINE p == r.src
           new == [row[p] EXCEPT !.size = r.size, !.failures = @ + 1]
<1>1. p \in Source /\ r.size \in Nat
  BY DEF Result
<1>2. row \in [Source -> Row] /\ row[p] \in Row /\ row[p].failures + 1 \in 0 .. MaxFailures
  BY <1>1, RowTyped, ScanConstants
<1>3. new \in Row
  BY <1>1, <1>2 DEF Row
<1>4. new.size = r.size /\ new.id = row[p].id
  BY <1>2 DEF Row
<1>5. row' = [row EXCEPT ![p] = new]
  BY DEF RecordFailed
<1> HIDE DEF new
<1> QED  BY <1>1, <1>2, <1>3, <1>4, <1>5

LEMMA ClassifiedRowHolds ==
  ASSUME ScanInv, NEW r \in Result, NEW k \in 0 .. MaxFailures,
         row' = [row EXCEPT ![r.src] = [size |-> r.size, id |-> r.id, failures |-> k]]
  PROVE  /\ row' \in [Source -> Row] /\ row'[r.src].size = r.size /\ row'[r.src].id = r.id
         /\ \A q \in Source : q # r.src => row'[q] = row[q]
<1>1. r.src \in Source /\ r.size \in Nat /\ r.id \in Id
  BY DEF Result
<1>2. row \in [Source -> Row]
  BY <1>1, RowTyped
<1>3. [size |-> r.size, id |-> r.id, failures |-> k] \in Row
  BY <1>1 DEF Row
<1> QED  BY <1>1, <1>2, <1>3

LEMMA FailedItemHolds ==
  ASSUME ScanInv, ClassifyFails \/ StoreFails \/ FailsUnrecorded
  PROVE  ScanInv'
<1>1. /\ Working /\ RecordFailed(item.res) /\ Handle(item.res.src, item.res.text) /\ NextItem
      /\ UNCHANGED <<diskVars, session, replaced, classified, backoff>>
  BY DEF ClassifyFails, StoreFails, FailsUnrecorded, Working, memVars
<1>2. item.res \in Result /\ row[item.res.src].failures < MaxFailures
  BY <1>1, ItemTypes DEF InHand
<1>3. /\ row' \in [Source -> Row] /\ row'[item.res.src].size = item.res.size
      /\ row'[item.res.src].id = row[item.res.src].id
      /\ \A q \in Source : q # item.res.src => row'[q] = row[q]
  BY <1>1, <1>2, FailHolds
<1>4. backoff' \in [Source -> {"none", "waiting", "elapsed"}]
  BY <1>1 DEF ScanInv, ScanTypeOK
<1> QED  BY <1>1, <1>3, <1>4, ItemSettled

LEMMA LowConfidenceHolds ==
  ASSUME ScanInv, LowConfidence
  PROVE  ScanInv'
<1>1. /\ Working /\ RecordSkipped(item.res.src, item.res.size) /\ Handle(item.res.src, item.res.text) /\ NextItem
      /\ UNCHANGED <<diskVars, session, replaced, classified, backoff>>
  BY DEF LowConfidence, Working, memVars
<1>2. item.res.src \in Source /\ item.res.size \in Nat \ {0}
  BY <1>1, ItemTypes
<1>3. /\ row' \in [Source -> Row] /\ row'[item.res.src].size = item.res.size
      /\ row'[item.res.src].id = row[item.res.src].id
      /\ \A q \in Source : q # item.res.src => row'[q] = row[q]
  BY <1>1, <1>2, SkipHolds
<1>4. backoff' \in [Source -> {"none", "waiting", "elapsed"}]
  BY <1>1 DEF ScanInv, ScanTypeOK
<1> QED  BY <1>1, <1>3, <1>4, ItemSettled

LEMMA RecordedItemHolds ==
  ASSUME ScanInv, Recorded \/ FailsRecorded
  PROVE  ScanInv'
<1>1. /\ Working /\ phase = "after" /\ Handle(item.res.src, item.res.text) /\ NextItem
      /\ UNCHANGED <<diskVars, session, replaced>>
      /\ backoff' = [backoff EXCEPT ![item.res.src] = "none"]
      /\ classified' = classified \/ classified' = [classified EXCEPT ![item.res.src] = item.res.text]
  BY DEF Recorded, FailsRecorded, Working
<1>2. PICK k \in 0 .. MaxFailures :
        row' = [row EXCEPT ![item.res.src] = [size |-> item.res.size, id |-> item.res.id, failures |-> k]]
  <2>1. 0 \in 0 .. MaxFailures /\ 1 \in 0 .. MaxFailures
    BY ScanConstants
  <2> QED  BY <2>1 DEF Recorded, FailsRecorded, RecordClassified
<1>3. item.res \in Result /\ item.res.src \in Source /\ item.res.text # 0
  BY <1>1, ItemTypes
<1>4. session[<<item.res.src, item.res.id>>] = item.res.text
  BY <1>1 DEF ScanInv, ItemIsSound
<1>5. /\ row' \in [Source -> Row] /\ row'[item.res.src].size = item.res.size /\ row'[item.res.src].id = item.res.id
      /\ \A q \in Source : q # item.res.src => row'[q] = row[q]
  BY <1>2, <1>3, ClassifiedRowHolds
<1>6. backoff' \in [Source -> {"none", "waiting", "elapsed"}]
  BY <1>1, <1>3 DEF ScanInv, ScanTypeOK
<1> QED  BY <1>1, <1>3, <1>4, <1>5, <1>6, ItemSettled

-----------------------------------------------------------------------------
(* The steps of the scan. *)

LEMMA GroundsOfInv == ScanInv => Grounds
  BY DEF ScanInv, Grounds

LEMMA StartTickHolds ==
  ASSUME ScanInv, StartTick
  PROVE  ScanInv'
<1>1. /\ phase = "rest" /\ phase' = "scan" /\ snapshot' = row /\ unseen' = Source
      /\ UNCHANGED <<file, hot, row, session, replaced, sized, found, item, classified, backoff, handled>>
  BY DEF StartTick, diskVars, tableVars, memVars
<1>2. ScanTypeOK'
  BY <1>1 DEF ScanInv, ScanTypeOK
<1>3. Grounds'
  BY <1>1, GroundsKept, GroundsOfInv
<1>4. found' = {} /\ OncePerTick'
  BY <1>1 DEF ScanInv, OncePerTick
<1> QED  BY <1>1, <1>2, <1>3, <1>4
         DEF ScanInv, Grounds, ParsedIsSound, FoundIsSound, ItemIsSound, Working, SnapshotHasTheStrikes

(* Steps that only drop a source or a result from the tick, or move it on.   *)
LEMMA DroppingHolds ==
  ASSUME ScanInv, UNCHANGED <<file, row, session, replaced, classified, handled>>,
         item' = item \/ (item' = Nothing /\ phase' = "rest"),
         hot' \subseteq Source, backoff' \in [Source -> {"none", "waiting", "elapsed"}],
         unseen' \subseteq unseen, found' \subseteq found,
         \/ snapshot' = snapshot
         \/ snapshot' \in [Source -> Row] /\ unseen' = {},
         \/ phase' = phase /\ sized' = sized
         \/ phase = "parse" /\ phase' = "scan" /\ sized' = Nothing
         \/ phase = "scan" /\ phase' = "work" /\ unseen = {} /\ sized' = sized
         \/ phase' = "rest" /\ unseen' = {} /\ found' = {} /\ sized' = sized
         \/ phase = "classify" /\ phase' = "store" /\ sized' = sized
  PROVE  ScanInv'
<1>1. /\ phase' \in {"rest", "scan", "parse", "work", "classify", "store", "after"} /\ snapshot' \in [Source -> Row]
      /\ unseen' \subseteq Source /\ found' \subseteq Result
      /\ sized' = Nothing \/ sized' \in [src : Source, size : Nat \ {0}]
  BY DEF ScanInv, ScanTypeOK
<1>2. ScanTypeOK'
  BY <1>1 DEF ScanInv, ScanTypeOK
<1>3. Grounds'
  BY GroundsKept, GroundsOfInv
<1>4. OncePerTick'
  BY DEF ScanInv, OncePerTick
<1>5. ParsedIsSound'
  BY DEF ScanInv, ParsedIsSound
<1>6. FoundIsSound'
  BY HandKept DEF ScanInv, FoundIsSound
<1>7. ItemIsSound'
  BY HandKept DEF ScanInv, ItemIsSound, Working
<1>8. SnapshotHasTheStrikes'
  BY DEF ScanInv, SnapshotHasTheStrikes
<1> QED  BY <1>2, <1>3, <1>4, <1>5, <1>6, <1>7, <1>8 DEF ScanInv, Grounds

LEMMA QuietStepHolds ==
  ASSUME ScanInv,
         \/ EndScan \/ EndTick \/ ParseError \/ Confident \/ ClassifierDown
         \/ \E p \in Source : GoesIdle(p) \/ BackoffElapses(p) \/ PassOver(p) \/ StatFails(p)
         \/ \E r \in found : StillDeferred(r)
  PROVE  ScanInv'
<1> USE DEF diskVars, tableVars, tickVars, memVars
<1>1. /\ hot \subseteq Source /\ backoff \in [Source -> {"none", "waiting", "elapsed"}]
      /\ [p \in Source |-> NoRow] \in [Source -> Row]
  BY ScanConstants DEF ScanInv, ScanTypeOK, NoRow, Row
<1>2. CASE EndScan
  BY <1>1, <1>2, DroppingHolds DEF EndScan
<1>3. CASE EndTick
  <2>1. phase \notin {"scan", "parse"} => unseen = {}
    BY DEF ScanInv, OncePerTick
  <2> QED  BY <1>1, <1>3, <2>1, DroppingHolds DEF EndTick
<1>4. CASE ParseError
  BY <1>1, <1>4, DroppingHolds DEF ParseError
<1>5. CASE Confident
  BY <1>1, <1>5, DroppingHolds DEF Confident
<1>6. ASSUME NEW p \in Source, GoesIdle(p) PROVE ScanInv'
  BY <1>1, <1>6, DroppingHolds DEF GoesIdle
<1>7. ASSUME NEW p \in Source, BackoffElapses(p) PROVE ScanInv'
  BY <1>1, <1>7, DroppingHolds DEF BackoffElapses
<1>8. ASSUME NEW p \in Source, PassOver(p) \/ StatFails(p) PROVE ScanInv'
  BY <1>1, <1>8, DroppingHolds DEF PassOver, StatFails
<1>9. ASSUME NEW r \in found, StillDeferred(r) PROVE ScanInv'
  BY <1>1, <1>9, DroppingHolds DEF StillDeferred
<1>10. CASE ClassifierDown
  <2>1. phase = "classify" /\ unseen = {} /\ item.res.src \in Source
    BY <1>10, ItemTypes DEF ClassifierDown, Working, ScanInv, OncePerTick
  <2>2. backoff' \in [Source -> {"none", "waiting", "elapsed"}]
    BY <1>1, <1>10, <2>1 DEF ClassifierDown
  <2> QED  BY <1>1, <1>10, <2>1, <2>2, DroppingHolds DEF ClassifierDown
<1> QED  BY <1>2, <1>3, <1>4, <1>5, <1>6, <1>7, <1>8, <1>9, <1>10

LEMMA LookAtHolds ==
  ASSUME ScanInv, NEW p \in Source, LookAt(p)
  PROVE  ScanInv'
<1> DEFINE s == [src |-> p, size |-> file[p].size]
<1>1. /\ phase = "scan" /\ phase' = "parse" /\ p \in unseen /\ unseen' = unseen \ {p} /\ sized' = s
      /\ UNCHANGED <<file, hot, session, replaced, snapshot, found, item, classified, backoff, handled>>
  BY DEF LookAt, diskVars, memVars
<1>2. file[p].size \in Nat \ {0} /\ row \in [Source -> Row] /\ row[p] \in Row /\ row[p].size \in Nat
      /\ row[p].failures \in 0 .. MaxFailures /\ MaxFailures \in Nat \ {0}
  BY ScanConstants DEF ScanInv, ScanTypeOK, Row
<1>3. /\ row' \in [Source -> Row] /\ row'[p].size = row[p].size /\ row'[p].id = row[p].id
      /\ row'[p].failures < MaxFailures
      /\ \A q \in Source : q # p => row'[q] = row[q]
  <2>1. snapshot[p].failures = row[p].failures
    BY <1>1 DEF ScanInv, SnapshotHasTheStrikes
  <2>2. CASE snapshot[p].failures >= MaxFailures
    <3> DEFINE new == [row[p] EXCEPT !.failures = 0]
    <3>1. new \in Row
      BY <1>2 DEF Row
    <3>2. new.size = row[p].size /\ new.id = row[p].id /\ new.failures = 0
      BY <1>2 DEF Row
    <3>3. row' = [row EXCEPT ![p] = new]
      BY <2>2 DEF LookAt
    <3> HIDE DEF new
    <3> QED  BY <1>2, <3>1, <3>2, <3>3
  <2>3. CASE ~(snapshot[p].failures >= MaxFailures)
    BY <1>2, <2>1, <2>3 DEF LookAt
  <2> QED  BY <2>2, <2>3
<1>4. sized' \in [src : Source, size : Nat \ {0}] /\ sized'.src = p /\ sized'.size = file[p].size
  BY <1>1, <1>2
<1> HIDE DEF s
<1>5. ScanTypeOK'
  BY <1>1, <1>3, <1>4 DEF ScanInv, ScanTypeOK
<1>6. SourcesGrow' /\ RowsAreBehind' /\ ClassifiedIsStored'
  BY <1>1, <1>3 DEF ScanInv, SourcesGrow, RowsAreBehind, ClassifiedIsStored
<1>7. UnchangedMeansHandled' /\ RowsNameStoredSessions'
  BY <1>1, <1>3 DEF ScanInv, UnchangedMeansHandled, RowsNameStoredSessions, HasRow
<1>8. OncePerTick'
  BY <1>1 DEF ScanInv, OncePerTick
<1>9. ParsedIsSound'
  <2>1. \A r \in found : r.src # p
    BY <1>1 DEF ScanInv, OncePerTick
  <2> QED  BY <1>1, <1>2, <1>3, <1>4, <2>1 DEF ParsedIsSound
<1>10. FoundIsSound'
  <2>1. SUFFICES ASSUME NEW r \in found PROVE InHand(r)'
    BY <1>1 DEF FoundIsSound
  <2>2. InHand(r) /\ r.src # p /\ r.src \in Source
    BY <1>1 DEF ScanInv, ScanTypeOK, FoundIsSound, OncePerTick, Result
  <2> QED  BY <1>1, <1>3, <2>2, HandKept
<1>11. ItemIsSound'
  BY <1>1 DEF ItemIsSound, Working
<1>12. SnapshotHasTheStrikes'
  BY <1>1, <1>3 DEF ScanInv, ScanTypeOK, SnapshotHasTheStrikes
<1> QED  BY <1>5, <1>6, <1>7, <1>8, <1>9, <1>10, <1>11, <1>12 DEF ScanInv

LEMMA ParseSessionHolds ==
  ASSUME ScanInv, ParseSession
  PROVE  ScanInv'
<1> DEFINE p == sized.src
           new == [src |-> p, size |-> sized.size, text |-> file[p].text, id |-> file[p].id,
                   prior |-> PriorId(p), resumed |-> HasRow(snapshot[p])]
<1>1. /\ phase = "parse" /\ phase' = "scan" /\ found' = found \cup {new} /\ sized' = Nothing
      /\ UNCHANGED <<file, hot, row, session, replaced, snapshot, unseen, item, classified, backoff, handled>>
  BY DEF ParseSession, diskVars, tableVars, memVars
<1>2. /\ p \in Source /\ sized.size \in Nat \ {0} /\ sized.size <= file[p].size
      /\ p \notin unseen /\ row[p].failures < MaxFailures /\ \A r \in found : r.src # p
  BY <1>1 DEF ScanInv, ParsedIsSound
<1>3. file[p].text \in Text /\ file[p].id \in Id /\ PriorId(p) \in Id \cup {0} /\ HasRow(snapshot[p]) \in BOOLEAN
  BY <1>2 DEF ScanInv, ScanTypeOK, Row, PriorId, HasRow
<1>4. /\ new \in Result /\ new.src = p /\ new.size = sized.size /\ new.text = file[p].text /\ new.id = file[p].id
  BY <1>2, <1>3 DEF Result
<1> HIDE DEF new
<1>5. InHand(new)
  <2>1. file[p].text \in Nat /\ classified[p] <= file[p].text
        /\ (classified[p] = file[p].text => session[<<p, file[p].id>>] = file[p].text)
    BY <1>2, <1>3 DEF ScanInv, ClassifiedIsStored, Text
  <2> QED  BY <1>2, <1>4, <2>1 DEF InHand, SeenOf
<1>6. ScanTypeOK'
  BY <1>1, <1>4 DEF ScanInv, ScanTypeOK
<1>7. Grounds'
  BY <1>1, GroundsKept, GroundsOfInv
<1>8. OncePerTick'
  BY <1>1, <1>2, <1>4 DEF ScanInv, OncePerTick
<1>9. FoundIsSound'
  BY <1>1, <1>5, HandKept DEF ScanInv, FoundIsSound
<1>10. ParsedIsSound' /\ ItemIsSound' /\ SnapshotHasTheStrikes'
  BY <1>1 DEF ScanInv, ParsedIsSound, ItemIsSound, SnapshotHasTheStrikes, Working
<1> QED  BY <1>6, <1>7, <1>8, <1>9, <1>10 DEF ScanInv, Grounds

LEMMA ParseNothingHolds ==
  ASSUME ScanInv, ParseNothing
  PROVE  ScanInv'
<1> DEFINE p == sized.src
<1>1. /\ phase = "parse" /\ phase' = "scan" /\ sized' = Nothing
      /\ RecordSkipped(p, sized.size) /\ Handle(p, file[p].text)
      /\ UNCHANGED <<file, hot, session, replaced, snapshot, unseen, found, item, classified, backoff>>
  BY DEF ParseNothing, diskVars, memVars
<1>2. /\ p \in Source /\ sized.size \in Nat \ {0} /\ sized.size <= file[p].size
      /\ p \notin unseen /\ \A r \in found : r.src # p
  BY <1>1 DEF ScanInv, ParsedIsSound
<1>3. file[p].text \in Nat
  BY <1>2 DEF ScanInv, ScanTypeOK, Text
<1>4. /\ row' \in [Source -> Row] /\ row'[p].size = sized.size /\ row'[p].id = row[p].id
      /\ \A q \in Source : q # p => row'[q] = row[q]
  BY <1>1, <1>2, SkipHolds
<1>5. handled' \in [Source -> Nat] /\ RowsAreBehind' /\ UnchangedMeansHandled' /\ RowsNameStoredSessions'
  BY <1>1, <1>2, <1>3, <1>4, RowSettled
<1>6. ScanTypeOK'
  BY <1>1, <1>4, <1>5 DEF ScanInv, ScanTypeOK
<1>7. SourcesGrow' /\ ClassifiedIsStored' /\ OncePerTick'
  BY <1>1 DEF ScanInv, SourcesGrow, ClassifiedIsStored, OncePerTick
<1>8. FoundIsSound'
  <2>1. SUFFICES ASSUME NEW r \in found PROVE InHand(r)'
    BY <1>1 DEF FoundIsSound
  <2>2. InHand(r) /\ r.src # p /\ r.src \in Source
    BY <1>2 DEF ScanInv, ScanTypeOK, FoundIsSound, Result
  <2> QED  BY <1>1, <1>4, <2>2, HandKept
<1>9. ParsedIsSound' /\ ItemIsSound'
  BY <1>1 DEF ParsedIsSound, ItemIsSound, Working
<1>10. SnapshotHasTheStrikes'
  BY <1>1, <1>2, <1>4 DEF ScanInv, ScanTypeOK, SnapshotHasTheStrikes
<1> QED  BY <1>5, <1>6, <1>7, <1>8, <1>9, <1>10 DEF ScanInv

-----------------------------------------------------------------------------
(* The work on the results, and the restart. *)

LEMMA FoundTypes ==
  ASSUME ScanInv, NEW r \in found
  PROVE  /\ r \in Result /\ InHand(r) /\ r.src \in Source /\ r.size \in Nat \ {0} /\ r.text \in Nat \ {0}
         /\ r.id \in Id /\ \A q \in found : q # r => q.src # r.src
  BY DEF ScanInv, ScanTypeOK, FoundIsSound, OncePerTick, Result, Text

LEMMA SameTextHolds ==
  ASSUME ScanInv, NEW r \in found, SameText(r)
  PROVE  ScanInv'
<1> DEFINE p == r.src
<1>1. /\ phase = "work" /\ phase' = "work" /\ classified[p] = r.text
      /\ RecordClassified(r) /\ Handle(p, r.text) /\ found' = found \ {r}
      /\ UNCHANGED <<file, hot, session, replaced, snapshot, unseen, sized, item, classified, backoff>>
  BY DEF SameText, Pending, diskVars, memVars
<1>2. /\ r \in Result /\ InHand(r) /\ p \in Source /\ r.size \in Nat \ {0} /\ r.text \in Nat \ {0}
      /\ \A q \in found : q # r => q.src # p
  BY FoundTypes
<1>3. session[<<p, r.id>>] # 0
  BY <1>1, <1>2 DEF InHand
<1>4. 0 \in 0 .. MaxFailures
  BY ScanConstants
<1>5. /\ row' \in [Source -> Row] /\ row'[p].size = r.size /\ row'[p].id = r.id
      /\ \A q \in Source : q # p => row'[q] = row[q]
  BY <1>1, <1>2, <1>4, ClassifiedRowHolds DEF RecordClassified
<1>6. handled' \in [Source -> Nat] /\ RowsAreBehind' /\ UnchangedMeansHandled' /\ RowsNameStoredSessions'
  BY <1>1, <1>2, <1>3, <1>5, RowSettled DEF InHand, SeenOf
<1>7. ScanTypeOK'
  BY <1>1, <1>5, <1>6 DEF ScanInv, ScanTypeOK
<1>8. SourcesGrow' /\ ClassifiedIsStored' /\ OncePerTick'
  BY <1>1 DEF ScanInv, SourcesGrow, ClassifiedIsStored, OncePerTick
<1>9. FoundIsSound'
  <2>1. SUFFICES ASSUME NEW q \in found, q # r PROVE InHand(q)'
    BY <1>1 DEF FoundIsSound
  <2>2. InHand(q) /\ q.src # p /\ q.src \in Source
    BY <1>2, <2>1, FoundTypes
  <2>3. row'[q.src] = row[q.src]
    BY <1>5, <2>2
  <2> QED  BY <1>1, <2>2, <2>3, HandKept
<1>10. ParsedIsSound' /\ ItemIsSound' /\ SnapshotHasTheStrikes'
  BY <1>1 DEF ScanInv, OncePerTick, ParsedIsSound, ItemIsSound, Working, SnapshotHasTheStrikes
<1> QED  BY <1>6, <1>7, <1>8, <1>9, <1>10 DEF ScanInv

LEMMA JudgeHolds ==
  ASSUME ScanInv, NEW r \in found, Judge(r)
  PROVE  ScanInv'
<1>1. /\ phase = "work" /\ found' = found \ {r} /\ phase' \in {"classify", "store"}
      /\ \E g \in BOOLEAN : item' = [res |-> r, gated |-> g]
      /\ UNCHANGED <<file, hot, row, session, replaced, snapshot, unseen, sized, classified, backoff, handled>>
  BY DEF Judge, Pending, diskVars, tableVars, memVars
<1>2. r \in Result /\ InHand(r) /\ \A q \in found : q # r => q.src # r.src
  BY FoundTypes
<1>3. item' \in [res : Result, gated : BOOLEAN] /\ item'.res = r
  BY <1>1, <1>2
<1>4. ScanTypeOK'
  BY <1>1, <1>3 DEF ScanInv, ScanTypeOK
<1>5. Grounds'
  BY <1>1, GroundsKept, GroundsOfInv
<1>6. \A q \in found : InHand(q)'
  BY <1>1, FoundTypes, HandKept
<1>7. OncePerTick' /\ ParsedIsSound' /\ SnapshotHasTheStrikes' /\ FoundIsSound'
  BY <1>1, <1>6 DEF ScanInv, OncePerTick, ParsedIsSound, SnapshotHasTheStrikes, FoundIsSound
<1>8. ItemIsSound'
  <2>1. InHand(item.res)'
    BY <1>3, <1>6 DEF InHand
  <2> QED  BY <1>1, <1>2, <1>3, <2>1 DEF ItemIsSound
<1> QED  BY <1>4, <1>5, <1>7, <1>8 DEF ScanInv, Grounds

LEMMA CommitHolds ==
  ASSUME ScanInv, Commit
  PROVE  ScanInv'
<1> DEFINE r == item.res
           p == item.res.src
<1>1. /\ phase = "store" /\ phase' = "after" /\ session' = [session EXCEPT ![<<p, r.id>>] = r.text]
      /\ replaced' \subseteq replaced \cup {<<p, r.prior>>}
      /\ r.prior = 0 => replaced' \subseteq replaced
      /\ UNCHANGED <<file, hot, row, snapshot, unseen, sized, found, item, classified, backoff, handled>>
  BY DEF Commit, diskVars, memVars
<1>2. /\ r \in Result /\ p \in Source /\ r.text \in Nat \ {0} /\ r.id \in Id /\ r.prior \in Id \cup {0}
      /\ InHand(r) /\ Working
  BY <1>1, ItemTypes DEF Working, Id
<1>3. /\ session \in [Source \X Id -> Nat] /\ <<p, r.id>> \in Source \X Id
      /\ session' \in [Source \X Id -> Nat] /\ session'[<<p, r.id>>] = r.text
      /\ \A s \in Source \X Id : s # <<p, r.id>> => session'[s] = session[s]
  BY <1>1, <1>2 DEF ScanInv, ScanTypeOK
<1>4. replaced' \subseteq Source \X Id
  BY <1>1, <1>2 DEF ScanInv, ScanTypeOK
<1>5. ScanTypeOK'
  BY <1>1, <1>3, <1>4 DEF ScanInv, ScanTypeOK
<1>6. SourcesGrow' /\ RowsAreBehind' /\ UnchangedMeansHandled' /\ OncePerTick' /\ ParsedIsSound' /\ SnapshotHasTheStrikes'
  BY <1>1 DEF ScanInv, SourcesGrow, RowsAreBehind, UnchangedMeansHandled, HasRow, OncePerTick, ParsedIsSound,
              SnapshotHasTheStrikes
<1>7. RowsNameStoredSessions'
  <2>1. SUFFICES ASSUME NEW q \in Source, row[q].id # 0 PROVE session'[<<q, row[q].id>>] # 0
    BY <1>1 DEF RowsNameStoredSessions
  <2>2. <<q, row[q].id>> \in Source \X Id /\ session[<<q, row[q].id>>] # 0
    BY <2>1, RowTyped DEF ScanInv, RowsNameStoredSessions
  <2> QED  BY <1>2, <1>3, <2>2
<1>8. ClassifiedIsStored'
  <2>1. SUFFICES ASSUME NEW q \in Source, classified[q] = file[q].text
                 PROVE  session'[<<q, file[q].id>>] = file[q].text
    BY <1>1 DEF ScanInv, ClassifiedIsStored
  <2>2. <<q, file[q].id>> \in Source \X Id /\ session[<<q, file[q].id>>] = file[q].text /\ file[q].text \in Nat
    BY <2>1 DEF ScanInv, ScanTypeOK, ClassifiedIsStored, Text
  <2>3. CASE q = p
    <3>1. r.text = file[p].text
      BY <1>2, <2>1, <2>2, <2>3 DEF InHand, SeenOf
    <3> QED  BY <1>2, <1>3, <2>3, <3>1 DEF InHand, SeenOf
  <2>4. CASE q # p
    BY <1>3, <2>2, <2>4
  <2> QED  BY <2>3, <2>4
<1>9. FoundIsSound'
  <2>1. SUFFICES ASSUME NEW q \in found PROVE InHand(q)'
    BY <1>1 DEF FoundIsSound
  <2>2. InHand(q) /\ q.src # p /\ q.src \in Source /\ q.id \in Id
    BY <1>2, FoundTypes DEF ScanInv, ItemIsSound
  <2>3. session'[<<q.src, q.id>>] = session[<<q.src, q.id>>]
    BY <1>3, <2>2
  <2> QED  BY <1>1, <2>2, <2>3 DEF InHand, SeenOf
<1>10. ItemIsSound'
  <2>1. InHand(r)'
    BY <1>1, <1>2, <1>3 DEF InHand, SeenOf
  <2> QED  BY <1>1, <1>2, <1>3, <2>1 DEF ScanInv, ItemIsSound, Working
<1> QED  BY <1>5, <1>6, <1>7, <1>8, <1>9, <1>10 DEF ScanInv

LEMMA RestartHolds ==
  ASSUME ScanInv, Restart
  PROVE  ScanInv'
<1>1. /\ phase' = "rest" /\ unseen' = {} /\ found' = {} /\ sized' = Nothing /\ item' = Nothing
      /\ snapshot' = [p \in Source |-> NoRow] /\ classified' = [p \in Source |-> 0]
      /\ backoff' = [p \in Source |-> "none"]
      /\ UNCHANGED <<file, hot, row, session, replaced, handled>>
  BY DEF Restart, diskVars, tableVars
<1>2. NoRow \in Row
  BY ScanConstants DEF NoRow, Row
<1>3. ScanTypeOK'
  BY <1>1, <1>2 DEF ScanInv, ScanTypeOK
<1>4. SourcesGrow' /\ RowsAreBehind' /\ UnchangedMeansHandled' /\ RowsNameStoredSessions'
  BY <1>1 DEF ScanInv, SourcesGrow, RowsAreBehind, UnchangedMeansHandled, RowsNameStoredSessions, HasRow
<1>5. ClassifiedIsStored'
  BY <1>1 DEF ScanInv, ScanTypeOK, Text, ClassifiedIsStored
<1>6. OncePerTick' /\ ParsedIsSound' /\ FoundIsSound' /\ ItemIsSound' /\ SnapshotHasTheStrikes'
  BY <1>1 DEF OncePerTick, ParsedIsSound, FoundIsSound, ItemIsSound, Working, SnapshotHasTheStrikes
<1> QED  BY <1>3, <1>4, <1>5, <1>6 DEF ScanInv

-----------------------------------------------------------------------------
(* Whatever fails and whenever the daemon dies: what the scan, its rows and  *)
(* its memory of texts know of each other stays true.                        *)
THEOREM ScanInvHolds == ScanSpec => []ScanInv
<1>1. ScanInit => ScanInv
  BY InitHolds
<1>2. ScanInv /\ [ScanNext]_scanVars => ScanInv'
  <2> SUFFICES ASSUME ScanInv, [ScanNext]_scanVars PROVE ScanInv'
    OBVIOUS
  <2>1. CASE UNCHANGED scanVars
    <3>1. UNCHANGED <<file, hot, row, session, replaced, phase, snapshot, unseen, sized, found, item, classified,
                      backoff, handled>>
      BY <2>1 DEF scanVars, diskVars, tableVars, tickVars, memVars
    <3> QED  BY <3>1
        DEF ScanInv, ScanTypeOK, SourcesGrow, RowsAreBehind, UnchangedMeansHandled, RowsNameStoredSessions,
            ClassifiedIsStored, OncePerTick, ParsedIsSound, FoundIsSound, ItemIsSound, SnapshotHasTheStrikes,
            InHand, SeenOf, Working, HasRow
  <2>2. CASE Restart
    BY <2>2, RestartHolds
  <2>3. ASSUME NEW p \in Source, Write(p) \/ GoesIdle(p) \/ BackoffElapses(p) PROVE ScanInv'
    BY <2>3, WriteHolds, QuietStepHolds
  <2>4. ASSUME NEW p \in Source, PassOver(p) \/ StatFails(p) \/ LookAt(p) PROVE ScanInv'
    BY <2>4, QuietStepHolds, LookAtHolds
  <2>5. ASSUME NEW r \in found, StillDeferred(r) \/ SameText(r) \/ Judge(r) PROVE ScanInv'
    BY <2>5, QuietStepHolds, SameTextHolds, JudgeHolds
  <2>6. CASE StartTick \/ EndScan \/ EndTick \/ ParseError \/ Confident \/ ClassifierDown
    BY <2>6, StartTickHolds, QuietStepHolds
  <2>7. CASE ParseSession \/ ParseNothing \/ Commit
    BY <2>7, ParseSessionHolds, ParseNothingHolds, CommitHolds
  <2>8. CASE LowConfidence \/ ClassifyFails \/ StoreFails \/ Recorded \/ FailsUnrecorded \/ FailsRecorded
    BY <2>8, LowConfidenceHolds, FailedItemHolds, RecordedItemHolds
  <2> QED  BY <2>1, <2>2, <2>3, <2>4, <2>5, <2>6, <2>7, <2>8 DEF ScanNext, TickStep
<1> QED  BY <1>1, <1>2, PTL DEF ScanSpec

(* The tick's variables stay of their types; a row counts its strikes no     *)
(* higher than the limit, as a source that reached it is let try again only  *)
(* with the count reset.                                                     *)
THEOREM ScanIsTyped == ScanSpec => []ScanTypeOK
<1>1. ScanInv => ScanTypeOK
  BY DEF ScanInv
<1> QED  BY <1>1, ScanInvHolds, PTL

(* A source the scan will pass over for its size has had its present text    *)
(* handled, however its writes and the tick's steps interleave.              *)
THEOREM UnchangedIsHandled == ScanSpec => []UnchangedMeansHandled
<1>1. ScanInv => UnchangedMeansHandled
  BY DEF ScanInv
<1> QED  BY <1>1, ScanInvHolds, PTL

(* A row's session id is that of a stored session, so that the edge it gives *)
(* rise to has both its ends.                                                *)
THEOREM RowsNameSessions == ScanSpec => []RowsNameStoredSessions
<1>1. ScanInv => RowsNameStoredSessions
  BY DEF ScanInv
<1> QED  BY <1>1, ScanInvHolds, PTL

(* A result settled for its text alone is stored already, with that text and *)
(* under its id.                                                             *)
THEOREM SkippingIsSafe == ScanSpec => SkippingLosesNothing
<1> DEFINE Safe == \A r \in found : r \notin found' /\ phase' = "work" /\ row' # row => session[<<r.src, r.id>>] = r.text
<1>1. ScanInv /\ [ScanNext]_scanVars => [Safe]_scanVars
  <2> SUFFICES ASSUME ScanInv, ScanNext, NEW r \in found, r \notin found', phase' = "work", row' # row
               PROVE  session[<<r.src, r.id>>] = r.text
    OBVIOUS
  <2>1. ASSUME NEW q \in found, SameText(q)
        PROVE  session[<<r.src, r.id>>] = r.text
    <3>1. q = r /\ classified[r.src] = r.text
      BY <2>1 DEF SameText
    <3> QED  BY <3>1, FoundTypes DEF InHand
  <2>2. ~\E q \in found : StillDeferred(q) \/ Judge(q)
    BY DEF StillDeferred, Judge, tableVars
  <2>3. \A p \in Source : ~Write(p) /\ ~GoesIdle(p) /\ ~BackoffElapses(p) /\ ~PassOver(p) /\ ~StatFails(p) /\ ~LookAt(p)
    BY DEF Write, GoesIdle, BackoffElapses, PassOver, StatFails, LookAt, tableVars, tickVars
  <2>4. ~StartTick /\ ~EndScan /\ ~EndTick /\ ~ParseSession /\ ~ParseNothing /\ ~ParseError /\ ~Confident
        /\ ~ClassifierDown /\ ~Commit /\ ~Restart
    BY DEF StartTick, EndScan, EndTick, ParseSession, ParseNothing, ParseError, Confident, ClassifierDown, Commit,
           Restart, tableVars
  <2>5. ~LowConfidence /\ ~ClassifyFails /\ ~StoreFails /\ ~Recorded /\ ~FailsUnrecorded /\ ~FailsRecorded
    BY DEF LowConfidence, ClassifyFails, StoreFails, Recorded, FailsUnrecorded, FailsRecorded, NextItem
  <2> QED  BY <2>1, <2>2, <2>3, <2>4, <2>5 DEF ScanNext, TickStep
<1> QED  BY <1>1, ScanInvHolds, PTL DEF ScanSpec, SkippingLosesNothing
=============================================================================
