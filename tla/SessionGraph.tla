---------------------------- MODULE SessionGraph ----------------------------
(***************************************************************************)
(* The session rows of the store and the edges by which one session stands *)
(* in for another: sessions.status and session_edges.  An edge <<a, b, k>> *)
(* reads "a supersedes b" (a person's or an agent's correction, k =        *)
(* "supersedes") or "a replaces b" (a transcript that came back under a    *)
(* new session id, k = "replaces").  Only these two kinds take part in     *)
(* supersedence; 'continues' edges are left out.                           *)
(*                                                                         *)
(* Every operation is one synchronous transaction, hence one step.         *)
(***************************************************************************)
EXTENDS FiniteSets

CONSTANTS
  Session,           \* session ids
  None,              \* no session
  FreshReplacement   \* a replacing transcript always brings an unused id

ASSUME NoneIsNoSession == None \notin Session
ASSUME FreshReplacementIsBoolean == FreshReplacement \in BOOLEAN

VARIABLES
  status,            \* sessions.status, "absent" while there is no row
  edges              \* session_edges of the two supersedence kinds

graphVars == <<status, edges>>

Status == {"absent", "closed", "superseded", "replaced"}
Kind   == {"supersedes", "replaces"}

Exists(s) == status[s] # "absent"

GraphTypeOK ==
  /\ status \in [Session -> Status]
  /\ edges \subseteq Session \X Session \X Kind

GraphInit ==
  /\ status = [s \in Session |-> "absent"]
  /\ edges = {}

-----------------------------------------------------------------------------
(* Supersedence paths, without recursion: p reaches q when q belongs to     *)
(* every set of sessions that holds p and is closed under the edges.        *)

Leads(E, a, b) == \E k \in Kind : <<a, b, k>> \in E

ClosedUnder(E, S) == \A a \in S, b \in Session : Leads(E, a, b) => b \in S

Reaches(E, p, q) == \A S \in SUBSET Session : p \in S /\ ClosedUnder(E, S) => q \in S

-----------------------------------------------------------------------------
(* Mutant: the edge is stored under the name of the status.                  *)
UpsertWithStatusAsKind(s, prior) ==
  /\ prior # s
  /\ prior # None => Exists(prior) /\ (FreshReplacement => ~Exists(s))
  /\ status' = [x \in Session |-> CASE x = s -> "closed"
                                    [] x = prior -> "replaced"
                                    [] OTHER -> status[x]]
  /\ edges' = edges \cup {<<s, p, "replaced">> : p \in {prior} \ {None}}

(* insertSession's session part: the upsert writes the incoming status,     *)
(* whatever the row's status was, and a predecessor named by the scan (the  *)
(* id this transcript had before) gets a 'replaces' edge and its status.    *)
UpsertSession(s, prior) ==
  /\ prior # s
  /\ prior # None => Exists(prior) /\ (FreshReplacement => ~Exists(s))
  /\ status' = [x \in Session |-> CASE x = s -> "closed"
                                    [] x = prior -> "replaced"
                                    [] OTHER -> status[x]]
  /\ edges' = edges \cup {<<s, p, "replaces">> : p \in {prior} \ {None}}

(* Mutants: the guard looks one hop ahead; earlier corrections stay; the     *)
(* edges removed are those of the wrong end.                                 *)
SupersedeOneHopGuard(pred, succ) ==
  /\ pred # succ
  /\ Exists(pred) /\ Exists(succ)
  /\ ~Leads(edges, pred, succ)
  /\ edges' = {e \in edges : ~(e[2] = pred /\ e[3] = "supersedes")}
                \cup {<<succ, pred, "supersedes">>}
  /\ status' = [status EXCEPT ![pred] = "superseded"]

SupersedeKeepingEdges(pred, succ) ==
  /\ pred # succ
  /\ Exists(pred) /\ Exists(succ)
  /\ ~Reaches(edges, pred, succ)
  /\ edges' = edges \cup {<<succ, pred, "supersedes">>}
  /\ status' = [status EXCEPT ![pred] = "superseded"]

SupersedeWrongEnd(pred, succ) ==
  /\ pred # succ
  /\ Exists(pred) /\ Exists(succ)
  /\ ~Reaches(edges, pred, succ)
  /\ edges' = {e \in edges : ~(e[1] = succ /\ e[3] = "supersedes")}
                \cup {<<succ, pred, "supersedes">>}
  /\ status' = [status EXCEPT ![pred] = "superseded"]

(* markSuperseded's session part: refuses a session superseding itself, an   *)
(* unknown session, and an edge that would close a cycle; the new edge takes *)
(* the place of every other 'supersedes' edge to the predecessor.  (The code *)
(* looks for the cycle down to a depth of 100 edges; here it always finds    *)
(* it, so chains longer than 100 are outside the model.)                     *)
SupersedeSession(pred, succ) ==
  /\ pred # succ
  /\ Exists(pred) /\ Exists(succ)
  /\ ~Reaches(edges, pred, succ)
  /\ edges' = {e \in edges : ~(e[2] = pred /\ e[3] = "supersedes")}
                \cup {<<succ, pred, "supersedes">>}
  /\ status' = [status EXCEPT ![pred] = "superseded"]

GraphNext ==
  \/ \E s \in Session, prior \in Session \cup {None} : UpsertSession(s, prior)
  \/ \E pred, succ \in Session : SupersedeSession(pred, succ)

GraphSpec == GraphInit /\ [][GraphNext]_graphVars

-----------------------------------------------------------------------------
(* I4 and the status half of I1: an edge joins two different stored          *)
(* sessions, so no step leaves an edge to a row that is not there.           *)
EdgesJoinStoredSessions ==
  \A a, b \in Session : Leads(edges, a, b) => a # b /\ Exists(a) /\ Exists(b)

(* I2 and I2r of check-invariants.ts: a session is only called superseded    *)
(* (replaced) while some session really supersedes (replaces) it, although   *)
(* edges are deleted when a correction is redirected and statuses are        *)
(* rewritten by every re-ingest.                                             *)
StatusHasItsEdge ==
  \A b \in Session :
     /\ status[b] = "superseded" => \E a \in Session : <<a, b, "supersedes">> \in edges
     /\ status[b] = "replaced"   => \E a \in Session : <<a, b, "replaces">> \in edges

(* I3: no set of sessions goes round in circles.  In every non-empty set     *)
(* some session leads to no other member, whatever mix of corrections and    *)
(* renamed transcripts built the graph.                                      *)
SupersedenceAcyclic ==
  \A S \in (SUBSET Session) \ {{}} : \E a \in S : \A b \in S : ~Leads(edges, a, b)

(* markSuperseded leaves at most one 'supersedes' edge to a session: its     *)
(* comment says the edge graph reflects the current decision only.           *)
OneSuccessor ==
  \A a, b, c \in Session :
     <<a, c, "supersedes">> \in edges /\ <<b, c, "supersedes">> \in edges => a = b

(* docs/supersedence.md: once a session is superseded the persisted status   *)
(* overrides everything else.  Whoever has a 'supersedes' edge pointing at   *)
(* it is not shown as an ordinary closed session.                            *)
SupersededStaysMarked ==
  \A a, b \in Session : <<a, b, "supersedes">> \in edges => status[b] # "closed"
=============================================================================
