------------------------------ MODULE DoctorFix ------------------------------
(***************************************************************************)
(* `nlm doctor --fix` on the fact tables of SQLite (applyFixOnSqlite of    *)
(* check-invariants.ts): a process of its own, next to a daemon that goes  *)
(* on ingesting.  It finds vectors without a current fact (I7) and deletes *)
(* them one by one, if the sweep guard lets it; it plans which facts of a  *)
(* key without property give way to the newest (I5a), and does so in one   *)
(* transaction; it plans anew where pointers to rows that are gone should  *)
(* lead (I5b), and does that in another.  Between each look and the writes *)
(* that follow the daemon may commit.                                      *)
(*                                                                         *)
(* It starts from a damaged database: what older versions, the judge and   *)
(* late vectors left behind, in any combination.  Its repairs of session   *)
(* edges and statuses and of chunk vectors are on other tables and are     *)
(* left out, as are predicates that may have several values.               *)
(***************************************************************************)
EXTENDS FactStore, SweepGuard

CONSTANTS
  Slugless,          \* keys without a property
  MaxCommits         \* bound: transactions of the daemon meanwhile

ASSUME FixConstants == Slugless \subseteq Key /\ MaxCommits \in Nat

VARIABLES
  step,              \* the statement the fix has come to
  ghosts,            \* vectors it has found and still to delete
  plan,              \* where it is about to lead superseded_by, per fact
  spared,            \* history: the sweep guard refused the deletion
  stale,             \* history: the daemon committed between a plan and its use
  late,              \* history: facts whose vector came when they were no longer
                     \* current, after the fix had looked for such vectors
  commits

fixVars == <<step, ghosts, plan, spared, stale, late, commits>>
doctorVars == <<factVars, fixVars>>

Plans == UNION {[F -> Fact \cup {None}] : F \in SUBSET Fact}

FixTypeOK ==
  /\ FactTypeOK
  /\ step \in {"ghosts", "sweep", "conflicts", "collapse", "dangling", "repoint", "done"}
  /\ ghosts \subseteq Fact
  /\ plan \in Plans
  /\ spared \in BOOLEAN /\ stale \in BOOLEAN /\ late \subseteq Fact
  /\ commits \in 0..MaxCommits

(* Any rows, pointers and vectors; no fact is its own successor.             *)
DamagedInit ==
  /\ stored \in SUBSET Fact
  /\ supersededBy \in [Fact -> Fact \cup {None}]
  /\ \A f \in Fact : supersededBy[f] # f /\ (f \notin stored => supersededBy[f] = None)
  /\ retired \in SUBSET stored
  /\ vectors \in SUBSET Fact
  /\ step = "ghosts" /\ ghosts = {} /\ plan = <<>>
  /\ spared = FALSE /\ stale = FALSE /\ late = {} /\ commits = 0

-----------------------------------------------------------------------------
(* I7: the guard decides on the number of vectors; the flag overrides it.    *)
FindGhosts ==
  /\ step = "ghosts"
  /\ \/ /\ step' = "sweep" /\ ghosts' = Ghosts /\ UNCHANGED spared
     \/ /\ ~GuardAllows(Cardinality(Ghosts), Cardinality(vectors), 4, 5)
        /\ step' = "conflicts" /\ spared' = TRUE /\ UNCHANGED ghosts
  /\ UNCHANGED <<factVars, plan, stale, late, commits>>

DeleteGhost(f) ==
  /\ step = "sweep" /\ f \in ghosts
  /\ vectors' = vectors \ {f}
  /\ ghosts' = ghosts \ {f}
  /\ UNCHANGED <<stored, supersededBy, retired, step, plan, spared, stale, late, commits>>

SweepEnds ==
  /\ step = "sweep" /\ ghosts = {}
  /\ step' = "conflicts"
  /\ UNCHANGED <<factVars, ghosts, plan, spared, stale, late, commits>>

(* I5a: planConflictRepairs.                                                 *)
Unattributed == {f \in Active \ Independent : KeyOf[f] \in Slugless}

NoIncoming == [k \in Key |-> None]

ConflictPlan ==
  [f \in Losers(Unattributed, Key, NoIncoming) |-> Winner(Unattributed, KeyOf[f], NoIncoming)]

(* I5b: planDanglingRepairs.  In a key with a dangling fact the newest of    *)
(* the current and the dangling ones is to be current.                       *)
Dangling == {f \in stored \ retired : supersededBy[f] \notin stored \cup {None}}

Claimants == (Active \cup Dangling) \ Independent

(* Mutant: the newest of the dangling facts, whatever is current.            *)
ClaimOfDangling(k) ==
  LET rivals == Rivals(Dangling \ Independent, k)
  IN  IF rivals = {} THEN None ELSE Newest(rivals, None)

Claim(k) == Newest(Rivals(Claimants, k), None)

(* Mutant: facts that are current stay so.                                   *)
NobodyGivesWay == {}

GivesWay == {f \in Claimants \ Dangling : Claim(KeyOf[f]) \in Dangling}

DanglingPlan ==
  [f \in Dangling \cup GivesWay |->
     IF f \in Independent \/ f = Claim(KeyOf[f]) THEN None ELSE Claim(KeyOf[f])]

MakePlan(from, to, p) ==
  /\ step = from /\ step' = to
  /\ plan' = p
  /\ UNCHANGED <<factVars, ghosts, spared, stale, late, commits>>

(* The transaction that carries a plan out; rows that are gone stay gone.    *)
Apply(from, to) ==
  /\ step = from /\ step' = to
  /\ supersededBy' = [f \in Fact |-> IF f \in DOMAIN plan \cap stored THEN plan[f] ELSE supersededBy[f]]
  /\ vectors' = vectors \ {f \in DOMAIN plan : plan[f] # None}
  /\ plan' = <<>>
  /\ UNCHANGED <<stored, retired, ghosts, spared, stale, late, commits>>

(* The daemon's transactions; a vector may come late, for a fact that is no  *)
(* longer current (FactEmbedding).                                           *)
DaemonCommits ==
  /\ commits < MaxCommits /\ commits' = commits + 1
  /\ \/ \E s \in Session : \E batch \in Batches(s) :
          \E last \in LastOfBatch(batch) : IngestFacts(s, batch, last)
     \/ \E pred, succ \in Session :
          pred # succ /\ \E heir \in HeirChoices(succ) : CascadeFacts(pred, succ, heir)
     \/ \E f \in Fact : Retire(f) \/ UpsertEmbedding(f)
  /\ stale' = (stale \/ step \in {"collapse", "repoint"})
  /\ late' = IF step = "ghosts" THEN late ELSE late \cup ((vectors' \ vectors) \ Active')
  /\ UNCHANGED <<step, ghosts, plan, spared>>

Finished == step = "done" /\ UNCHANGED doctorVars

FixStep ==
  \/ FindGhosts \/ SweepEnds
  \/ \E f \in Fact : DeleteGhost(f)
  \/ MakePlan("conflicts", "collapse", ConflictPlan)
  \/ Apply("collapse", "dangling")
  \/ MakePlan("dangling", "repoint", DanglingPlan)
  \/ Apply("repoint", "done")

DoctorNext == FixStep \/ DaemonCommits \/ Finished

DoctorSpec == DamagedInit /\ [][DoctorNext]_doctorVars

-----------------------------------------------------------------------------
(* Whatever the damage, and whatever the daemon committed at other moments   *)
(* than between a plan and its use: after a fix a second one would find      *)
(* nothing to do about facts (the tests ask that of single cases), but the   *)
(* vectors that came late since the first looked.  A retired fact may keep a *)
(* pointer that leads nowhere.                                               *)
FixRepairs ==
  step = "done" /\ ~stale =>
    /\ Dangling = {}
    /\ \A f, g \in Unattributed : KeyOf[f] = KeyOf[g] => f = g
    /\ ~spared => Ghosts \subseteq late

(* A fix never takes the newest value of a key away: a fact that was current *)
(* before a step of it and is not afterwards gave way to a current one of    *)
(* its key that is at least as new.                                          *)
FixKeepsTheNewest ==
  [][FixStep /\ ~stale =>
       \A f \in Active \ Active' : \E g \in Active' :
          KeyOf[g] = KeyOf[f] /\ CreatedAt[g] >= CreatedAt[f]]_doctorVars
=============================================================================
