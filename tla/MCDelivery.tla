----------------------------- MODULE MCDelivery -----------------------------
(***************************************************************************)
(* How tickets are shipped, closed and filed anew: parts that share no     *)
(* state, one run.                                                         *)
(*   "repos"   a ticket with pull requests in two repositories;            *)
(*   "dups"    four drafts, two of them siblings, closed as duplicates of  *)
(*             one another;                                                *)
(*   "chain"   retrospects of up to four generations of tickets;           *)
(*   "lessons" the memory retrospects share, with a restart;               *)
(*   "passes"  runs of a periodic pass that file what they find, one at a  *)
(*             time; "race" two of them at once, with one finding;         *)
(*   "loops"   the supervisor of a periodic and a bespoke pass, an edit of *)
(*             their files and a restart.                                  *)
(* The parts not chosen keep an initial state.                             *)
(***************************************************************************)
EXTENDS MultiRepo, Dedup, Retrospect, Proposals, PeriodicPasses, TLC

CONSTANTS i1, i2, g1, g2, p1, p2

VARIABLE part

ParentOf == [t \in Drafts |-> CASE t \in {"a1", "a2"} -> "e1" [] t = "b" -> "e2" [] OTHER -> "none"]
Ticks == [p \in Passes |-> IF p = "audit" THEN 2 ELSE 1]
OwnCriterion == [x \in {i1, i2} |-> x]

Chain == INSTANCE Retrospect WITH Lessons <- {}, MaxDrafts <- 1, MaxDeaths <- 0
Learn == INSTANCE Retrospect WITH Titles <- {i1}, MaxTix <- 3

Serial == INSTANCE Proposals WITH Runs <- {p1}
Race == INSTANCE Proposals WITH Gaps <- {g1}

MCInit ==
  /\ part \in {"repos", "dups", "chain", "lessons", "passes", "race", "loops"}
  /\ IF part = "repos" THEN XInit ELSE XInit /\ touched = {}
  /\ UInit
  /\ IF part = "chain" THEN Chain!RetroInit ELSE Learn!RetroInit /\ (part = "lessons" \/ tix[1].source = "user")
  /\ IF part = "race" THEN Race!QInit ELSE Serial!QInit
  /\ CInit

MCNext ==
  \/ part = "repos" /\ XNext /\ UNCHANGED <<part, uvars, rvars, qvars, cvars>>
  \/ part = "dups" /\ UNext /\ UNCHANGED <<part, xvars, rvars, qvars, cvars>>
  \/ part = "chain" /\ Chain!RetroNext /\ UNCHANGED <<part, xvars, uvars, qvars, cvars>>
  \/ part = "lessons" /\ Learn!RetroNext /\ UNCHANGED <<part, xvars, uvars, qvars, cvars>>
  \/ part = "passes" /\ Serial!QNext /\ UNCHANGED <<part, xvars, uvars, rvars, cvars>>
  \/ part = "race" /\ Race!QNext /\ UNCHANGED <<part, xvars, uvars, rvars, cvars>>
  \/ part = "loops" /\ CNext /\ UNCHANGED <<part, xvars, uvars, rvars, qvars>>

MCSpec == MCInit /\ [][MCNext]_<<part, xvars, uvars, rvars, qvars, cvars>>

RepoSymmetry == Permutations(Repos)

=============================================================================
