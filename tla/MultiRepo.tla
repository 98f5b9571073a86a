----------------------------- MODULE MultiRepo -----------------------------
(***************************************************************************)
(* A ticket that changes several repositories: deliver opens one pull      *)
(* request in each (stages/deliver.py), the merge stage polls all of them  *)
(* and repairs one at a time (merge/multi_repo.py, merge/ci_fix_mixin.py)  *)
(* until every one is merged.  Repositories are delivered, polled and      *)
(* merged one after the other, while CI, the main branch and people move.  *)
(*                                                                         *)
(* Which check fails, what an agent achieves and what the forge answers    *)
(* are choices.  Left out: titles and bodies of pull requests, lock files, *)
(* foreign commits (PullRequest has them).                                 *)
(***************************************************************************)
EXTENDS Naturals, FiniteSets

CONSTANTS
  Repos,
  MaxRebases,      \* rebase_max_attempts
  MaxFixes,        \* ci_fix_max_attempts
  MaxFixCycles,    \* ci_fix_max_cycles, 0 for no ceiling
  MaxMissing,      \* merge_pr_missing_max_polls
  MaxIdentical,    \* deliver_max_identical_blocks
  MaxOutside       \* bound: changes of main and interventions of the operator, together

ASSUME MultiRepoConstants ==
  /\ IsFiniteSet(Repos)
  /\ \A n \in {MaxRebases, MaxFixes, MaxFixCycles, MaxMissing, MaxIdentical, MaxOutside} : n \in Nat

VARIABLES
  mt,       \* the ticket: state, and the counters in its workspace
  cnt,      \* counters of each repository
  req,      \* each repository's branch and pull request
  touched,  \* touched_repos.json
  man,      \* pr_urls.json
  pass,     \* the run of deliver or of the merge poll
  world     \* main's moves, the operator's interventions, agent runs

xvars == <<mt, cnt, req, touched, man, pass, world>>

XStates == {"DELIVERABLE", "IMPLEMENT_COMPLETE", "HUMAN_MR_APPROVAL", "ADDRESSING_REVIEW",
            "DONE", "BLOCKED"}
Statuses == {"none", "pending", "pr_missing", "merged", "closed_unmerged", "conflicting",
             "failing_ci", "green"}
NoPass == [pc |-> "idle", todo |-> {}, got |-> [r \in Repos |-> "none"], opened |-> {}]

XTypeOK ==
  /\ mt \in [st : XStates, from : XStates, missing : 0..(MaxMissing + 1), guard : 0..MaxIdentical,
             triaged : BOOLEAN]
  /\ cnt \in [Repos -> [rebase : 0..MaxRebases, fix : 0..MaxFixes, cycles : 0..MaxFixCycles]]
  /\ req \in [Repos -> [work : BOOLEAN, pr : {"none", "open", "merged", "closed"},
                        ci : {"running", "red", "green"}, clean : BOOLEAN, behind : BOOLEAN]]
  /\ touched \subseteq Repos /\ man \subseteq Repos
  /\ pass.pc \in {"idle", "deliver", "poll", "fix", "agent", "merge"}
  /\ pass.todo \subseteq Repos /\ pass.got \in [Repos -> Statuses] /\ pass.opened \subseteq Repos
  /\ world.moves \in Nat /\ world.resumes \in Nat /\ world.moves + world.resumes <= MaxOutside

XInit ==
  /\ mt = [st |-> "DELIVERABLE", from |-> "DELIVERABLE", missing |-> 0, guard |-> 0, triaged |-> FALSE]
  /\ cnt = [r \in Repos |-> [rebase |-> 0, fix |-> 0, cycles |-> 0]]
  /\ touched \in SUBSET Repos
  /\ \E w \in SUBSET touched :
       req = [r \in Repos |-> [work |-> r \in w, pr |-> "none", ci |-> "running",
                               clean |-> TRUE, behind |-> FALSE]]
  /\ man = {} /\ pass = NoPass
  /\ world = [moves |-> 0, resumes |-> 0, runs |-> [r \in Repos |-> 0]]

\* The outcome of a run, applied by the worker.
EndsIn(d) == mt' = [mt EXCEPT !.st = d, !.from = IF d = "BLOCKED" THEN mt.st ELSE d] /\ pass' = NoPass
EndsWith(m, d) == mt' = [m EXCEPT !.st = d, !.from = IF d = "BLOCKED" THEN mt.st ELSE d] /\ pass' = NoPass
NewTip(r) == [req EXCEPT ![r].ci = "running", ![r].behind = FALSE]

----------------------------------------------------------------------------
(* DeliverStage._run_multi_repo *)

\* Nothing touched ends the ticket; a triage that fell back to every
\* repository refuses new top-level files, counting identical refusals.
StartDelivery ==
  /\ mt.st = "DELIVERABLE" /\ pass.pc = "idle"
  /\ IF touched = {} THEN EndsIn("DONE")
     ELSE pass' = [NoPass EXCEPT !.pc = "deliver", !.todo = touched] /\ UNCHANGED mt
  /\ UNCHANGED <<cnt, req, touched, man, world>>

MergeGuard ==
  /\ mt.st = "DELIVERABLE" /\ pass.pc = "idle" /\ touched # {}
  /\ EndsWith([mt EXCEPT !.guard = IF @ = MaxIdentical THEN @ ELSE @ + 1], "BLOCKED")
  /\ UNCHANGED <<cnt, req, touched, man, world>>

\* Mutant: a repository that cannot be delivered is skipped like an empty one.
DeliverFails_Skips(r) ==
  pass' = [pass EXCEPT !.todo = @ \ {r}] /\ UNCHANGED <<mt, cnt, req, touched, man, world>>

\* Configuration, clone, credentials, footprint, push or the forge refuse.
DeliverFails(r) == EndsIn("BLOCKED") /\ UNCHANGED <<cnt, req, touched, man, world>>

\* _deliver_one_repo: a branch without a net change is skipped; otherwise it is
\* pushed and its pull request opened, or the open one found again, and the
\* manifest rewritten with what this run has opened so far.
DeliverRepo(r) ==
  /\ req[r].work
  /\ req' = [NewTip(r) EXCEPT ![r].pr = "open"]
  /\ man' = pass.opened \cup {r}
  /\ pass' = [pass EXCEPT !.todo = @ \ {r}, !.opened = @ \cup {r}]
  /\ UNCHANGED <<mt, cnt, touched, world>>

SkipRepo(r) ==
  /\ ~req[r].work
  /\ pass' = [pass EXCEPT !.todo = @ \ {r}]
  /\ UNCHANGED <<mt, cnt, req, touched, man, world>>

Deliver ==
  /\ pass.pc = "deliver"
  /\ \E r \in pass.todo : DeliverFails(r) \/ DeliverRepo(r) \/ SkipRepo(r)

EndDelivery ==
  /\ pass.pc = "deliver" /\ pass.todo = {}
  /\ EndsIn(IF pass.opened = {} THEN "DONE" ELSE "IMPLEMENT_COMPLETE")
  /\ UNCHANGED <<cnt, req, touched, man, world>>

----------------------------------------------------------------------------
(* MultiRepoMixin._run_multi_repo *)

StartPoll ==
  /\ mt.st \in {"IMPLEMENT_COMPLETE", "HUMAN_MR_APPROVAL"} /\ pass.pc = "idle"
  /\ pass' = [NoPass EXCEPT !.pc = "poll", !.todo = man]
  /\ UNCHANGED <<mt, cnt, req, touched, man, world>>

\* The status of one pull request.  A look-up that raises is pending, one
\* that finds nothing by branch and by URL is missing.
StatusOf(r) ==
  {"pending", "pr_missing",
   IF req[r].pr = "merged" THEN "merged"
   ELSE IF req[r].pr = "closed" THEN "closed_unmerged"
   ELSE IF ~req[r].clean THEN "conflicting"
   ELSE CASE req[r].ci = "red" -> "failing_ci" [] req[r].ci = "green" -> "green" [] OTHER -> "pending"}

PollRepo ==
  /\ pass.pc = "poll"
  /\ \E r \in pass.todo : \E x \in StatusOf(r) :
       /\ pass' = [pass EXCEPT !.todo = @ \ {r}, !.got[r] = x]
       /\ IF x = "green"
          THEN cnt' = [cnt EXCEPT ![r].cycles = 0] /\ world' = [world EXCEPT !.runs[r] = 0]
          ELSE UNCHANGED <<cnt, world>>
  /\ UNCHANGED <<mt, req, touched, man>>

With(x) == {r \in man : pass.got[r] = x}
Polled == pass.pc = "poll" /\ pass.todo = {}

DecideClosed ==
  /\ Polled /\ With("closed_unmerged") # {}
  /\ EndsIn("BLOCKED") /\ UNCHANGED <<cnt, req, touched, man, world>>

\* Mutant: what cannot be found counts as merged.
AllMerged_OrMissing == \A r \in man : pass.got[r] \in {"merged", "pr_missing"}

AllMerged == \A r \in man : pass.got[r] = "merged"

Repairs(x) == Polled /\ With("closed_unmerged") = {} /\ With(x) # {}

\* _multi_repo_rebase on one conflicting repository.  Only a push that passed
\* the check afterwards clears the count.
Rebase(r) ==
  LET n == cnt[r].rebase + 1
      count(k) == cnt' = [cnt EXCEPT ![r].rebase = k]
  IN /\ touched' = touched /\ UNCHANGED <<man, world>>
     /\ \/ EndsWith([mt EXCEPT !.missing = 0], "BLOCKED") /\ UNCHANGED <<cnt, req>>      \* clone, config, reconcile
        \/ /\ n > MaxRebases /\ count(0)
           /\ EndsWith([mt EXCEPT !.missing = 0], "BLOCKED") /\ UNCHANGED req
        \/ /\ n <= MaxRebases /\ count(n)                                                \* failed, or nothing pushed
           /\ EndsWith([mt EXCEPT !.missing = 0], mt.st) /\ UNCHANGED req
        \/ /\ n <= MaxRebases /\ count(0)
           /\ req' = [NewTip(r) EXCEPT ![r].clean = TRUE]
           /\ EndsWith([mt EXCEPT !.missing = 0], mt.st)
        \/ /\ n <= MaxRebases /\ count(n)                                                \* pushed, check failed
           /\ req' = NewTip(r)
           /\ EndsWith([mt EXCEPT !.missing = 0], "BLOCKED")

DecideRebase == Repairs("conflicting") /\ \E r \in With("conflicting") : Rebase(r)

\* The failing repository chosen for this poll; the branch is first brought up
\* to date with main, which restarts CI.
DecideFix ==
  /\ Repairs("failing_ci") /\ With("conflicting") = {}
  /\ \E r \in With("failing_ci") :
       /\ pass' = [NoPass EXCEPT !.pc = "fix", !.opened = {r}]
       /\ req' = IF req[r].behind THEN NewTip(r) ELSE req
  /\ mt' = [mt EXCEPT !.missing = 0]
  /\ UNCHANGED <<cnt, touched, man, world>>

DecideDone ==
  /\ Polled /\ AllMerged
  /\ EndsIn("DONE") /\ UNCHANGED <<cnt, req, touched, man, world>>

Settled == Polled /\ ~AllMerged /\ \A x \in {"closed_unmerged", "conflicting", "failing_ci"} : With(x) = {}

\* A late review, or a verdict that holds the merge, before any is merged.
DecideMerge ==
  /\ Settled /\ With("green") # {} /\ With("pending") = {} /\ With("pr_missing") = {}
  /\ \/ EndsIn("ADDRESSING_REVIEW")
     \/ EndsIn("HUMAN_MR_APPROVAL")
     \/ pass' = [NoPass EXCEPT !.pc = "merge", !.todo = With("green")] /\ UNCHANGED mt
  /\ UNCHANGED <<cnt, req, touched, man, world>>

\* A missing pull request that no pending one excuses is counted.
DecideMissing ==
  /\ Settled /\ With("pr_missing") # {} /\ With("pending") = {}
  /\ LET n == mt.missing + 1
     IN IF MaxMissing > 0
        THEN EndsWith([mt EXCEPT !.missing = IF n > MaxMissing THEN MaxMissing + 1 ELSE n],
                      IF n >= MaxMissing THEN "BLOCKED" ELSE mt.st)
        ELSE EndsIn(mt.st)
  /\ UNCHANGED <<cnt, req, touched, man, world>>

DecidePending ==
  /\ Settled /\ With("pending") # {}
  /\ EndsWith([mt EXCEPT !.missing = 0], mt.st)
  /\ UNCHANGED <<cnt, req, touched, man, world>>

\* _multi_repo_auto_merge: one after the other, ending at the first that the
\* forge refuses.
MergeOne ==
  /\ pass.pc = "merge"
  /\ \E r \in pass.todo :
       \/ /\ req[r].pr = "open" /\ req[r].clean
          /\ req' = [req EXCEPT ![r].pr = "merged"]
          /\ pass' = [pass EXCEPT !.todo = @ \ {r}] /\ UNCHANGED mt
       \/ EndsIn(mt.st) /\ UNCHANGED req
  /\ UNCHANGED <<cnt, touched, man, world>>

EndMerge ==
  /\ pass.pc = "merge" /\ pass.todo = {}
  /\ EndsIn(mt.st) /\ UNCHANGED <<cnt, req, touched, man, world>>

----------------------------------------------------------------------------
(* MultiRepoCiFixMixin._multi_repo_fix_ci *)

Fixing == CHOOSE r \in pass.opened : TRUE

\* CI is read again: green ends the matter; clone or configuration missing and
\* a failure that main has too block.
FixReread ==
  /\ pass.pc = "fix"
  /\ \/ EndsIn(mt.st) /\ UNCHANGED <<cnt, world>>                     \* the forge does not answer
     \/ EndsIn("BLOCKED") /\ UNCHANGED <<cnt, world>>
     \/ /\ req[Fixing].ci = "green" /\ EndsIn(mt.st)
        /\ cnt' = [cnt EXCEPT ![Fixing].cycles = 0] /\ world' = [world EXCEPT !.runs[Fixing] = 0]
  /\ UNCHANGED <<req, touched, man>>

\* _try_multi_codeql_fp_triage: once per ticket, whatever the repository.
FixTriage ==
  /\ pass.pc = "fix" /\ req[Fixing].ci = "red" /\ ~mt.triaged
  /\ \/ EndsWith([mt EXCEPT !.triaged = TRUE], mt.st) /\ req' = NewTip(Fixing)
     \/ mt' = [mt EXCEPT !.triaged = TRUE] /\ UNCHANGED <<req, pass>>
  /\ UNCHANGED <<cnt, touched, man, world>>

\* Mutant: no cycle is charged.
ChargedCycles_Never(r) == cnt[r].cycles

\* Mutant: a cycle is charged whether or not its ceiling was tested.
ChargedCycles_Always(r) == cnt[r].cycles + 1

\* A cycle is charged when CI was seen failing.
ChargedCycles(r) == IF req[r].ci = "red" /\ MaxFixCycles > 0 THEN cnt[r].cycles + 1 ELSE cnt[r].cycles

\* The attempts in a row and the cycles since CI was last green are limited.
FixLimits ==
  /\ pass.pc = "fix" /\ req[Fixing].ci # "green"
  /\ LET r == Fixing
     IN IF cnt[r].fix + 1 > MaxFixes
        THEN cnt' = [cnt EXCEPT ![r].fix = 0] /\ EndsIn("BLOCKED")
        ELSE IF req[r].ci = "red" /\ MaxFixCycles > 0 /\ cnt[r].cycles >= MaxFixCycles
        THEN cnt' = [cnt EXCEPT ![r].cycles = 0] /\ EndsIn("BLOCKED")
        ELSE /\ cnt' = [cnt EXCEPT ![r].cycles = ChargedCycles(r)]
             /\ pass' = [pass EXCEPT !.pc = "agent"] /\ UNCHANGED mt
  /\ UNCHANGED <<req, touched, man, world>>

\* run_ci_fix_agent, and what is found of its push.
FixAgent ==
  /\ pass.pc = "agent"
  /\ LET r == Fixing
         count(k) == cnt' = [cnt EXCEPT ![r].fix = k]
     IN /\ world' = [world EXCEPT !.runs[r] = @ + 1]
        /\ \/ count(cnt[r].fix + 1) /\ EndsIn(mt.st) /\ UNCHANGED req       \* failed, or nothing pushed
           \/ count(0) /\ EndsIn(mt.st) /\ req' = NewTip(r)
           \/ count(cnt[r].fix + 1) /\ EndsIn("BLOCKED") /\ req' = NewTip(r)
  /\ UNCHANGED <<touched, man>>

XStage ==
  \/ StartDelivery \/ MergeGuard \/ Deliver \/ EndDelivery \/ StartPoll \/ PollRepo
  \/ DecideClosed \/ DecideRebase \/ DecideFix \/ DecideDone \/ DecideMerge \/ DecideMissing
  \/ DecidePending \/ MergeOne \/ EndMerge \/ FixReread \/ FixTriage \/ FixLimits \/ FixAgent

----------------------------------------------------------------------------
(* The forge, people and crashes *)

CiEnds ==
  /\ \E r \in Repos, x \in {"red", "green"} :
       req[r].pr = "open" /\ req[r].ci = "running" /\ req' = [req EXCEPT ![r].ci = x]
  /\ UNCHANGED <<mt, cnt, touched, man, pass, world>>

PersonActs ==
  /\ \E r \in Repos, x \in {"merged", "closed"} :
       req[r].pr = "open" /\ req' = [req EXCEPT ![r].pr = x]
  /\ UNCHANGED <<mt, cnt, touched, man, pass, world>>

MainMoves ==
  /\ world.moves + world.resumes < MaxOutside
  /\ \E r \in Repos, c \in BOOLEAN :
       /\ req[r].pr = "open"
       /\ req' = [req EXCEPT ![r].behind = TRUE, ![r].clean = c]
  /\ world' = [world EXCEPT !.moves = @ + 1]
  /\ UNCHANGED <<mt, cnt, touched, man, pass>>

\* The operator resumes a blocked ticket, or sends it through implement again,
\* which may leave changes in other repositories than before.
OperatorResumesRepos ==
  /\ mt.st \in {"BLOCKED", "HUMAN_MR_APPROVAL"} /\ pass.pc = "idle" /\ world.moves + world.resumes < MaxOutside
  /\ world' = [world EXCEPT !.resumes = @ + 1, !.runs = [r \in Repos |-> 0]]
  /\ \/ mt.st = "BLOCKED" /\ mt' = [mt EXCEPT !.st = mt.from] /\ UNCHANGED <<req, touched>>
     \/ /\ mt' = [mt EXCEPT !.st = "DELIVERABLE", !.from = "DELIVERABLE"]
        /\ touched' \in SUBSET Repos
        /\ \E w \in SUBSET touched' :
             req' = [r \in Repos |-> [req[r] EXCEPT !.work = r \in w /\ req[r].pr # "merged"]]
  /\ UNCHANGED <<cnt, man, pass>>

XCrash ==
  /\ pass.pc # "idle" /\ pass' = NoPass
  /\ UNCHANGED <<mt, cnt, req, touched, man, world>>

XNext == XStage \/ CiEnds \/ PersonActs \/ MainMoves \/ OperatorResumesRepos \/ XCrash

XSpec == XInit /\ [][XNext]_xvars

----------------------------------------------------------------------------
(* Properties *)

\* mill merges nothing while another touched repository holds work that was
\* never delivered: a change of several repositories is not shipped in part,
\* however often deliver was cut short and resumed.
NoPartialShip ==
  [][\A r \in Repos : pass.pc = "merge" /\ req[r].pr = "open" /\ req'[r].pr = "merged" /\ mt.st = mt'.st
       => \A q \in touched : req[q].work => q \in man]_xvars

\* A ticket is done when every repository that has work for it merged that
\* work.
DoneIsMergedEverywhere ==
  [][mt'.st = "DONE" /\ mt.st # "DONE" => \A r \in Repos : req[r].work => req[r].pr = "merged"]_xvars

\* The agent runs at most ci_fix_max_cycles times on a repository whose CI
\* never turns green, and once more for each time main moved.
FixRunsBounded ==
  MaxFixCycles > 0 => \A r \in Repos : world.runs[r] <= MaxFixCycles + world.moves

\* A change of several repositories ships together: nothing is merged while a
\* part was never delivered, done means merged everywhere, and the repairs on
\* the way are bounded in each repository.
ShipsTogether == [](XTypeOK /\ FixRunsBounded) /\ NoPartialShip /\ DoneIsMergedEverywhere

\* "so a mid-loop BLOCKED leaves a consistent partial manifest": every open
\* pull request is one the poll knows.  A repository dropped by a second
\* implement run keeps its open one.
OpenPrsAreTracked ==
  mt.st = "IMPLEMENT_COMPLETE" => \A r \in Repos : req[r].pr = "open" => r \in man

\* "Run the CI-fix agent on one multi-repo PR whose CI is failing."
FixesOnlyRed == pass.pc = "agent" => req[Fixing].ci = "red"

=============================================================================
