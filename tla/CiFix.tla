------------------------------- MODULE CiFix -------------------------------
(***************************************************************************)
(* The ci_fix stage (stages/ci_fix*.py) for one ticket in FIXING_CI: its   *)
(* force push of the refreshed clone, the gates before the agent, the      *)
(* deterministic passes, the agent with its timeout, and what is done with *)
(* its verdict.                                                            *)
(*                                                                         *)
(* A run is a sequence of steps between which people and the forge act and *)
(* the process may die.  What a gate reads from a log or a setting is      *)
(* chosen at the gate; the set of failing checks and whether the failure   *)
(* looks transient are kept for the run, because its counters depend on    *)
(* them.  The fix ticket of an out-of-scope failure is module              *)
(* DependencyFix.  Left out: wording, artifacts no step reads, tracing.    *)
(***************************************************************************)
EXTENDS PullRequest, TicketStates, Naturals

CONSTANTS
  Checks,                \* names of failing-check sets
  TransientMaxRetries,   \* ci_transient_max_retries
  MaxIdenticalFailures,  \* ci_fix_max_identical_failures
  MaxTotalAttempts,      \* ci_fix_max_total_attempts
  PushRetryBudget,       \* _CI_PUSH_RETRY_BUDGET
  MaxCrashes             \* bound of the model: crashes of the process

ASSUME CiFixConstants ==
  /\ MaxTotalAttempts \in Nat \ {0} /\ PushRetryBudget \in Nat \ {0}
  /\ TransientMaxRetries \in Nat /\ MaxIdenticalFailures \in Nat /\ MaxCrashes \in Nat

VARIABLES
  fst,       \* the ticket's state
  fpc,       \* where the run is
  fail,      \* the failure this run is about
  fseen,     \* result of the run's reconcile
  fart,      \* the artifacts directory
  tries,     \* pushes tried by _finalize_success
  late,      \* an agent that timed out still runs in its thread
  fhist,     \* history, see FixHistory
  crashes

fvars == <<pr, git, fst, fpc, fail, fseen, fart, tries, late, fhist, crashes>>

Failure == [checks : Checks, transient : BOOLEAN]
NoFailure == [checks |-> None, transient |-> FALSE]

FixArtifacts ==
  [transient : 0..TransientMaxRetries, refreshed : BOOLEAN,
   fp : Checks \cup {None},          \* checks of the stored fingerprint, None if of another head
   same : 0..MaxIdenticalFailures,   \* ci_identical_failure_count, up to the last value below the cap
   checkset : Checks \cup {None}, total : 0..MaxTotalAttempts,
   triaged : BOOLEAN,                \* the CodeQL triage sentinel
   rechecked : BOOLEAN]              \* CI was re-run for the fix that merged

FixHistory ==
  [agents : Nat,       \* agent runs for the recorded check set
   dismissals : Nat]   \* times alerts were dismissed

FInit ==
  /\ PRInit
  /\ fst = "fixing_ci" /\ fpc = "idle" /\ fail = NoFailure /\ fseen = None
  /\ fart = [transient |-> 0, refreshed |-> FALSE, fp |-> None, same |-> 0,
             checkset |-> None, total |-> 0, triaged |-> FALSE,
             rechecked |-> FALSE]
  /\ tries = 0 /\ late = FALSE /\ crashes = 0
  /\ fhist = [agents |-> 0, dismissals |-> 0]

-----------------------------------------------------------------------------

Ends(s) ==
  /\ fst' = s /\ fpc' = "idle" /\ fail' = NoFailure /\ fseen' = None /\ tries' = 0
  /\ UNCHANGED <<late, crashes>>

To(label) == fpc' = label /\ UNCHANGED <<fst, fail, fseen, tries, late, crashes>>

Same == UNCHANGED <<pr, git>>
Kept == UNCHANGED <<pr, git, fart, fhist>>

\* A stored fingerprint is of the head it was taken at.
OnNewHead(a) == [a EXCEPT !.fp = None]

\* rerun_workflow, which may be refused.
rerun_workflows == pr' \in {pr, IF pr.state = "open" THEN [pr EXCEPT !.ci = "pending"] ELSE pr} /\ UNCHANGED git

\* _resolve_clone_and_status: guards, then the clone is rebased onto its target
\* and force-pushed, or its conflict sent to the rebase.
RefreshClone ==
  /\ fpc = "idle" /\ fst = "fixing_ci"
  /\ \/ Ends("blocked") /\ Kept
     \/ Ends("rebasing") /\ Kept
     \/ /\ \E g \in {git, Rebased} :
             /\ push(g)
             /\ fart' = IF g.ahead \/ g.foreign THEN OnNewHead(fart) ELSE fart
        /\ To("status") /\ UNCHANGED fhist
     \/ To("status") /\ git' \in {git, Rebased} /\ UNCHANGED <<pr, fart, fhist>>

\* ... CI is read ...
CheckStatus ==
  /\ fpc = "status"
  /\ \/ Ends("implement_complete") /\ UNCHANGED fart       \* unreadable or pending
     \/ /\ pr.ci = "green"
        /\ fart' = [fart EXCEPT !.refreshed = FALSE]
        /\ Ends("implement_complete")
  /\ Same /\ UNCHANGED fhist

\* Mutant: reruns are not counted against their limit.
CiIsRed_Unbounded ==
  /\ fpc = "status" /\ pr.ci = "red"
  /\ rerun_workflows
  /\ fart' = [fart EXCEPT !.transient = @ + 1]
  /\ Ends("implement_complete")
  /\ UNCHANGED fhist

\* ... and a failure that looks transient is re-run a bounded number of times.
CiIsRed ==
  /\ fpc = "status" /\ pr.ci = "red"
  /\ \E f \in Failure :
       IF f.transient /\ fart.transient < TransientMaxRetries
       THEN /\ rerun_workflows
            /\ fart' = [fart EXCEPT !.transient = @ + 1]
            /\ Ends("implement_complete")
       ELSE /\ fail' = f /\ fpc' = "triage"
            /\ Same /\ UNCHANGED <<fst, fseen, tries, late, crashes, fart>>
  /\ UNCHANGED fhist

\* A repository setting, a target that is broken itself, an account without
\* runners, alerts that cannot be read: no agent can fix those.
Gates ==
  /\ fpc = "triage"
  /\ Ends("blocked")
  /\ Kept

\* Mutant: the sentinel is read and never written.
CodeqlTriage_Unmarked ==
  /\ fpc = "triage"
  /\ (~fart.triaged /\ To("dismiss")) \/ To("identical")
  /\ Kept

\* _try_codeql_fp_triage: mark, then ask for the false positives ...
CodeqlTriage ==
  /\ fpc = "triage"
  /\ \/ /\ ~fart.triaged
        /\ fart' = [fart EXCEPT !.triaged = TRUE]
        /\ To("dismiss")
     \/ To("identical") /\ UNCHANGED fart
  /\ Same /\ UNCHANGED fhist

\* ... and dismiss them.
Dismiss ==
  /\ fpc = "dismiss"
  /\ \/ /\ fhist' = [fhist EXCEPT !.dismissals = @ + 1]
        /\ Ends("implement_complete")
     \/ To("identical") /\ UNCHANGED fhist
  /\ Same /\ UNCHANGED fart

\* _check_consecutive_identical_failure
Identical ==
  LET n == fart.same + 1
      capped == n >= MaxIdenticalFailures
  IN /\ fpc = "identical"
     /\ IF MaxIdenticalFailures = 0 THEN To("reconcile") /\ Same /\ UNCHANGED fart
        ELSE IF fart.fp # fail.checks
        THEN /\ fart' = [fart EXCEPT !.fp = fail.checks, !.same = 0]
             /\ To("reconcile") /\ Same
        ELSE IF capped /\ fail.transient /\ TransientMaxRetries > 0
        THEN /\ rerun_workflows
             /\ fart' = [fart EXCEPT !.same = 0]
             /\ Ends("implement_complete")
        ELSE /\ fart' = [fart EXCEPT !.same = IF capped THEN @ ELSE n]
             /\ (IF capped THEN Ends("blocked") ELSE To("reconcile")) /\ Same
     /\ UNCHANGED fhist

\* _handle_non_code_fixable_failure and _reroute_when_pr_conflicting
NotFixable ==
  /\ fpc = "reconcile"
  /\ Ends("blocked") \/ Ends("rebasing")
  /\ Kept

\* _run_agent_and_finalize reconciles first.
Reconcile ==
  /\ fpc = "reconcile"
  /\ \E res \in {"SYNCED", "UNAVAILABLE", "DIVERGED"} :
       /\ reconcile_with_remote_pr(res)
       /\ IF res = "DIVERGED" THEN Ends("blocked")
          ELSE fpc' = "passes" /\ fseen' = res /\ UNCHANGED <<fst, fail, tries, late, crashes>>
  /\ fart' = IF git.foreign /\ ~git'.foreign THEN OnNewHead(fart) ELSE fart
  /\ UNCHANGED <<pr, fhist>>

\* The formatter and the audit pass commit and push under the lease, or leave
\* the failure (and perhaps a commit) to the agent.
DeterministicPass ==
  /\ fpc = "passes"
  /\ \/ /\ push_with_lease(Rebased)
        /\ fart' = OnNewHead(fart) /\ To("finalize")
     \/ git' \in {git, Rebased} /\ UNCHANGED <<pr, fart>> /\ To("cap")
  /\ UNCHANGED fhist

\* Mutant: the attempt is charged when the agent has answered.
AttemptCap_ChargeLater ==
  /\ fpc = "cap"
  /\ IF fart.total >= MaxTotalAttempts THEN Ends("blocked") ELSE To("agent")
  /\ fhist' = IF fart.checkset = fail.checks THEN fhist ELSE [fhist EXCEPT !.agents = 0]
  /\ fart' = [fart EXCEPT !.checkset = fail.checks]
  /\ Same

\* _check_total_attempt_cap; another set of checks starts a new count.
AttemptCap ==
  LET count == IF fart.checkset = fail.checks THEN fart.total ELSE 0
      exhausted == count >= MaxTotalAttempts
  IN /\ fpc = "cap"
     /\ fart' = [fart EXCEPT !.checkset = fail.checks,
                             !.total = IF exhausted THEN MaxTotalAttempts ELSE count + 1]
     /\ fhist' = IF fart.checkset = fail.checks THEN fhist ELSE [fhist EXCEPT !.agents = 0]
     /\ IF exhausted THEN Ends("blocked") ELSE To("agent")
     /\ Same

\* _invoke_agent: the agent may push with its own tool, and then answers DONE or
\* OUT_OF_SCOPE, or fails.
AgentAnswers ==
  /\ fpc = "agent"
  /\ \/ agent_push_with_lease(Rebased) /\ fart' = OnNewHead(fart)
     \/ git' \in {git, Rebased} /\ UNCHANGED <<pr, fart>>
  /\ To("finalize") \/ To("outofscope") \/ To("failed")
  /\ fhist' = [fhist EXCEPT !.agents = @ + 1]

\* Its tool-call budget ends: the session's checkpoint is finalised, and CI is
\* not read again before the ticket blocks.
AgentBudget ==
  /\ fpc = "agent"
  /\ git' \in {git, Rebased} /\ UNCHANGED <<pr, fart>>
  /\ fhist' = [fhist EXCEPT !.agents = @ + 1]
  /\ Ends("blocked")

\* The stage stops waiting; future.cancel() does not stop the thread.
AgentTimeout ==
  /\ fpc = "agent"
  /\ late' = TRUE /\ fpc' = "failed"
  /\ fhist' = [fhist EXCEPT !.agents = @ + 1]
  /\ Same /\ UNCHANGED <<fst, fail, fseen, fart, tries, crashes>>

\* What the abandoned agent still does, whatever the ticket does meanwhile.
LateAgent ==
  /\ late
  /\ \/ agent_push_with_lease(Rebased) /\ fart' = OnNewHead(fart)
     \/ git' \in {git, Rebased} /\ UNCHANGED <<pr, fart>>
  /\ late' = FALSE
  /\ UNCHANGED <<fst, fpc, fail, fseen, tries, fhist, crashes>>

\* Mutant: an agent that failed is simply run again.
AgentFailed_Retry ==
  /\ fpc = "failed"
  /\ Ends("fixing_ci")
  /\ Kept

\* The failing ends of _run_agent_and_finalize: _ci_recovered_before_block.
AgentFailed ==
  /\ fpc = "failed"
  /\ Ends("implement_complete") \/ Ends("blocked")
  /\ Kept

-----------------------------------------------------------------------------
(* _finalize_success *)

FinalCheck ==
  /\ fpc = "finalize"
  /\ \/ /\ post_push_check("PASS")
        /\ fart' = [fart EXCEPT !.refreshed = FALSE]
        /\ Ends("implement_complete")
     \/ post_push_check("UNAVAILABLE") /\ Ends("implement_complete") /\ UNCHANGED fart
     \/ post_push_check("FOREIGN_DIVERGENCE") /\ Ends("blocked") /\ UNCHANGED fart
     \/ /\ post_push_check("NOT_LANDED") /\ UNCHANGED fart
        /\ IF tries = PushRetryBudget THEN Ends("blocked") ELSE To("land")
  /\ UNCHANGED <<pr, fhist>>

\* try_rebase_onto_branch takes the remote's commits in, or conflicts.
LandRebase ==
  /\ fpc = "land"
  /\ \/ Ends("blocked") /\ UNCHANGED <<git, fart>>
     \/ /\ git' = [git EXCEPT !.foreign = FALSE, !.track = "current", !.ahead = TRUE]
        /\ fart' = OnNewHead(fart) /\ To("landpush")
  /\ UNCHANGED <<pr, fhist>>

LandPush ==
  /\ fpc = "landpush"
  /\ tries' = tries + 1
  /\ \/ push_with_lease(git) /\ fart' = OnNewHead(fart) /\ fpc' = "finalize" /\ UNCHANGED fst
     \/ /\ Same /\ UNCHANGED fart            \* rejected
        /\ IF tries' = PushRetryBudget THEN fpc' = "idle" /\ fst' = "blocked"
           ELSE fpc' = "land" /\ UNCHANGED fst
  /\ UNCHANGED <<fail, fseen, late, fhist, crashes>>

-----------------------------------------------------------------------------
(* _handle_out_of_scope *)

\* The claim is rejected: the ticket's own gate or its own alerts fail.
InScopeAfterAll ==
  /\ fpc = "outofscope"
  /\ Ends("implement_complete")
  /\ Kept

\* _refresh_stale_branch_once
RefreshStaleBranch ==
  /\ fpc = "outofscope" /\ ~fart.refreshed
  /\ \/ pr' = NewHead /\ git' = [git EXCEPT !.track = IF @ = "absent" THEN @ ELSE "stale"]
     \/ Same                                 \* already up to date
  /\ fart' = [OnNewHead(fart) EXCEPT !.refreshed = TRUE]
  /\ Ends("implement_complete")
  /\ UNCHANGED fhist

\* _retry_transient_ci_failure comes first and finds nothing to do: CiIsRed read
\* the same summary and counter.  Then _recheck_after_merged_fix, once for the fix that merged
RecheckMergedFix ==
  /\ fpc = "outofscope" /\ ~fart.rechecked
  /\ \/ rerun_workflows /\ fart' = [fart EXCEPT !.rechecked = TRUE]
     \/ /\ pr' = NewHead /\ git' = [git EXCEPT !.track = IF @ = "absent" THEN @ ELSE "stale"]
        /\ fart' = [OnNewHead(fart) EXCEPT !.rechecked = TRUE]
  /\ Ends("implement_complete")
  /\ UNCHANGED fhist

\* _spawn_or_reuse_fix parks the ticket on a fix (a new one may merge later).
SpawnOrReuseFix ==
  /\ fpc = "outofscope"
  /\ fart' \in {[fart EXCEPT !.refreshed = FALSE],
                [fart EXCEPT !.refreshed = FALSE, !.rechecked = FALSE]}
  /\ Ends("blocked")
  /\ Same /\ UNCHANGED fhist

-----------------------------------------------------------------------------
(* The surroundings. *)

\* The merge stage, which also watches for a merged or closed request, sends a red request back; a rebase ends; an operator resumes.
SentBack ==
  /\ fpc = "idle"
  /\ \/ fst = "implement_complete" /\ pr.ci = "red" /\ fst' = "fixing_ci"
     \/ fst = "rebasing" /\ fst' = "implement_complete"
     \/ fst = "blocked" /\ fst' = "fixing_ci"
  /\ Kept /\ UNCHANGED <<fpc, fail, fseen, tries, late, crashes>>

FCrash ==
  /\ fpc # "idle" /\ crashes < MaxCrashes
  /\ fpc' = "idle" /\ fail' = NoFailure /\ fseen' = None /\ tries' = 0 /\ late' = FALSE
  /\ crashes' = crashes + 1
  /\ Kept /\ UNCHANGED fst

FOutside ==
  /\ \/ HumanPushes /\ fart' = OnNewHead(fart)
     \/ Forge /\ UNCHANGED fart
  /\ UNCHANGED <<fst, fpc, fail, fseen, tries, late, fhist, crashes>>

FStage ==
  \/ RefreshClone \/ CheckStatus \/ CiIsRed \/ Gates \/ CodeqlTriage \/ Dismiss
  \/ Identical \/ NotFixable \/ Reconcile \/ DeterministicPass \/ AttemptCap
  \/ AgentAnswers \/ AgentBudget \/ AgentTimeout \/ AgentFailed
  \/ FinalCheck \/ LandRebase \/ LandPush
  \/ InScopeAfterAll \/ RefreshStaleBranch
  \/ RecheckMergedFix \/ SpawnOrReuseFix

FNext == FStage \/ LateAgent \/ SentBack \/ FCrash \/ FOutside

\* A run the worker started goes on; the agent has a timeout.
FSpec == FInit /\ [][FNext]_fvars /\ WF_fvars(FStage)

-----------------------------------------------------------------------------
(* Properties. *)

FTypeOK ==
  /\ PRTypeOK
  /\ fst \in {"fixing_ci", "implement_complete", "rebasing", "blocked"}
  /\ fail \in Failure \cup {NoFailure}
  /\ fseen \in {None, "SYNCED", "UNAVAILABLE"}
  /\ fart \in FixArtifacts
  /\ tries \in 0..PushRetryBudget /\ late \in BOOLEAN /\ crashes \in 0..MaxCrashes
  /\ fhist \in FixHistory

(* For one set of failing checks the agent runs at most                    *)
(* ci_fix_max_total_attempts times, however often the process dies, the    *)
(* merge stage sends the ticket back or an operator resumes it.            *)
AgentRunsBounded == fhist.agents <= MaxTotalAttempts

(* Alerts are dismissed at most once in the ticket's life, although the    *)
(* process may die between the question and the dismissal.                 *)
DismissedOnce == fhist.dismissals <= 1

(* The attempts of the stage are bounded across crashes and resumes: agent *)
(* runs, dismissals of alerts and the counters kept in files.              *)
FixIsBounded == FTypeOK /\ AgentRunsBounded /\ DismissedOnce

(* The stage's own leased pushes never overwrite a person's commit once    *)
(* the branch was fetched and compared in this run.                        *)
FixKeepsForeign ==
  [][(fpc \in {"passes", "landpush"} /\ late' = late /\ Overwrites) =>
       (fseen = "UNAVAILABLE" \/ git.track = "absent")]_fvars

(* A ticket leaves FIXING_CI: neither an agent that fails, times out or    *)
(* pushes what does not land, nor a crash, keeps it there.                 *)
FixEnds == []<>(fst # "fixing_ci")

=============================================================================
