------------------------------- MODULE Merge -------------------------------
(***************************************************************************)
(* The merge stage (stages/merge/) for a ticket with one pull request: the *)
(* polls of IMPLEMENT_COMPLETE, HUMAN_MR_APPROVAL and WAITING_AUTO_MERGE,  *)
(* the rebase and the review revision.                                     *)
(*                                                                         *)
(* One run of the stage is a sequence of steps between which people and    *)
(* the forge act and the process may die; what survives is the ticket's    *)
(* state and the counters and markers in its artifacts directory.  Each    *)
(* answer of the forge that the model does not keep (mergeability,         *)
(* eligibility, an error) is chosen at the read.  The ci_fix stage is      *)
(* module CiFix; here it may push and returns one of its outcomes.  Left   *)
(* out: comments on the pull request, notes, tracing, the agents' memory,  *)
(* and a misconfigured forge, which blocks at once.                        *)
(***************************************************************************)
EXTENDS PullRequest, TicketStates, Naturals

CONSTANTS
  RebaseMaxAttempts,        \* rebase_max_attempts
  AutoFixMaxCycles,         \* auto_fix_max_cycles
  MergeMaxRetries,          \* _MERGE_MAX_RETRIES
  PrMissingMaxPolls,        \* merge_pr_missing_max_polls
  EmptyRollupMaxPolls,      \* empty_rollup_max_polls
  GreenUnpromotableMaxPolls,\* green_unpromotable_max_polls
  ReviewRevisionMaxAttempts,\* review_revision_max_attempts
  PingPongMaxAlternations   \* ping_pong_max_alternations

ASSUME MergeConstants ==
  /\ RebaseMaxAttempts \in Nat \ {0} /\ MergeMaxRetries \in Nat \ {0}
  /\ ReviewRevisionMaxAttempts \in Nat \ {0}
  /\ AutoFixMaxCycles \in Nat /\ PrMissingMaxPolls \in Nat
  /\ EmptyRollupMaxPolls \in Nat /\ GreenUnpromotableMaxPolls \in Nat
  /\ PingPongMaxAlternations \in Nat

VARIABLES
  st,       \* the ticket's state
  from,     \* blocked_from
  pc,       \* where the stage's run is
  seen,     \* what this run read: mergeable_state, or the result of its reconcile
  art,      \* the artifacts directory
  hist      \* history, see History

mvars == <<pr, git, st, from, pc, seen, art, hist>>

MergeStates == {s \in State : STAGE_FOR_STATE[s] = "merge"}

(***************************************************************************)
(* A counter n is only ever read to compare n + 1 with its limit, so one   *)
(* that the code lets grow is kept at the last value that differs.         *)
(***************************************************************************)
Upto(n, max) == IF n >= max THEN max - 1 ELSE n

Below(max) == IF max = 0 THEN {0} ELSE 0..(max - 1)

Artifacts ==
  [rebase : Below(RebaseMaxAttempts), cycles : 0..AutoFixMaxCycles,
   ping : Below(PingPongMaxAlternations), last : {None, "rebase", "ci_fix"},
   retries : Below(MergeMaxRetries), missing : Below(PrMissingMaxPolls),
   rollup : Below(EmptyRollupMaxPolls),
   unpromotable : Below(GreenUnpromotableMaxPolls),
   revision : Below(ReviewRevisionMaxAttempts),
   healed : BOOLEAN,           \* the self-heal marker
   rebase_from : BOOLEAN,      \* the rebase left a parked state
   steady : BOOLEAN,           \* a fresh steady-state record of the current head
   refreshed : BOOLEAN]        \* the refresh sentinel is the clone's head

History ==
  [fixes : Nat,             \* dispatches to FIXING_CI since CI was green or an operator resumed
   heals : Nat]             \* times the stage closed the request itself

MInit ==
  /\ PRInit
  /\ st = "implement_complete" /\ from = None /\ pc = "idle"
  /\ seen = "unknown"
  /\ art = [rebase |-> 0, cycles |-> 0, ping |-> 0, last |-> None, retries |-> 0,
            missing |-> 0, rollup |-> 0, unpromotable |-> 0, healed |-> FALSE,
            rebase_from |-> FALSE, steady |-> FALSE, revision |-> 0,
            refreshed |-> FALSE]
  /\ hist = [fixes |-> 0, heals |-> 0]

-----------------------------------------------------------------------------

\* The outcome of a run, applied by the worker.
Return(s) ==
  /\ st' = s
  /\ from' = IF s = "blocked" /\ st # "blocked" THEN st ELSE from
  /\ pc' = "idle"
  /\ seen' = "unknown"

Goto(label) == pc' = label /\ UNCHANGED <<st, from, seen>>

Reconciled(res, label) == pc' = label /\ seen' = res /\ UNCHANGED <<st, from>>

\* A new head of the branch: records of the old one no longer match.
ForNewHead(a) == [a EXCEPT !.steady = FALSE, !.refreshed = FALSE]

NoPr == UNCHANGED <<pr, git>>

(***************************************************************************)
(* _check_pr_baseline, the preamble of the three polls: a failed read, no  *)
(* request found, merged, closed, or open.                                 *)
(***************************************************************************)
Polling ==
  /\ pc = "idle"
  /\ st \in {"implement_complete", "human_mr_approval", "waiting_auto_merge"}
  /\ UNCHANGED <<pr, git, hist>>

\* The forge cannot be reached, is rate limited, or finds no request.
PollFails ==
  /\ Polling
  /\ \/ Return(st) /\ UNCHANGED art
     \/ /\ PrMissingMaxPolls > 0
        /\ art' = [art EXCEPT !.missing = Upto(@ + 1, PrMissingMaxPolls)]
        /\ Return(IF art.missing + 1 >= PrMissingMaxPolls THEN "blocked" ELSE st)

\* Mutant: a head that is no ancestor of the target is polled again.
PollMerged_Ancestor ==
  /\ Polling
  /\ pr.state = "merged"
  /\ Return(st) /\ UNCHANGED art

\* WAITING_AUTO_MERGE first verifies that the head is an ancestor of the target.
PollMerged ==
  /\ Polling
  /\ pr.state = "merged"
  /\ art' = [art EXCEPT !.missing = 0]
  /\ Return("done") \/ (st = "waiting_auto_merge" /\ Return("implement_complete"))

\* Mutant: any closed request is taken for satisfied.
PollClosed_AlwaysDone ==
  /\ Polling
  /\ pr.state \in {"closed", "satisfied"}
  /\ art' = [art EXCEPT !.missing = 0]
  /\ Return("done")

PollClosed ==
  /\ Polling
  /\ pr.state \in {"closed", "satisfied"}
  /\ art' = [art EXCEPT !.missing = 0]
  /\ Return(IF pr.state = "satisfied" THEN "done" ELSE "blocked")

PollOpen ==
  /\ Polling
  /\ pr.state = "open"
  /\ art' = [art EXCEPT !.missing = 0]
  /\ seen' \in MergeableState
  /\ pc' = "polled"
  /\ UNCHANGED <<st, from>>

\* _ci_truly_green: "clean" stands for every state the forge would merge in.
ci_truly_green == pr.ci = "green" /\ seen = "clean"

\* update_branch: the forge merges the target into the branch.
update_branch ==
  /\ pr' = NewHead
  /\ git' = [git EXCEPT !.track = IF @ = "absent" THEN @ ELSE "stale"]

\* The run is about to call merge_pr.
ToMerge == Goto("merging")

-----------------------------------------------------------------------------
(* IMPLEMENT_COMPLETE. *)

\* _poll_implement_complete up to the refresh: a conflict is rebased; else the
\* rebase budget starts over, and a repository without CI goes to its human.
GateCheck ==
  /\ pc = "polled" /\ st = "implement_complete"
  /\ IF seen = "dirty" THEN Return("rebasing") /\ UNCHANGED art
     ELSE /\ art' = [art EXCEPT !.rebase = 0]
          /\ Return("human_mr_approval") \/ Goto("refresh")
  /\ NoPr /\ UNCHANGED hist

\* _refresh_branch_for_ci_if_idle: unless checks run or this head was refreshed
\* already, rebase onto the target or add an empty commit, and push.
RefreshBranchForCi ==
  /\ pc = "refresh"
  /\ \/ /\ pr.ci # "pending" /\ ~art.refreshed
        /\ push(git) \/ push(Rebased)
        /\ art' = [art EXCEPT !.refreshed = TRUE, !.steady = FALSE]
     \/ NoPr /\ UNCHANGED art
  /\ Goto("check")
  /\ UNCHANGED hist

\* _check_ping_pong(routing_to = to)
ping_pong(to) ==
  LET n == art.ping + 1
      alternates == art.last # None /\ art.last # to
  IN IF PingPongMaxAlternations = 0 THEN [blocks |-> FALSE, ping |-> art.ping, last |-> art.last]
     ELSE IF alternates /\ n >= PingPongMaxAlternations
     THEN [blocks |-> TRUE, ping |-> 0, last |-> None]
     ELSE [blocks |-> FALSE, ping |-> IF alternates THEN n ELSE art.ping, last |-> to]

\* Mutant: the cycle is not counted.
CiFailureRoute_Uncounted ==
  LET pp == ping_pong("ci_fix")
  IN /\ pc = "check" /\ pr.ci = "red"
     /\ art' = [art EXCEPT !.ping = pp.ping, !.last = pp.last]
     /\ Return("fixing_ci")
     /\ hist' = [hist EXCEPT !.fixes = @ + 1]
     /\ NoPr

\* _handle_ci_failure_route: debt of the target blocks, a transient failure is
\* rebased for a fresh run, else one more cycle of FIXING_CI.
CiFailureRoute ==
  LET pp == ping_pong("ci_fix")
  IN /\ pc = "check" /\ pr.ci = "red"
     /\ \/ Return("blocked") /\ UNCHANGED <<art, hist>>
        \/ Return("rebasing") /\ UNCHANGED <<art, hist>>
        \/ /\ AutoFixMaxCycles > 0 /\ art.cycles >= AutoFixMaxCycles
           /\ art' = [art EXCEPT !.cycles = 0]
           /\ Return("blocked") /\ UNCHANGED hist
        \/ /\ AutoFixMaxCycles = 0 \/ art.cycles < AutoFixMaxCycles
           /\ art' = [art EXCEPT !.cycles = IF AutoFixMaxCycles = 0 THEN 0 ELSE @ + 1,
                                 !.ping = pp.ping, !.last = pp.last]
           /\ Return(IF pp.blocks THEN "blocked" ELSE "fixing_ci")
           /\ hist' = IF pp.blocks THEN hist ELSE [hist EXCEPT !.fixes = @ + 1]
     /\ NoPr

\* _merge_or_promote_when_green: budgets start over; merge or hand over.
MergeOrPromote ==
  /\ pc = "check" /\ ci_truly_green
  /\ art' = [art EXCEPT !.cycles = 0, !.ping = 0, !.last = None]
  /\ hist' = [hist EXCEPT !.fixes = 0]
  /\ ToMerge \/ Return("human_mr_approval")
  /\ NoPr

\* The rest of the poll: no status, green on a branch behind its target, or
\* checks still running.
GateWaits ==
  /\ pc = "check"
  /\ \/ Return(st) /\ UNCHANGED art
     \/ pr.ci = "green" /\ seen = "behind" /\ Return("rebasing") /\ UNCHANGED art
     \/ /\ pr.ci = "pending"
        /\ art' = [art EXCEPT !.unpromotable = 0, !.rollup = 0]
        /\ Return(st)
  /\ NoPr /\ UNCHANGED hist

Unpromotable == pc = "check" /\ pr.ci = "green" /\ seen \notin {"clean", "behind"}

\* Mutant: the marker is written only after the request is open again.
EmptyRollup_MarkAfter ==
  /\ Unpromotable /\ seen = "blocked" /\ EmptyRollupMaxPolls > 0 /\ ~art.healed
  /\ Goto("heal")
  /\ NoPr /\ UNCHANGED <<art, hist>>

\* _check_green_unpromotable, no check ran at all: approve held runs, wait,
\* or mark the request and heal it, once.
EmptyRollup ==
  LET n == art.rollup + 1
      waits == n < EmptyRollupMaxPolls
  IN /\ Unpromotable /\ seen = "blocked" /\ EmptyRollupMaxPolls > 0
     /\ \/ Return(st) /\ UNCHANGED art              \* held runs approved
        \/ Return("blocked") /\ UNCHANGED art       \* approval refused
        \/ /\ art' = [art EXCEPT !.rollup = Upto(n, EmptyRollupMaxPolls)]
           /\ Return(st)       \* waiting, or a rebase landed within the cooldown
        \/ /\ ~waits
           /\ IF art.healed THEN art' = [art EXCEPT !.rollup = 0] /\ Return("blocked")
              ELSE /\ art' = [art EXCEPT !.rollup = Upto(n, EmptyRollupMaxPolls), !.healed = TRUE]
                   /\ Goto("heal")
     /\ NoPr /\ UNCHANGED hist

\* The self-heal closes the request ...
HealCloses ==
  /\ pc = "heal"
  /\ \/ Return("blocked") /\ art' = [art EXCEPT !.rollup = 0] /\ UNCHANGED <<pr, hist>>
     \/ /\ pr.state = "open"
        /\ pr' \in {Request("closed"), Request("satisfied")}
        /\ hist' = [hist EXCEPT !.heals = @ + 1]
        /\ Goto("reopen") /\ UNCHANGED art
  /\ UNCHANGED git

\* ... and opens it again.
HealReopens ==
  /\ pc = "reopen"
  /\ \/ Return("blocked") /\ UNCHANGED pr
     \/ /\ pr.state \in {"closed", "satisfied"}
        /\ pr' = Request("open")
        /\ Return("implement_complete")
  /\ art' = [art EXCEPT !.rollup = 0]
  /\ UNCHANGED <<git, hist>>

\* _check_green_unpromotable with checks that ran: bounded re-polls.
GreenUnpromotable ==
  LET n == art.unpromotable + 1
      max == GreenUnpromotableMaxPolls
  IN /\ Unpromotable
     /\ art' = [art EXCEPT !.unpromotable = IF max = 0 \/ n >= max THEN 0 ELSE n]
     /\ Return(IF max > 0 /\ n >= max THEN "blocked" ELSE st)
     /\ NoPr /\ UNCHANGED hist

-----------------------------------------------------------------------------
(* merge_pr, for the three polls. *)

\* The call of merge_pr in _try_auto_merge; it names no head.
MergePr ==
  /\ pc = "merging"
  /\ pr.state = "open"
  /\ pr' = Request("merged")
  /\ Goto("verify")
  /\ UNCHANGED <<git, art, hist>>

\* _verify_merge_ancestor after a merge the forge reported.
VerifyMerge ==
  /\ pc = "verify"
  /\ \/ Return("done")
     \/ Return(IF st = "human_mr_approval" THEN st ELSE "implement_complete")
  /\ NoPr /\ UNCHANGED <<art, hist>>

\* _merge_rejection_outcome
MergeRejected ==
  LET n == art.retries + 1
      same == IF st = "waiting_auto_merge" THEN st ELSE "implement_complete"
  IN /\ pc = "merging"
     /\ \/ Return("blocked") /\ UNCHANGED art
        \/ /\ art' = [art EXCEPT !.retries = Upto(n, MergeMaxRetries)]
           /\ Return(IF n >= MergeMaxRetries THEN "blocked" ELSE same)
     /\ NoPr /\ UNCHANGED hist

-----------------------------------------------------------------------------
(* HUMAN_MR_APPROVAL and WAITING_AUTO_MERGE. *)

\* _review_changes_requested_outcome: keep the comments for the revision.
AddressReview ==
  /\ Return("addressing_review")
  /\ NoPr /\ UNCHANGED art

\* A conflict on a parked request: the forge resolves it, or leave the state,
\* by a rebase that remembers it or through the gates.
ParkedConflict ==
  \/ /\ update_branch /\ Return(st)
     /\ art' = [art EXCEPT !.steady = FALSE]
  \/ /\ \/ st = "human_mr_approval" /\ Return(st) /\ UNCHANGED art   \* in the cooldown
        \/ Return("implement_complete") /\ UNCHANGED art
        \/ Return("rebasing") /\ art' = [art EXCEPT !.rebase_from = TRUE]
     /\ NoPr

\* _steady_state_fresh: recorded of this head when it was clean.
steady_state_fresh == art.steady /\ seen = "clean"

\* _handle_human_mr_approval stops at a fresh steady-state record.
HumanSteady ==
  /\ pc = "polled" /\ st = "human_mr_approval" /\ steady_state_fresh
  /\ Return(st) /\ NoPr /\ UNCHANGED <<art, hist>>

\* The full poll asks for the reviews first; one that cannot be read does not
\* gate.
HumanReview ==
  /\ pc = "polled" /\ st = "human_mr_approval" /\ ~steady_state_fresh
  /\ pr.changes /\ AddressReview
  /\ UNCHANGED hist

HumanPoll ==
  /\ pc = "polled" /\ st = "human_mr_approval" /\ ~steady_state_fresh
  /\ \/ seen = "dirty" /\ ParkedConflict
     \/ /\ seen # "dirty"
        /\ \/ \E r \in {art.steady, art.steady \/ ci_truly_green} :
                art' = [art EXCEPT !.rebase = 0, !.steady = r] /\ Return(st)
           \/ /\ art' = [art EXCEPT !.rebase = 0]
              /\ \/ pr.ci = "red" /\ Return("implement_complete")
                 \/ ci_truly_green /\ ToMerge
                 \/ /\ pr.ci = "pending" \/ (pr.ci = "green" /\ seen \in {"blocked", "unknown"})
                    /\ Return("waiting_auto_merge")
        /\ NoPr
  /\ UNCHANGED hist

\* Its green request that fell behind the target (_handle_behind_target).
HumanBehind ==
  /\ pc = "polled" /\ st = "human_mr_approval"
  /\ seen = "behind" /\ pr.ci = "green"
  /\ \/ /\ update_branch /\ Return("waiting_auto_merge")
        /\ art' = [art EXCEPT !.rebase = 0, !.steady = FALSE]
     \/ /\ Return(st) \/ Return("implement_complete")
        /\ art' = [art EXCEPT !.rebase = 0] /\ NoPr
  /\ UNCHANGED hist

\* _poll_waiting_auto_merge
WaitingPoll ==
  /\ pc = "polled" /\ st = "waiting_auto_merge"
  /\ \/ Return("human_mr_approval") /\ NoPr /\ UNCHANGED art      \* not eligible
     \/ seen = "dirty" /\ ParkedConflict
     \/ seen # "dirty" /\ pr.changes /\ AddressReview
     \/ /\ seen # "dirty"
        /\ \/ Return(st)
           \/ pr.ci = "red" /\ Return("implement_complete")
           \/ ci_truly_green /\ ToMerge
           \/ pr.ci = "green" /\ seen = "behind" /\ Return("implement_complete")
        /\ NoPr /\ UNCHANGED art
     \/ /\ seen = "behind" /\ pr.ci = "green"
        /\ update_branch /\ Return(st)
        /\ art' = [art EXCEPT !.steady = FALSE]
  /\ UNCHANGED hist

-----------------------------------------------------------------------------
(* REBASING. *)

attempt == art.rebase + 1

\* _run_rebase and _handle_conflict: a request that is clean again needs no
\* rebase; without a clone, or when a person pushed, nothing may be rewritten.
RunRebase ==
  /\ pc = "idle" /\ st = "rebasing"
  /\ \/ /\ pr.state = "open"
        /\ art' = [art EXCEPT !.rebase = 0]
        /\ Return("implement_complete") /\ UNCHANGED git
     \/ Return("blocked") /\ UNCHANGED <<art, git>>
     \/ \E res \in {"SYNCED", "UNAVAILABLE", "DIVERGED"} :
          /\ reconcile_with_remote_pr(res)
          /\ IF res = "DIVERGED" THEN Return("blocked") ELSE Reconciled(res, "rebase")
          /\ art' = IF git.foreign /\ ~git'.foreign THEN ForNewHead(art) ELSE art
  /\ UNCHANGED <<pr, hist>>

\* try_mechanical_rebase, or fall back to the agent.
MechanicalRebase ==
  /\ pc = "rebase"
  /\ \/ git' = Rebased /\ art' = [art EXCEPT !.refreshed = FALSE] /\ Goto("leasepush")
     \/ Goto("agent") /\ UNCHANGED <<git, art>>
  /\ UNCHANGED <<pr, hist>>

LeasePush ==
  /\ pc = "leasepush"
  /\ \/ push_with_lease(git) /\ art' = ForNewHead(art) /\ Goto("rebased")
     \/ Goto("agent") /\ NoPr /\ UNCHANGED art           \* rejected, or no network
  /\ UNCHANGED hist

\* run_rebase_agent pushes with its own tool, claims it is done, or gives up.
AgentRebase ==
  /\ pc = "agent"
  /\ \/ /\ agent_push_with_lease(Rebased)
        /\ art' = ForNewHead(art)
        /\ Goto("rebased") \/ Goto("norebase")
     \/ /\ git' \in {git, Rebased} /\ UNCHANGED pr
        /\ art' = [art EXCEPT !.refreshed = @ /\ git' = git]
        /\ Goto("rebased") \/ Goto("norebase")
  /\ UNCHANGED hist

\* _handle_rebase_success once the push landed.
RebaseLanded ==
  LET b == [art EXCEPT !.rebase_from = FALSE]
  IN /\ pc = "rebased"
     /\ post_push_check("PASS")
     /\ \/ art' = [art EXCEPT !.rebase = 0] /\ Return("blocked")    \* files were dropped
        \/ art' = [b EXCEPT !.rebase = 0] /\ Return("ready")      \* no request found
        \/ /\ art' = [b EXCEPT !.rebase = 0]                      \* clean
           /\ IF ~art.rebase_from THEN Return("implement_complete")
              ELSE Return("waiting_auto_merge") \/ Return("human_mr_approval")
        \/ art' = b /\ Return("implement_complete")               \* not computed yet
        \/ IF attempt < RebaseMaxAttempts                         \* still conflicting
           THEN art' = [b EXCEPT !.rebase = attempt] /\ Return("implement_complete")
           ELSE art' = [b EXCEPT !.rebase = 0] /\ Return("blocked")
     /\ UNCHANGED <<pr, hist>>

\* _handle_rebase_success when it did not, or the remote could not be read.
RebaseNotLanded ==
  /\ pc = "rebased"
  /\ \/ /\ post_push_check("NOT_LANDED") \/ post_push_check("FOREIGN_DIVERGENCE")
        /\ art' = [art EXCEPT !.rebase = Upto(attempt, RebaseMaxAttempts)]
        /\ Return("blocked")
     \/ post_push_check("UNAVAILABLE") /\ Return("implement_complete") /\ UNCHANGED art
  /\ UNCHANGED <<pr, hist>>

\* _handle_rebase_failure
RebaseFailure ==
  /\ pc = "norebase"
  /\ IF attempt < RebaseMaxAttempts
     THEN art' = [art EXCEPT !.rebase = attempt] /\ Return("rebasing")
     ELSE art' = [art EXCEPT !.rebase = 0] /\ Return("blocked")
  /\ NoPr /\ UNCHANGED hist

-----------------------------------------------------------------------------
(* ADDRESSING_REVIEW. *)

\* _run_review_revision up to the agent.
RunReviewRevision ==
  /\ pc = "idle" /\ st = "addressing_review"
  /\ \/ Return("blocked") /\ UNCHANGED <<art, git>>
     \/ Return("human_mr_approval") /\ UNCHANGED <<art, git>>    \* no usable feedback
     \/ /\ \E res \in {"SYNCED", "UNAVAILABLE", "DIVERGED"} :
             /\ reconcile_with_remote_pr(res)
             /\ IF res = "DIVERGED" THEN Return("blocked") ELSE Reconciled(res, "revise")
        /\ art' = IF git.foreign /\ ~git'.foreign THEN ForNewHead(art) ELSE art
  /\ UNCHANGED <<pr, hist>>

\* The agent commits in the clone, does nothing, or fails.
ReviseAgent ==
  /\ pc = "revise"
  /\ \/ git' = Rebased /\ art' = [art EXCEPT !.refreshed = FALSE] /\ Goto("revised")
     \/ Goto("norevision") /\ UNCHANGED <<git, art>>
  /\ UNCHANGED <<pr, hist>>

\* Mutant: a pushed revision goes back through the gates.
RevisionPush_Regate ==
  /\ pc = "revised"
  /\ push_with_lease(git)
  /\ art' = [ForNewHead(art) EXCEPT !.revision = 0]
  /\ Return("implement_complete")
  /\ UNCHANGED hist

RevisionPush ==
  /\ pc = "revised"
  /\ \/ /\ push_with_lease(git)
        /\ art' = [ForNewHead(art) EXCEPT !.revision = 0]
        /\ Return("human_mr_approval")
     \/ /\ art' = [art EXCEPT !.revision = Upto(@ + 1, ReviewRevisionMaxAttempts)]
        /\ Return("blocked") /\ NoPr
  /\ UNCHANGED hist

\* Mutant: the attempts are not limited.
RevisionFailure_Unlimited ==
  /\ pc = "norevision"
  /\ art' = [art EXCEPT !.revision = @ + 1] /\ Return("addressing_review")
  /\ NoPr /\ UNCHANGED hist

RevisionFailure ==
  LET n == art.revision + 1
  IN /\ pc = "norevision"
     /\ IF n < ReviewRevisionMaxAttempts
        THEN art' = [art EXCEPT !.revision = n] /\ Return("addressing_review")
        ELSE art' = [art EXCEPT !.revision = 0] /\ Return("blocked")
     /\ NoPr /\ UNCHANGED hist

-----------------------------------------------------------------------------
(* The surroundings. *)

\* The ci_fix stage, seen from here (module CiFix has its steps).
CiFixRuns ==
  /\ pc = "idle" /\ st = "fixing_ci"
  /\ \/ push(Rebased) /\ art' = ForNewHead(art)
     \/ agent_push_with_lease(Rebased) /\ art' = ForNewHead(art)
     \/ NoPr /\ UNCHANGED art
  /\ \E s \in {"implement_complete", "rebasing", "blocked"} : Return(s)
  /\ UNCHANGED hist

\* An operator resumes the ticket where it blocked.
Resume ==
  /\ pc = "idle" /\ st = "blocked"
  /\ st' = from /\ from' = None
  /\ hist' = [hist EXCEPT !.fixes = 0]
  /\ UNCHANGED <<pr, git, pc, seen, art>>

\* Mutant: the record has no age.
SteadyExpires_Never == art.steady /\ UNCHANGED mvars

\* A steady-state record is fresh for _STEADY_FULL_POLL_SECONDS.
SteadyExpires ==
  /\ art.steady
  /\ art' = [art EXCEPT !.steady = FALSE]
  /\ UNCHANGED <<pr, git, st, from, pc, seen, hist>>

\* The process dies in a run and is started again; the artifacts stay.
Crash ==
  /\ pc # "idle"
  /\ pc' = "idle" /\ seen' = "unknown"
  /\ UNCHANGED <<pr, git, st, from, art, hist>>

Outside ==
  /\ \/ HumanPushes /\ art' = [art EXCEPT !.steady = FALSE]
     \/ (HumanReviews \/ HumanMerges \/ HumanCloses \/ HumanReopens \/ Forge) /\ UNCHANGED art
  /\ UNCHANGED <<st, from, pc, seen, hist>>

Poll ==
  \/ PollMerged \/ PollClosed \/ PollOpen
  \/ GateCheck \/ RefreshBranchForCi \/ CiFailureRoute \/ MergeOrPromote \/ GateWaits
  \/ EmptyRollup \/ HealCloses \/ HealReopens \/ GreenUnpromotable
  \/ MergePr \/ VerifyMerge \/ MergeRejected
  \/ HumanSteady \/ HumanReview \/ HumanPoll \/ HumanBehind \/ WaitingPoll

Rebase ==
  \/ RunRebase \/ MechanicalRebase \/ LeasePush \/ AgentRebase
  \/ RebaseLanded \/ RebaseNotLanded \/ RebaseFailure

Revise == RunReviewRevision \/ ReviseAgent \/ RevisionPush \/ RevisionFailure

MStage == Poll \/ Rebase \/ Revise

MNext ==
  \/ MStage \/ PollFails \/ CiFixRuns \/ Resume
  \/ SteadyExpires \/ Crash \/ Outside

(***************************************************************************)
(* The worker polls a parked ticket again and again and finishes what it   *)
(* starts; a poll that can reach the forge, and one that can read the      *)
(* reviews, come again and again.                                          *)
(***************************************************************************)
MSpec ==
  /\ MInit /\ [][MNext]_mvars
  /\ WF_mvars(MStage) /\ WF_mvars(CiFixRuns) /\ WF_mvars(SteadyExpires)
  /\ SF_mvars(PollMerged) /\ SF_mvars(PollOpen) /\ SF_mvars(HumanReview)

-----------------------------------------------------------------------------
(* Properties. *)

MTypeOK ==
  /\ PRTypeOK
  /\ st \in MergeStates \cup {"fixing_ci", "blocked", "ready", "done"}
  /\ from \in MergeStates \cup {"fixing_ci", None}
  /\ pc \in {"idle", "polled", "refresh", "check", "merging", "verify", "heal",
             "reopen", "rebase", "leasepush", "agent", "rebased", "norebase",
             "revise", "revised", "norevision"}
  /\ seen \in MergeableState \cup {"SYNCED", "UNAVAILABLE"}
  /\ art \in Artifacts
  /\ hist \in History

(* The stage finishes a ticket only when its request is merged, or was     *)
(* closed with nothing in it: neither a merge the forge refused, nor a     *)
(* request the self-heal left closed, passes for delivered.                *)
DoneIsDelivered ==
  [][st' = "done" /\ st # "done" =>
       pr.state \in {"merged", "satisfied"}]_mvars

(* Every outcome of the stage is a legal transition of the state machine,  *)
(* so the worker never discards one.                                       *)
OutcomesAreLegal ==
  [][st' = st \/ can_transition(st, st', from, None)]_mvars

(* What the stage reports is true and accepted: DONE only for what was     *)
(* delivered, and never an outcome that the service would refuse.          *)
OutcomesHold == DoneIsDelivered /\ OutcomesAreLegal

\* A push under the lease: of the mechanical rebase, or of a revision.
LeasedStep == pc \in {"leasepush", "revised"}

(* A push that a reconcile with the fetched branch preceded never          *)
(* overwrites a person's commit, whenever that person pushes.              *)
ReconciledKeepsForeign ==
  [][LeasedStep /\ Overwrites => seen = "UNAVAILABLE" \/ git.track = "absent"]_mvars

(* push_with_lease backstops a reconcile that could not fetch.             *)
LeaseBackstops ==
  [][LeasedStep /\ Overwrites => seen # "UNAVAILABLE"]_mvars

(* Between two green checks, or two decisions of an operator, CI is fixed  *)
(* at most auto_fix_max_cycles times, across crashes (0 sets no limit).    *)
FixCyclesBounded == AutoFixMaxCycles > 0 => hist.fixes <= AutoFixMaxCycles

(* The stage closes and reopens the request by itself at most once in the  *)
(* ticket's life, also when the process dies in between.                   *)
HealsOnce == hist.heals <= 1

(* Every repair the stage makes by itself is bounded: CI fixes between two *)
(* green checks, the close and reopen of a silent request, and the retry   *)
(* counters in the artifacts directory.                                    *)
RepairsAreBounded == MTypeOK /\ FixCyclesBounded /\ HealsOnce

(* A review that asks for changes is heeded before any automatic merge.    *)
ReviewGatesMerge == [][pc' = "merging" /\ pc # "merging" => ~pr.changes]_mvars

(* A request merged by whoever ends the wait for it, although polls fail   *)
(* and the process dies in them.                                           *)
MergedIsNoticed ==
  (pr.state = "merged" /\ st \in {"implement_complete", "human_mr_approval"})
    ~> st \notin {"implement_complete", "human_mr_approval"}

(* Changes requested on a request that waits for its reviewer are taken up *)
(* although the poll stops early while nothing moves.                      *)
ReviewIsTakenUp ==
  (st = "human_mr_approval" /\ pr.changes)
    ~> (st # "human_mr_approval" \/ ~pr.changes \/ pr.state # "open")

(* Polling notices: a merge by whoever, and a review that asks for changes *)
(* while the request is parked and polled less.                            *)
PollsNotice == MergedIsNoticed /\ ReviewIsTakenUp

=============================================================================
