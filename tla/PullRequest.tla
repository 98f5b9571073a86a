---------------------------- MODULE PullRequest ----------------------------
(***************************************************************************)
(* The pull request of a ticket as the merge and ci_fix stages see it: the *)
(* forge's record of it, and the three places its branch lives in (the     *)
(* remote, the workspace clone and the clone's tracking ref) with the git  *)
(* operations of scm/vcs/git_ops.py on them.                               *)
(*                                                                         *)
(* Commits are abstracted to the one thing the operations must not get     *)
(* wrong: whether the remote holds a person's commit the clone does not.   *)
(* The forge's mergeability is not kept: it is recomputed asynchronously   *)
(* and may differ at every read, so each read chooses it.                  *)
(***************************************************************************)

VARIABLES
  pr,        \* the forge's pull request
  git        \* the branch: remote, tracking ref and clone

\* mergeable_state; "dirty" is mergeable = False, "unknown" is None.
MergeableState == {"clean", "behind", "blocked", "dirty", "unknown"}

Conclusion == {"pending", "green", "red"}

PullRequestType ==
  [state : {"open", "merged", "closed", "satisfied"},  \* satisfied: closed, no net diff left
   ci : Conclusion,              \* of the current head
   changes : BOOLEAN]            \* changes requested on the current head

GitType ==
  [foreign : BOOLEAN,            \* the remote has a person's commit the clone lacks
   track : {"absent", "stale", "current"},   \* refs/remotes/origin/<branch>
   ahead : BOOLEAN]              \* the clone has commits the remote lacks

PRTypeOK == pr \in PullRequestType /\ git \in GitType

\* A request that is not open has no checks and no reviews anyone acts on.
Request(s) == [state |-> s, ci |-> "pending", changes |-> FALSE]

PRInit ==
  /\ pr = Request("open")
  /\ git = [foreign |-> FALSE, track |-> "absent", ahead |-> FALSE]

-----------------------------------------------------------------------------
(* The forge and the people on it (external). *)

CiReports ==
  /\ pr.state = "open" /\ pr.ci = "pending"
  /\ \E c \in {"green", "red"} : pr' = [pr EXCEPT !.ci = c]
  /\ UNCHANGED git

\* A re-run, or a new commit on the target.
CiRestarts ==
  /\ pr.state = "open" /\ pr.ci # "pending"
  /\ pr' = [pr EXCEPT !.ci = "pending"]
  /\ UNCHANGED git

HumanPushes ==
  /\ pr.state = "open"
  /\ pr' = Request("open")
  /\ git' = [git EXCEPT !.foreign = TRUE,
                        !.track = IF @ = "absent" THEN "absent" ELSE "stale"]

HumanReviews ==
  /\ pr.state = "open"
  /\ pr' = [pr EXCEPT !.changes = ~pr.changes]
  /\ UNCHANGED git

HumanMerges ==
  /\ pr.state = "open"
  /\ pr' = Request("merged")
  /\ UNCHANGED git

HumanCloses ==
  /\ pr.state = "open"
  /\ pr' \in {Request("closed"), Request("satisfied")}
  /\ UNCHANGED git

HumanReopens ==
  /\ pr.state \in {"closed", "satisfied"}
  /\ pr' = Request("open")
  /\ UNCHANGED git

Forge == CiReports \/ CiRestarts

-----------------------------------------------------------------------------
(* git_ops.py; every operation names the next value of git. *)

\* A new head on the remote: checks start over, reviews are of an old head.
NewHead == Request(pr.state)

\* After a push of the clone g the remote is what the clone is; a push to the
\* authenticated URL may or may not move the tracking ref.
Pushed(g) ==
  {[g EXCEPT !.foreign = FALSE, !.ahead = FALSE, !.track = k] :
     k \in {"current", IF g.track = "absent" THEN "absent" ELSE "stale"}}

HeadAfterPush(g) == pr' = IF g.ahead \/ g.foreign THEN NewHead ELSE pr

\* push(): --force, whatever the remote holds.
push(g) == git' \in Pushed(g) /\ HeadAfterPush(g)

\* Mutant: the lease is not sent.
push_with_lease_NoLease(g) == push(g)

\* push_with_lease(): compare-and-swap on the tracking ref, or --force when
\* there is none.  Disabled, the push is rejected.
push_with_lease(g) == g.track # "stale" /\ push(g)

\* The agents' git_push_with_lease tool fetches first, so its lease holds.
agent_push_with_lease(g) ==
  /\ git' = [g EXCEPT !.foreign = FALSE, !.ahead = FALSE, !.track = "current"]
  /\ HeadAfterPush(g)

\* A step that pushes and thereby discards a person's commit.
Overwrites == git.foreign /\ ~git'.foreign

\* Mutant: a diverged branch is taken for one of the mill's own pushes.
reconcile_with_remote_pr_TrustsRemote(res) ==
  /\ res = "SYNCED"
  /\ git' = [git EXCEPT !.track = "current"]

\* reconcile_with_remote_pr(): fetch, fast-forward when the clone has nothing
\* of its own; a failed fetch without a tracking ref reads as "no branch yet".
reconcile_with_remote_pr(res) ==
  \/ /\ res = IF git.track = "absent" THEN "SYNCED" ELSE "UNAVAILABLE"
     /\ UNCHANGED git
  \/ /\ ~(git.foreign /\ git.ahead)
     /\ res = "SYNCED"
     /\ git' = [git EXCEPT !.track = "current", !.foreign = FALSE]
  \/ /\ git.foreign /\ git.ahead
     /\ res = "DIVERGED"
     /\ git' = [git EXCEPT !.track = "current"]

\* post_push_check(): the fetched branch against the clone.  A clone that is
\* not ahead and misses nothing landed; who wrote its commits may still be
\* a person's, fast-forwarded earlier.
post_push_check(res) ==
  \/ res = "UNAVAILABLE" /\ git' \in {git, [git EXCEPT !.track = "current"]}
  \/ /\ IF git.foreign \/ git.ahead THEN res = "NOT_LANDED"
        ELSE res \in {"PASS", "FOREIGN_DIVERGENCE"}
     /\ git' = [git EXCEPT !.track = "current"]

\* try_rebase_onto(), try_mechanical_rebase(): the clone's commits are
\* rewritten onto the target.
Rebased == [git EXCEPT !.ahead = TRUE]

=============================================================================
