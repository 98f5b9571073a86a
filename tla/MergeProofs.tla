---------------------------- MODULE MergeProofs ----------------------------
(***************************************************************************)
(* What the two stages that judge a finished change promise, merge first   *)
(* and then review, for every setting of their limits, any number of       *)
(* crashes and whatever the forge, the reviewer and people do.             *)
(*                                                                         *)
(* RepairsAreBounded is not inductive: that the cycles of CI repair are    *)
(* within the limit is in the file that counts them, which is only cleared *)
(* on a green check or when the ticket is blocked (Counted), that a heal   *)
(* is the only one is in the marker written before it (Marked).  The three *)
(* action properties need to know where a run may be for each state of the *)
(* ticket (Places), where a blocked ticket came from (Origin), that only a *)
(* merged request is verified (Merged), and what a reconcile with the      *)
(* fetched branch leaves true until the push (Fetched).                    *)
(***************************************************************************)
EXTENDS Merge, Review, TLAPS

Polls == {"implement_complete", "human_mr_approval", "waiting_auto_merge"}
Working == {"implement_complete", "human_mr_approval", "waiting_auto_merge", "rebasing",
            "addressing_review", "fixing_ci"}
Places == Working \cup {"blocked", "ready", "done"}

Labels == {"idle", "polled", "refresh", "check", "merging", "verify", "heal", "reopen", "rebase",
           "leasepush", "agent", "rebased", "norebase", "revise", "revised", "norevision"}

\* The states of the ticket in which a run can be at a label.
Home(l) ==
  IF l = "idle" THEN Places
  ELSE IF l \in {"polled", "merging", "verify"} THEN Polls
  ELSE IF l \in {"refresh", "check", "heal", "reopen"} THEN {"implement_complete"}
  ELSE IF l \in {"revise", "revised", "norevision"} THEN {"addressing_review"}
  ELSE {"rebasing"}

AtHome == pc \in Labels /\ st \in Home(pc)

Origin == IF st = "blocked" THEN from \in Working ELSE from = None

\* The repairs since the last green check are those the counter has.
Counted == AutoFixMaxCycles > 0 =>
  hist.fixes <= AutoFixMaxCycles /\ (st # "blocked" => hist.fixes <= art.cycles)

\* The request was not closed yet if the marker is missing or just written.
Marked ==
  /\ hist.heals <= 1
  /\ ~art.healed \/ pc = "heal" => hist.heals = 0
  /\ pc = "heal" => art.healed

Merged == pc = "verify" => pr.state = "merged"

\* After a reconcile that could fetch, a person's commit can only be one the
\* tracking ref does not have.
Fetched ==
  pc \in {"rebase", "leasepush", "revise", "revised"} =>
    /\ seen \in {"SYNCED", "UNAVAILABLE"}
    /\ seen = "SYNCED" /\ git.foreign => git.track # "current"

Typed ==
  /\ PRTypeOK
  /\ seen \in MergeableState \cup {"SYNCED", "UNAVAILABLE"}
  /\ art \in Artifacts
  /\ hist \in History

MInv == Typed /\ AtHome /\ Origin /\ Counted /\ Marked /\ Merged /\ Fetched

-----------------------------------------------------------------------------
(* The table of transitions. *)

LEMMA MergeStatesAre == MergeStates = Working \ {"fixing_ci"}
<1> DEFINE Five == {"implement_complete", "human_mr_approval", "waiting_auto_merge",
                    "rebasing", "addressing_review"}
<1>1. \A s \in State : s \in Five => STAGE_FOR_STATE[s] = "merge"
  BY DEF STAGE_FOR_STATE, State
<1>2. \A s \in State : s \notin Five => STAGE_FOR_STATE[s] # "merge"
  BY DEF STAGE_FOR_STATE, State, None
<1>3. Five \subseteq State
  BY DEF State
<1> QED BY <1>1, <1>2, <1>3 DEF MergeStates, Working

LEMMA Table ==
  /\ \A s \in Working : "blocked" \in TRANSITIONS[s]
  /\ {"human_mr_approval", "fixing_ci", "rebasing", "waiting_auto_merge", "addressing_review",
      "done"} \subseteq TRANSITIONS["implement_complete"]
  /\ {"done", "waiting_auto_merge", "implement_complete", "rebasing", "addressing_review"}
       \subseteq TRANSITIONS["human_mr_approval"]
  /\ {"done", "human_mr_approval", "implement_complete", "rebasing", "addressing_review"}
       \subseteq TRANSITIONS["waiting_auto_merge"]
  /\ {"implement_complete", "ready", "waiting_auto_merge", "human_mr_approval"}
       \subseteq TRANSITIONS["rebasing"]
  /\ {"implement_complete", "rebasing"} \subseteq TRANSITIONS["fixing_ci"]
  /\ "human_mr_approval" \in TRANSITIONS["addressing_review"]
  BY DEF TRANSITIONS, State, Working

LEMMA TypeFollows == MInv => MTypeOK
  BY MergeStatesAre DEF MInv, MTypeOK, Typed, AtHome, Origin, Home, Polls, Working, Places, Labels

-----------------------------------------------------------------------------
(* The pull request and the branch under each operation on them. *)

LEMMA RequestType == ASSUME NEW s \in {"open", "merged", "closed", "satisfied"}
                     PROVE  Request(s) \in PullRequestType /\ Request(s).state = s
  BY DEF Request, PullRequestType, Conclusion

LEMMA HeadType == PRTypeOK => NewHead \in PullRequestType /\ NewHead.state = pr.state
  BY RequestType DEF PRTypeOK, NewHead, PullRequestType

LEMMA RebasedType == PRTypeOK => /\ Rebased \in GitType
                                 /\ Rebased.foreign = git.foreign /\ Rebased.track = git.track
  BY DEF PRTypeOK, Rebased, GitType

LEMMA PushType ==
  ASSUME PRTypeOK, NEW g \in GitType, push(g) \/ push_with_lease(g) \/ agent_push_with_lease(g)
  PROVE  PRTypeOK'
<1>1. pr' \in PullRequestType
  BY HeadType DEF push, push_with_lease, agent_push_with_lease, HeadAfterPush, PRTypeOK
<1>2. git' \in GitType
  BY DEF push, push_with_lease, agent_push_with_lease, Pushed, GitType
<1> QED BY <1>1, <1>2 DEF PRTypeOK

LEMMA UpdateType == PRTypeOK /\ update_branch => PRTypeOK'
  BY HeadType DEF update_branch, PRTypeOK, GitType

LEMMA FetchType ==
  ASSUME PRTypeOK, NEW res, reconcile_with_remote_pr(res) \/ post_push_check(res)
  PROVE  git' \in GitType
  BY DEF PRTypeOK, GitType, reconcile_with_remote_pr, post_push_check

\* What a reconcile promises: a branch it could fetch has no commit of a
\* person that the tracking ref shows and the clone lacks.
LEMMA ReconcileFetches ==
  ASSUME PRTypeOK, reconcile_with_remote_pr("SYNCED")
  PROVE  git'.foreign => git'.track # "current"
  BY DEF PRTypeOK, GitType, reconcile_with_remote_pr

\* People and the forge: a merged request stays merged, and a commit of theirs
\* is not on the tracking ref.
LEMMA OutsideType ==
  ASSUME PRTypeOK, HumanPushes \/ HumanReviews \/ HumanMerges \/ HumanCloses \/ HumanReopens \/ Forge
  PROVE  /\ PRTypeOK'
         /\ pr.state = "merged" => pr'.state = "merged"
         /\ git' = git \/ git'.track # "current"
<1>1. CASE HumanPushes
  BY <1>1, RequestType DEF HumanPushes, PRTypeOK, GitType
<1>2. CASE HumanReviews
  BY <1>2 DEF HumanReviews, PRTypeOK, PullRequestType
<1>3. CASE HumanMerges \/ HumanCloses \/ HumanReopens
  BY <1>3, RequestType DEF HumanMerges, HumanCloses, HumanReopens, PRTypeOK
<1>4. CASE Forge
  BY <1>4 DEF Forge, CiReports, CiRestarts, PRTypeOK, PullRequestType, Conclusion
<1> QED BY <1>1, <1>2, <1>3, <1>4

-----------------------------------------------------------------------------
(* The artifacts. *)

LEMMA Limits ==
  /\ 0 \in Below(RebaseMaxAttempts) /\ 0 \in Below(PingPongMaxAlternations)
  /\ 0 \in Below(EmptyRollupMaxPolls) /\ 0 \in Below(GreenUnpromotableMaxPolls)
  /\ 0 \in Below(ReviewRevisionMaxAttempts) /\ 0 \in Below(PrMissingMaxPolls)
  /\ 0 \in Below(MergeMaxRetries) /\ 0 \in 0..AutoFixMaxCycles
  BY MergeConstants DEF Below

\* One more, if that is below the limit, or held at the last value that differs.
LEMMA OneMore ==
  ASSUME NEW max \in Nat \ {0}, NEW n \in Below(max)
  PROVE  /\ n \in Nat
         /\ n + 1 < max => n + 1 \in Below(max)
         /\ Upto(n + 1, max) \in Below(max)
  BY DEF Below, Upto

\* A write that leaves the counter of cycles and the marker alone.
Kept(b) == b \in Artifacts /\ b.cycles = art.cycles /\ b.healed = art.healed

LEMMA NewHeadKept == art \in Artifacts => /\ Kept(ForNewHead(art)) /\ Kept(art)
                                          /\ ForNewHead(art).revision = art.revision
  BY DEF Kept, ForNewHead, Artifacts

LEMMA RebaseKept ==
  ASSUME art \in Artifacts, NEW n \in Below(RebaseMaxAttempts)
  PROVE  /\ Kept([art EXCEPT !.rebase = n])
         /\ Kept([[art EXCEPT !.rebase_from = FALSE] EXCEPT !.rebase = n])
         /\ Kept([art EXCEPT !.rebase_from = FALSE])
         /\ Kept([art EXCEPT !.rebase_from = TRUE])
         /\ \A r \in BOOLEAN : Kept([art EXCEPT !.rebase = n, !.steady = r])
  BY DEF Kept, Artifacts

LEMMA FlagsKept ==
  ASSUME art \in Artifacts, NEW r \in BOOLEAN, NEW q \in BOOLEAN
  PROVE  /\ Kept([art EXCEPT !.refreshed = r, !.steady = q])
         /\ Kept([art EXCEPT !.refreshed = r])
         /\ Kept([art EXCEPT !.steady = q])
  BY DEF Kept, Artifacts

LEMMA CountsKept ==
  ASSUME art \in Artifacts
  PROVE  /\ \A n \in Below(PrMissingMaxPolls) : Kept([art EXCEPT !.missing = n])
         /\ \A n \in Below(MergeMaxRetries) : Kept([art EXCEPT !.retries = n])
         /\ \A n \in Below(EmptyRollupMaxPolls) : Kept([art EXCEPT !.rollup = n])
         /\ \A n \in Below(GreenUnpromotableMaxPolls) : Kept([art EXCEPT !.unpromotable = n])
         /\ \A n \in Below(ReviewRevisionMaxAttempts) :
              Kept([art EXCEPT !.revision = n]) /\ Kept([ForNewHead(art) EXCEPT !.revision = n])
         /\ \A n \in Below(GreenUnpromotableMaxPolls), m \in Below(EmptyRollupMaxPolls) :
              Kept([art EXCEPT !.unpromotable = n, !.rollup = m])
  BY DEF Kept, Artifacts, ForNewHead

-----------------------------------------------------------------------------
(* Steps by what they do to the run; each lemma also says that the outcome *)
(* is one the state machine accepts.                                       *)

LegalStep == st' = st \/ can_transition(st, st', from, None)

\* A run that ends, whatever it counts.
LEMMA ReturnCounts ==
  ASSUME MInv, st \in Working, NEW s \in Places, Return(s), PRTypeOK', art' \in Artifacts,
         art'.healed = art.healed, hist' \in History, hist'.heals = hist.heals, Counted'
  PROVE  MInv'
<1>1. Typed'
  BY DEF MInv, Typed, Return, MergeableState
<1>2. AtHome' /\ Origin'
  BY DEF MInv, Return, AtHome, Origin, Home, Labels, Places, Working
<1>3. Marked'
  BY DEF MInv, Marked, Return
<1>4. Merged' /\ Fetched'
  BY DEF Return, Merged, Fetched
<1> QED BY <1>1, <1>2, <1>3, <1>4 DEF MInv

\* A run that ends and keeps the counts.
LEMMA ReturnKeeps ==
  ASSUME MInv, st \in Working, NEW s \in Places, Return(s), PRTypeOK', Kept(art'), hist' = hist
  PROVE  MInv'
<1>1. st # "blocked" /\ art'.cycles = art.cycles /\ hist \in History
  BY DEF Working, Kept, MInv, Typed
<1>2. Counted'
  BY <1>1 DEF MInv, Counted
<1> QED BY <1>1, <1>2, ReturnCounts DEF Kept

\* A run that goes on somewhere else, and keeps the counts.
LEMMA GotoKeeps ==
  ASSUME MInv, NEW l \in Labels \ {"verify", "heal", "rebase", "leasepush", "revise", "revised"},
         Goto(l), st \in Home(l), PRTypeOK', Kept(art'), hist' = hist
  PROVE  MInv'
<1>1. Typed'
  BY DEF MInv, Typed, Goto, Kept
<1>2. AtHome' /\ Origin'
  BY DEF MInv, Goto, AtHome, Origin
<1>3. hist.fixes \in Nat /\ hist.heals \in Nat /\ hist' = hist
  BY DEF MInv, Typed, History
<1>4. Counted'
  <2>1. st' = st /\ art'.cycles = art.cycles
    BY DEF Goto, Kept
  <2> QED BY <1>3, <2>1 DEF MInv, Counted
<1>5. Marked'
  BY <1>3 DEF MInv, Marked, Goto, Kept
<1>6. Merged' /\ Fetched'
  BY DEF Goto, Merged, Fetched
<1> QED BY <1>1, <1>2, <1>4, <1>5, <1>6 DEF MInv

\* A run that goes on to a push: what was fetched must still be true.
LEMMA FetchedKeeps ==
  ASSUME MInv, NEW l \in {"rebase", "leasepush", "revise", "revised"},
         pc' = l, st' = st, from' = from, st \in Home(l), seen' \in {"SYNCED", "UNAVAILABLE"},
         seen' = "SYNCED" /\ git'.foreign => git'.track # "current",
         PRTypeOK', Kept(art'), hist' = hist
  PROVE  MInv'
<1>1. Typed'
  BY DEF MInv, Typed, Kept
<1>2. AtHome' /\ Origin'
  BY DEF MInv, AtHome, Origin, Labels
<1>3. hist.fixes \in Nat /\ hist.heals \in Nat /\ hist' = hist
  BY DEF MInv, Typed, History
<1>4. Counted'
  <2>1. art'.cycles = art.cycles
    BY DEF Kept
  <2> QED BY <1>3, <2>1 DEF MInv, Counted
<1>5. Marked'
  BY <1>3 DEF MInv, Marked, Kept
<1>6. Merged' /\ Fetched'
  BY DEF Merged, Fetched
<1> QED BY <1>1, <1>2, <1>4, <1>5, <1>6 DEF MInv

(***************************************************************************)
(* What every step keeps: its outcome is in the table, DONE is for what    *)
(* was delivered, and a push under the lease does not overwrite a commit   *)
(* that the reconcile before it could see.                                 *)
(***************************************************************************)
GoodStep ==
  /\ LegalStep
  /\ st' = "done" /\ st # "done" => pr.state \in {"merged", "satisfied"}
  /\ LeasedStep /\ Overwrites => seen = "UNAVAILABLE" \/ git.track = "absent"

\* Where a run may end from a state that works.
Outcomes == TRANSITIONS[st] \cup {st, "blocked"}

LEMMA ReturnsLegally ==
  ASSUME st \in Working, NEW s \in Outcomes, Return(s)
  PROVE  LegalStep
  BY Table DEF LegalStep, Return, can_transition, Outcomes

LEMMA Ends ==
  ASSUME MInv, st \in Working, NEW s \in Places \cap Outcomes, Return(s), PRTypeOK', Kept(art'),
         hist' = hist, ~LeasedStep \/ git' = git, s # "done" \/ pr.state \in {"merged", "satisfied"}
  PROVE  MInv' /\ GoodStep
<1>1. MInv'
  BY ReturnKeeps
<1>2. LegalStep
  BY ReturnsLegally
<1>3. LeasedStep /\ Overwrites => seen = "UNAVAILABLE" \/ git.track = "absent"
  BY DEF Overwrites
<1> QED BY <1>1, <1>2, <1>3 DEF GoodStep, Return, Working

LEMMA Goes ==
  ASSUME MInv, NEW l \in Labels \ {"verify", "heal", "rebase", "leasepush", "revise", "revised"},
         Goto(l), st \in Home(l), PRTypeOK', Kept(art'), hist' = hist, ~LeasedStep \/ git' = git
  PROVE  MInv' /\ GoodStep
<1>1. MInv'
  BY GotoKeeps
<1>2. LeasedStep /\ Overwrites => seen = "UNAVAILABLE" \/ git.track = "absent"
  BY DEF Overwrites
<1> QED BY <1>1, <1>2 DEF GoodStep, LegalStep, Goto

\* What the places say: a run that is not idle is in a state that works.
LEMMA Homes ==
  ASSUME MInv
  PROVE  /\ pc # "idle" => st \in Working
         /\ pc \in {"polled", "merging", "verify"} => st \in Polls
         /\ pc \in {"refresh", "check", "heal", "reopen"} => st = "implement_complete"
         /\ pc \in {"rebase", "leasepush", "agent", "rebased", "norebase"} => st = "rebasing"
         /\ pc \in {"revise", "revised", "norevision"} => st = "addressing_review"
         /\ art \in Artifacts /\ PRTypeOK /\ hist \in History
         /\ pr \in PullRequestType /\ git \in GitType /\ Kept(art)
  BY DEF MInv, AtHome, Home, Labels, Polls, Working, Typed, PRTypeOK, Kept

LEMMA FromPolls ==
  /\ st \in Working => {st, "blocked"} \subseteq Places \cap Outcomes
  /\ st \in Polls =>
       /\ st \in Working
       /\ {"implement_complete", "human_mr_approval", "waiting_auto_merge", "rebasing",
           "addressing_review", "done", "blocked"} \subseteq Places \cap Outcomes
  BY Table DEF Polls, Working, Places, Outcomes

-----------------------------------------------------------------------------
(* The preamble of the polls. *)

LEMMA BaselineStep ==
  ASSUME MInv, PollFails \/ PollMerged \/ PollClosed \/ PollOpen
  PROVE  MInv' /\ GoodStep
<1>0. /\ art \in Artifacts /\ PRTypeOK /\ PRTypeOK' /\ hist' = hist /\ git' = git
      /\ st \in Polls /\ st \in Working /\ pc = "idle" /\ Kept(art)
  BY Homes DEF PollFails, PollMerged, PollClosed, PollOpen, Polling, Polls, Working, PRTypeOK
<1>1. CASE PollFails
  <2>0. {st, "blocked"} \subseteq Places \cap Outcomes
    BY <1>0, FromPolls
  <2>1. CASE Return(st) /\ UNCHANGED art
    <3>1. Kept(art')
      BY <1>0, <2>1
    <3> QED BY <1>0, <2>0, <2>1, <3>1, Ends, FromPolls, Homes DEF Polls
  <2>2. CASE /\ PrMissingMaxPolls > 0
             /\ art' = [art EXCEPT !.missing = Upto(@ + 1, PrMissingMaxPolls)]
             /\ Return(IF art.missing + 1 >= PrMissingMaxPolls THEN "blocked" ELSE st)
    <3>1. art.missing \in Below(PrMissingMaxPolls) /\ PrMissingMaxPolls \in Nat \ {0}
      BY <1>0, <2>2, MergeConstants DEF Artifacts
    <3>2. Kept(art')
      BY <1>0, <2>2, <3>1, OneMore, CountsKept
    <3>3. PICK s \in {st, "blocked"} : Return(s)
      BY <2>2
    <3>4. s \in Places \cap Outcomes /\ s # "done"
      BY <1>0, <2>0 DEF Polls
    <3> QED BY <1>0, <3>2, <3>3, <3>4, Ends
  <2> QED BY <1>1, <2>1, <2>2 DEF PollFails
<1>2. CASE PollMerged
  <2>1. Kept(art')
    BY <1>0, <1>2, Limits, CountsKept DEF PollMerged
  <2>2. pr.state = "merged"
    BY <1>2 DEF PollMerged
  <2>3. CASE Return("done")
    BY <1>0, <2>1, <2>2, <2>3, Ends, FromPolls
  <2>4. CASE Return("implement_complete")
    BY <1>0, <2>1, <2>4, Ends, FromPolls
  <2> QED BY <1>2, <2>3, <2>4 DEF PollMerged
<1>3. CASE PollClosed
  <2>1. Kept(art')
    BY <1>0, <1>3, Limits, CountsKept DEF PollClosed
  <2>2. CASE pr.state = "satisfied" /\ Return("done")
    BY <1>0, <2>1, <2>2, Ends, FromPolls
  <2>3. CASE Return("blocked")
    BY <1>0, <2>1, <2>3, Ends, FromPolls
  <2> QED BY <1>3, <2>2, <2>3 DEF PollClosed
<1>4. CASE PollOpen
  <2>1. /\ Kept(art') /\ seen' \in MergeableState /\ pc' = "polled" /\ st' = st /\ from' = from
    BY <1>0, <1>4, Limits, CountsKept DEF PollOpen
  <2>2. Typed' /\ AtHome' /\ Origin'
    BY <1>0, <2>1, Homes DEF MInv, Typed, AtHome, Origin, Kept, Labels, Home
  <2>3. Counted' /\ Marked'
    BY <1>0, <2>1, Homes DEF MInv, Counted, Marked, Kept, History
  <2>4. Merged' /\ Fetched'
    BY <2>1 DEF Merged, Fetched
  <2> QED BY <1>0, <2>1, <2>2, <2>3, <2>4 DEF MInv, GoodStep, LegalStep, Overwrites
<1> QED BY <1>1, <1>2, <1>3, <1>4

-----------------------------------------------------------------------------
(* IMPLEMENT_COMPLETE. *)

LEMMA GateCheckStep == MInv /\ GateCheck => MInv' /\ GoodStep
<1> SUFFICES ASSUME MInv, GateCheck PROVE MInv' /\ GoodStep
  OBVIOUS
<1>0. /\ art \in Artifacts /\ PRTypeOK' /\ hist' = hist /\ git' = git
      /\ st \in Polls /\ st = "implement_complete" /\ pc = "polled"
  BY Homes DEF GateCheck, NoPr, PRTypeOK
<1>1. CASE Return("rebasing") /\ UNCHANGED art
  <2>1. Kept(art')
    BY <1>0, <1>1, NewHeadKept
  <2> QED BY <1>0, <1>1, <2>1, FromPolls, Ends
<1>2. CASE art' = [art EXCEPT !.rebase = 0] /\ (Return("human_mr_approval") \/ Goto("refresh"))
  <2>1. Kept(art')
    BY <1>0, <1>2, RebaseKept, Limits
  <2>2. CASE Return("human_mr_approval")
    BY <1>0, <2>1, <2>2, FromPolls, Ends
  <2>3. CASE Goto("refresh")
    BY <1>0, <2>1, <2>3, Goes DEF Home, Labels
  <2> QED BY <1>2, <2>2, <2>3
<1> QED BY <1>1, <1>2 DEF GateCheck

LEMMA RefreshStep == MInv /\ RefreshBranchForCi => MInv' /\ GoodStep
<1> SUFFICES ASSUME MInv, RefreshBranchForCi PROVE MInv' /\ GoodStep
  OBVIOUS
<1>0. /\ art \in Artifacts /\ PRTypeOK /\ git \in GitType /\ Rebased \in GitType /\ hist' = hist
      /\ st = "implement_complete" /\ pc = "refresh" /\ Goto("check")
  BY Homes, RebasedType DEF RefreshBranchForCi
<1>1. CASE (push(git) \/ push(Rebased)) /\ art' = [art EXCEPT !.refreshed = TRUE, !.steady = FALSE]
  <2>1. Kept(art') /\ PRTypeOK'
    BY <1>0, <1>1, FlagsKept, PushType
  <2> QED BY <1>0, <2>1, Goes DEF Home, Labels, LeasedStep
<1>2. CASE NoPr /\ UNCHANGED art
  <2>1. Kept(art') /\ PRTypeOK'
    BY <1>0, <1>2, NewHeadKept DEF NoPr, PRTypeOK
  <2> QED BY <1>0, <2>1, Goes DEF Home, Labels, LeasedStep
<1> QED BY <1>1, <1>2 DEF RefreshBranchForCi

\* The ping-pong counter stays below its limit.
LEMMA PingPongType ==
  ASSUME art \in Artifacts, NEW to \in {"rebase", "ci_fix"}
  PROVE  /\ ping_pong(to).ping \in Below(PingPongMaxAlternations)
         /\ ping_pong(to).last \in {None, "rebase", "ci_fix"}
<1>1. art.ping \in Below(PingPongMaxAlternations) /\ art.last \in {None, "rebase", "ci_fix"}
  BY DEF Artifacts
<1>2. CASE PingPongMaxAlternations = 0
  BY <1>1, <1>2 DEF ping_pong
<1>3. CASE PingPongMaxAlternations # 0
  <2>1. PingPongMaxAlternations \in Nat \ {0}
    BY <1>3, MergeConstants
  <2>2. art.ping \in Nat /\ 0 \in Below(PingPongMaxAlternations)
    BY <1>1, <2>1, OneMore, Limits
  <2>3. art.ping + 1 < PingPongMaxAlternations \/ art.ping + 1 >= PingPongMaxAlternations
    BY <2>1, <2>2
  <2>4. art.ping + 1 < PingPongMaxAlternations => art.ping + 1 \in Below(PingPongMaxAlternations)
    BY <1>1, <2>1, OneMore
  <2> QED BY <1>1, <1>3, <2>2, <2>3, <2>4 DEF ping_pong
<1> QED BY <1>2, <1>3

\* A cycle of CI repair is counted before the ticket goes to FIXING_CI.
LEMMA CiFailureStep == MInv /\ CiFailureRoute => MInv' /\ GoodStep
<1> SUFFICES ASSUME MInv, CiFailureRoute PROVE MInv' /\ GoodStep
  OBVIOUS
<1>0. /\ art \in Artifacts /\ PRTypeOK' /\ hist \in History /\ git' = git
      /\ st = "implement_complete" /\ pc = "check" /\ st \in Polls /\ st \in Working
      /\ {"blocked", "rebasing", "fixing_ci"} \subseteq Places \cap Outcomes
  BY Homes, Table DEF CiFailureRoute, NoPr, PRTypeOK, Polls, Working, Places, Outcomes
<1>1. /\ art.cycles \in 0..AutoFixMaxCycles /\ AutoFixMaxCycles \in Nat
      /\ hist.fixes \in Nat /\ hist.heals \in Nat
  BY <1>0, MergeConstants DEF Artifacts, History
<1> DEFINE pp == ping_pong("ci_fix")
<1>2. pp.ping \in Below(PingPongMaxAlternations) /\ pp.last \in {None, "rebase", "ci_fix"}
  BY <1>0, PingPongType
<1>3. CASE (Return("blocked") \/ Return("rebasing")) /\ UNCHANGED <<art, hist>>
  <2>1. Kept(art') /\ hist' = hist
    BY <1>0, <1>3, NewHeadKept
  <2> QED BY <1>0, <1>3, <2>1, Ends
<1>4. ASSUME NEW s \in {"blocked", "fixing_ci"}, Return(s), art' \in Artifacts,
             art'.healed = art.healed, hist' \in History, hist'.heals = hist.heals, Counted'
      PROVE  MInv' /\ GoodStep
  <2>1. MInv'
    BY <1>0, <1>4, ReturnCounts
  <2>2. LegalStep /\ st' # "done"
    BY <1>0, <1>4, ReturnsLegally DEF Return
  <2> QED BY <1>0, <2>1, <2>2 DEF GoodStep, LeasedStep
<1>5. CASE /\ AutoFixMaxCycles > 0 /\ art.cycles >= AutoFixMaxCycles
           /\ art' = [art EXCEPT !.cycles = 0]
           /\ Return("blocked") /\ UNCHANGED hist
  <2>1. art' \in Artifacts /\ art'.healed = art.healed
    BY <1>0, <1>1, <1>5, Limits DEF Artifacts
  <2>2. Counted'
    BY <1>0, <1>5 DEF MInv, Counted, Return
  <2> QED BY <1>0, <1>4, <1>5, <2>1, <2>2
<1>6. CASE /\ AutoFixMaxCycles = 0 \/ art.cycles < AutoFixMaxCycles
           /\ art' = [art EXCEPT !.cycles = IF AutoFixMaxCycles = 0 THEN 0 ELSE @ + 1,
                                 !.ping = pp.ping, !.last = pp.last]
           /\ Return(IF pp.blocks THEN "blocked" ELSE "fixing_ci")
           /\ hist' = IF pp.blocks THEN hist ELSE [hist EXCEPT !.fixes = @ + 1]
  <2> DEFINE n == IF AutoFixMaxCycles = 0 THEN 0 ELSE art.cycles + 1
  <2>1. /\ n \in 0..AutoFixMaxCycles
        /\ AutoFixMaxCycles > 0 => n = art.cycles + 1
    BY <1>1, <1>6
  <2>2. art' = [art EXCEPT !.cycles = n, !.ping = pp.ping, !.last = pp.last]
    BY <1>6
  <2> HIDE DEF n, pp
  <2>3. art' \in Artifacts /\ art'.healed = art.healed /\ art'.cycles = n
    BY <1>0, <1>2, <2>1, <2>2 DEF Artifacts
  <2>4. /\ hist' \in History /\ hist'.heals = hist.heals
        /\ hist'.fixes \in {hist.fixes, hist.fixes + 1}
    BY <1>0, <1>1, <1>6 DEF History
  <2>5. Counted'
    BY <1>0, <1>1, <2>1, <2>3, <2>4 DEF MInv, Counted
  <2>6. PICK s \in {"blocked", "fixing_ci"} : Return(s)
    BY <1>6
  <2> QED BY <1>4, <2>3, <2>4, <2>5, <2>6
<1> QED BY <1>3, <1>5, <1>6 DEF CiFailureRoute

LEMMA PromoteStep == MInv /\ MergeOrPromote => MInv' /\ GoodStep
<1> SUFFICES ASSUME MInv, MergeOrPromote PROVE MInv' /\ GoodStep
  OBVIOUS
<1>0. /\ art \in Artifacts /\ PRTypeOK' /\ hist \in History /\ git' = git /\ hist' = [hist EXCEPT !.fixes = 0]
      /\ art' = [art EXCEPT !.cycles = 0, !.ping = 0, !.last = None]
      /\ st = "implement_complete" /\ pc = "check" /\ st \in Working
      /\ "human_mr_approval" \in Places \cap Outcomes
  BY Homes, Table DEF MergeOrPromote, NoPr, PRTypeOK, Working, Places, Outcomes
<1>1. /\ art' \in Artifacts /\ art'.healed = art.healed /\ art'.cycles = 0
      /\ hist' \in History /\ hist'.heals = hist.heals /\ hist'.fixes = 0
  BY <1>0, Limits DEF Artifacts, History
<1>2. Counted'
  BY <1>1, MergeConstants DEF Counted
<1>3. CASE Return("human_mr_approval")
  <2>1. MInv'
    BY <1>0, <1>1, <1>2, <1>3, ReturnCounts
  <2>2. LegalStep /\ st' # "done"
    BY <1>0, <1>3, ReturnsLegally DEF Return
  <2> QED BY <1>0, <2>1, <2>2 DEF GoodStep, LeasedStep
<1>4. CASE ToMerge
  <2>1. pc' = "merging" /\ st' = st /\ from' = from /\ seen' = seen
    BY <1>4 DEF ToMerge, Goto
  <2>2. Typed' /\ AtHome' /\ Origin'
    BY <1>0, <1>1, <2>1 DEF MInv, Typed, AtHome, Origin, Labels, Home, Polls
  <2>3. Marked' /\ Merged' /\ Fetched'
    BY <1>0, <1>1, <2>1 DEF MInv, Marked, Merged, Fetched
  <2> QED BY <1>0, <1>2, <2>1, <2>2, <2>3 DEF MInv, GoodStep, LegalStep, LeasedStep
<1> QED BY <1>3, <1>4 DEF MergeOrPromote

LEMMA GateWaitsStep == MInv /\ GateWaits => MInv' /\ GoodStep
<1> SUFFICES ASSUME MInv, GateWaits PROVE MInv' /\ GoodStep
  OBVIOUS
<1>0. /\ art \in Artifacts /\ PRTypeOK' /\ hist' = hist /\ git' = git /\ st \in Polls /\ st \in Working
      /\ {st, "rebasing"} \subseteq Places \cap Outcomes /\ st # "done"
  BY Homes, Table DEF GateWaits, NoPr, PRTypeOK, Polls, Working, Places, Outcomes
<1>1. Kept(art')
  BY <1>0, NewHeadKept, CountsKept, Limits DEF GateWaits
<1>2. PICK s \in {st, "rebasing"} : Return(s)
  BY DEF GateWaits
<1> QED BY <1>0, <1>1, <1>2, Ends

-----------------------------------------------------------------------------
(* A green request the forge does not promote; the self-heal. *)

\* The marker is written before the request is closed.
LEMMA EmptyRollupStep == MInv /\ EmptyRollup => MInv' /\ GoodStep
<1> SUFFICES ASSUME MInv, EmptyRollup PROVE MInv' /\ GoodStep
  OBVIOUS
<1> DEFINE n == Upto(art.rollup + 1, EmptyRollupMaxPolls)
<1>0. /\ art \in Artifacts /\ PRTypeOK' /\ hist \in History /\ hist' = hist /\ git' = git
      /\ st \in Polls /\ st = "implement_complete" /\ st \in Working /\ pc = "check"
      /\ {st, "blocked"} \subseteq Places \cap Outcomes /\ Kept(art)
  BY Homes, FromPolls DEF EmptyRollup, Unpromotable, NoPr, PRTypeOK, Polls, Working
<1>1. n \in Below(EmptyRollupMaxPolls)
  <2>1. EmptyRollupMaxPolls \in Nat \ {0} /\ art.rollup \in Below(EmptyRollupMaxPolls)
    BY <1>0, MergeConstants DEF EmptyRollup, Artifacts
  <2> QED BY <2>1, OneMore
<1>2. ASSUME Kept(art'), Return(st) \/ Return("blocked") PROVE MInv' /\ GoodStep
  <2>1. PICK s \in {st, "blocked"} : Return(s)
    BY <1>2
  <2> QED BY <1>0, <1>2, <2>1, Ends
<1>3. CASE UNCHANGED art /\ (Return(st) \/ Return("blocked"))
  BY <1>0, <1>2, <1>3, NewHeadKept
<1>4. CASE art' = [art EXCEPT !.rollup = n] /\ Return(st)
  BY <1>0, <1>1, <1>2, <1>4, CountsKept
<1>5. CASE art.healed /\ art' = [art EXCEPT !.rollup = 0] /\ Return("blocked")
  BY <1>0, <1>2, <1>5, CountsKept, Limits
<1>6. CASE ~art.healed /\ art' = [art EXCEPT !.rollup = n, !.healed = TRUE] /\ Goto("heal")
  <2> HIDE DEF n
  <2>1. art' \in Artifacts /\ art'.cycles = art.cycles /\ art'.healed
    BY <1>0, <1>1, <1>6 DEF Artifacts
  <2>2. pc' = "heal" /\ st' = st /\ from' = from /\ seen' = seen
    BY <1>6 DEF Goto
  <2>3. Typed' /\ AtHome' /\ Origin'
    BY <1>0, <2>1, <2>2 DEF MInv, Typed, AtHome, Origin, Labels, Home
  <2>4. Counted' /\ Marked'
    BY <1>0, <1>6, <2>1, <2>2 DEF MInv, Counted, Marked, History
  <2>5. Merged' /\ Fetched'
    BY <2>2 DEF Merged, Fetched
  <2> QED BY <1>0, <2>2, <2>3, <2>4, <2>5 DEF MInv, GoodStep, LegalStep, LeasedStep
<1> QED BY <1>3, <1>4, <1>5, <1>6 DEF EmptyRollup

\* ... and is closed only by the run that has just written it.
LEMMA HealStep == MInv /\ (HealCloses \/ HealReopens) => MInv' /\ GoodStep
<1> SUFFICES ASSUME MInv, HealCloses \/ HealReopens PROVE MInv' /\ GoodStep
  OBVIOUS
<1>0. /\ art \in Artifacts /\ PRTypeOK /\ git \in GitType /\ hist \in History /\ git' = git
      /\ st \in Polls /\ st = "implement_complete" /\ st \in Working /\ pc \in {"heal", "reopen"}
      /\ {st, "blocked"} \subseteq Places \cap Outcomes
      /\ Kept(art) /\ Kept([art EXCEPT !.rollup = 0])
  BY Homes, FromPolls, CountsKept, Limits DEF HealCloses, HealReopens, Polls, Working
<1>1. CASE Return("blocked") /\ art' = [art EXCEPT !.rollup = 0] /\ UNCHANGED <<pr, hist>>
  <2>1. PRTypeOK' /\ Kept(art')
    BY <1>0, <1>1 DEF PRTypeOK
  <2> QED BY <1>0, <1>1, <2>1, Ends
<1>2. CASE /\ pc = "heal" /\ pr' \in {Request("closed"), Request("satisfied")}
           /\ hist' = [hist EXCEPT !.heals = @ + 1]
           /\ Goto("reopen") /\ UNCHANGED art
  <2>1. /\ hist' \in History /\ hist'.fixes = hist.fixes /\ hist'.heals = 1 /\ hist.fixes \in Nat
    BY <1>0, <1>2 DEF MInv, Marked, History
  <2>2. pc' = "reopen" /\ st' = st /\ from' = from /\ seen' = seen /\ art' = art /\ art.healed
    BY <1>2 DEF Goto, MInv, Marked
  <2>3. PRTypeOK'
    BY <1>0, <1>2, RequestType DEF PRTypeOK
  <2>4. Typed' /\ AtHome' /\ Origin'
    BY <1>0, <2>1, <2>2, <2>3 DEF MInv, Typed, AtHome, Origin, Labels, Home
  <2>5. Counted' /\ Marked'
    BY <2>1, <2>2 DEF MInv, Counted, Marked
  <2>6. Merged' /\ Fetched'
    BY <2>2 DEF Merged, Fetched
  <2> QED BY <1>0, <2>2, <2>4, <2>5, <2>6 DEF MInv, GoodStep, LegalStep, LeasedStep
<1>3. CASE /\ pr' = Request("open") /\ Return("implement_complete")
           /\ art' = [art EXCEPT !.rollup = 0] /\ hist' = hist
  <2>1. PRTypeOK' /\ Kept(art')
    BY <1>0, <1>3, RequestType DEF PRTypeOK
  <2> QED BY <1>0, <1>3, <2>1, Ends
<1> QED BY <1>1, <1>2, <1>3 DEF HealCloses, HealReopens

LEMMA UnpromotableStep == MInv /\ GreenUnpromotable => MInv' /\ GoodStep
<1> SUFFICES ASSUME MInv, GreenUnpromotable PROVE MInv' /\ GoodStep
  OBVIOUS
<1> DEFINE max == GreenUnpromotableMaxPolls
           n == IF max = 0 \/ art.unpromotable + 1 >= max THEN 0 ELSE art.unpromotable + 1
<1>0. /\ art \in Artifacts /\ PRTypeOK' /\ hist' = hist /\ git' = git
      /\ st \in Polls /\ st = "implement_complete" /\ st \in Working
      /\ {st, "blocked"} \subseteq Places \cap Outcomes
  BY Homes, FromPolls DEF GreenUnpromotable, Unpromotable, NoPr, PRTypeOK, Polls, Working
<1>1. n \in Below(max)
  <2>1. art.unpromotable \in Below(max) /\ max \in Nat
    BY <1>0, MergeConstants DEF Artifacts
  <2> QED BY <2>1, Limits DEF Below
<1>2. art' = [art EXCEPT !.unpromotable = n]
  BY DEF GreenUnpromotable
<1> HIDE DEF n
<1>3. Kept(art')
  BY <1>0, <1>1, <1>2, CountsKept
<1>4. PICK s \in {st, "blocked"} : Return(s)
  BY DEF GreenUnpromotable
<1> QED BY <1>0, <1>3, <1>4, Ends

-----------------------------------------------------------------------------
(* merge_pr. *)

LEMMA MergePrStep == MInv /\ MergePr => MInv' /\ GoodStep
<1> SUFFICES ASSUME MInv, MergePr PROVE MInv' /\ GoodStep
  OBVIOUS
<1>1. /\ PRTypeOK /\ pr' = Request("merged") /\ pr' \in PullRequestType /\ pr'.state = "merged"
      /\ git' = git /\ art' = art /\ hist' = hist /\ st \in Polls /\ pc = "merging"
      /\ pc' = "verify" /\ st' = st /\ from' = from /\ seen' = seen
  BY Homes, RequestType DEF MergePr, Goto
<1>2. Typed' /\ AtHome' /\ Origin'
  BY <1>1 DEF MInv, Typed, PRTypeOK, AtHome, Origin, Labels, Home
<1>3. Counted' /\ Marked'
  BY <1>1 DEF MInv, Counted, Marked
<1>4. Merged' /\ Fetched'
  BY <1>1 DEF Merged, Fetched
<1> QED BY <1>1, <1>2, <1>3, <1>4 DEF MInv, GoodStep, LegalStep, LeasedStep, Polls

LEMMA VerifyStep == MInv /\ VerifyMerge => MInv' /\ GoodStep
<1> SUFFICES ASSUME MInv, VerifyMerge PROVE MInv' /\ GoodStep
  OBVIOUS
<1>0. /\ PRTypeOK' /\ hist' = hist /\ git' = git /\ Kept(art') /\ pr.state = "merged"
      /\ st \in Polls /\ st \in Working
      /\ {st, "implement_complete", "done"} \subseteq Places \cap Outcomes
  BY Homes, FromPolls DEF VerifyMerge, NoPr, PRTypeOK, MInv, Merged, Kept
<1>1. PICK s \in {st, "implement_complete", "done"} : Return(s)
  BY DEF VerifyMerge
<1> QED BY <1>0, <1>1, Ends

LEMMA RejectedStep == MInv /\ MergeRejected => MInv' /\ GoodStep
<1> SUFFICES ASSUME MInv, MergeRejected PROVE MInv' /\ GoodStep
  OBVIOUS
<1>0. /\ art \in Artifacts /\ PRTypeOK' /\ hist' = hist /\ git' = git /\ st \in Polls /\ st \in Working
      /\ {st, "implement_complete", "blocked"} \subseteq Places \cap Outcomes /\ st # "done"
  BY Homes, FromPolls DEF MergeRejected, NoPr, PRTypeOK, Polls
<1>1. art.retries \in Below(MergeMaxRetries) /\ MergeMaxRetries \in Nat \ {0}
  BY <1>0, MergeConstants DEF Artifacts
<1>2. Kept(art')
  BY <1>0, <1>1, OneMore, CountsKept, NewHeadKept DEF MergeRejected
<1>3. PICK s \in {st, "implement_complete", "blocked"} : Return(s)
  BY DEF MergeRejected
<1> QED BY <1>0, <1>2, <1>3, Ends

-----------------------------------------------------------------------------
(* HUMAN_MR_APPROVAL and WAITING_AUTO_MERGE. *)

LEMMA ConflictStep ==
  ASSUME MInv, st \in Polls, pc = "polled", ParkedConflict, hist' = hist
  PROVE  MInv' /\ GoodStep
<1>0. /\ art \in Artifacts /\ PRTypeOK /\ st \in Working /\ ~LeasedStep /\ Kept(art)
      /\ {st, "implement_complete", "rebasing"} \subseteq Places \cap Outcomes /\ st # "done"
  BY Homes, FromPolls DEF Polls, LeasedStep
<1>1. PRTypeOK'
  BY <1>0, UpdateType DEF ParkedConflict, NoPr, PRTypeOK
<1>2. Kept(art')
  BY <1>0, FlagsKept, RebaseKept, Limits DEF ParkedConflict
<1>3. PICK s \in {st, "implement_complete", "rebasing"} : Return(s)
  BY DEF ParkedConflict
<1> QED BY <1>0, <1>1, <1>2, <1>3, Ends

LEMMA HumanStep ==
  ASSUME MInv, HumanSteady \/ HumanReview \/ HumanPoll \/ HumanBehind
  PROVE  MInv' /\ GoodStep
<1>0. /\ art \in Artifacts /\ PRTypeOK /\ hist' = hist /\ st = "human_mr_approval" /\ pc = "polled"
      /\ st \in Polls /\ st \in Working /\ ~LeasedStep /\ Kept(art)
      /\ {st, "implement_complete", "waiting_auto_merge", "addressing_review"} \subseteq Places \cap Outcomes
  BY Homes, FromPolls DEF HumanSteady, HumanReview, HumanPoll, HumanBehind, Polls, LeasedStep
<1>1. ASSUME PRTypeOK', Kept(art'),
             NEW s \in {st, "implement_complete", "waiting_auto_merge", "addressing_review"}, Return(s)
      PROVE  MInv' /\ GoodStep
  BY <1>0, <1>1, Ends
<1>2. NoPr => PRTypeOK'
  BY <1>0 DEF NoPr, PRTypeOK
<1>3. CASE HumanSteady \/ HumanReview
  <2>1. PRTypeOK' /\ Kept(art')
    BY <1>0, <1>2, <1>3 DEF HumanSteady, HumanReview, AddressReview
  <2>2. PICK s \in {st, "addressing_review"} : Return(s)
    BY <1>3 DEF HumanSteady, HumanReview, AddressReview
  <2> QED BY <1>1, <2>1, <2>2
<1>4. CASE HumanPoll
  <2>1. CASE seen = "dirty" /\ ParkedConflict
    BY <1>0, <2>1, ConflictStep
  <2>2. CASE NoPr /\ \E r \in {art.steady, art.steady \/ ci_truly_green} :
                       art' = [art EXCEPT !.rebase = 0, !.steady = r] /\ Return(st)
    <3>1. PICK r \in {art.steady, art.steady \/ ci_truly_green} :
                 art' = [art EXCEPT !.rebase = 0, !.steady = r] /\ Return(st)
      BY <2>2
    <3>2. r \in BOOLEAN
      BY <1>0 DEF Artifacts
    <3>3. Kept(art') /\ PRTypeOK'
      BY <1>0, <1>2, <2>2, <3>1, <3>2, RebaseKept, Limits
    <3> QED BY <1>1, <3>1, <3>3
  <2>3. CASE /\ NoPr /\ art' = [art EXCEPT !.rebase = 0]
             /\ Return("implement_complete") \/ Return("waiting_auto_merge") \/ ToMerge
    <3>1. Kept(art') /\ PRTypeOK'
      BY <1>0, <1>2, <2>3, RebaseKept, Limits
    <3>2. CASE ToMerge
      BY <1>0, <3>1, <3>2, Goes DEF ToMerge, Home, Labels
    <3> QED BY <1>1, <2>3, <3>1, <3>2
  <2> QED BY <1>4, <2>1, <2>2, <2>3 DEF HumanPoll
<1>5. CASE HumanBehind
  <2>1. PRTypeOK'
    BY <1>0, <1>2, <1>5, UpdateType DEF HumanBehind
  <2>2. Kept(art')
    <3>1. art' = [art EXCEPT !.rebase = 0, !.steady = FALSE] \/ art' = [art EXCEPT !.rebase = 0]
      BY <1>5 DEF HumanBehind
    <3> QED BY <1>0, <3>1, RebaseKept, Limits
  <2>3. PICK s \in {st, "implement_complete", "waiting_auto_merge"} : Return(s)
    BY <1>5 DEF HumanBehind
  <2> QED BY <1>1, <2>1, <2>2, <2>3
<1> QED BY <1>3, <1>4, <1>5

LEMMA WaitingStep == MInv /\ WaitingPoll => MInv' /\ GoodStep
<1> SUFFICES ASSUME MInv, WaitingPoll PROVE MInv' /\ GoodStep
  OBVIOUS
<1>0. /\ art \in Artifacts /\ PRTypeOK /\ hist' = hist /\ st = "waiting_auto_merge" /\ pc = "polled"
      /\ st \in Polls /\ st \in Working /\ ~LeasedStep /\ Kept(art)
      /\ {st, "implement_complete", "human_mr_approval", "addressing_review"} \subseteq Places \cap Outcomes
  BY Homes, FromPolls DEF WaitingPoll, Polls, LeasedStep
<1>1. ASSUME PRTypeOK', Kept(art'),
             NEW s \in {st, "implement_complete", "human_mr_approval", "addressing_review"}, Return(s)
      PROVE  MInv' /\ GoodStep
  BY <1>0, <1>1, Ends
<1>2. NoPr => PRTypeOK'
  BY <1>0 DEF NoPr, PRTypeOK
<1>3. CASE seen = "dirty" /\ ParkedConflict
  BY <1>0, <1>3, ConflictStep
<1>4. CASE /\ NoPr /\ UNCHANGED art
           /\ \/ Return(st) \/ Return("implement_complete") \/ Return("human_mr_approval")
              \/ Return("addressing_review")
  <2>1. PRTypeOK' /\ Kept(art')
    BY <1>0, <1>2, <1>4
  <2> QED BY <1>1, <1>4, <2>1
<1>5. CASE NoPr /\ UNCHANGED art /\ ToMerge
  <2>1. PRTypeOK' /\ Kept(art')
    BY <1>0, <1>2, <1>5
  <2> QED BY <1>0, <1>5, <2>1, Goes DEF ToMerge, Home, Labels
<1>6. CASE update_branch /\ Return(st) /\ art' = [art EXCEPT !.steady = FALSE]
  BY <1>0, <1>1, <1>6, UpdateType, FlagsKept
<1> QED BY <1>3, <1>4, <1>5, <1>6 DEF WaitingPoll, AddressReview

-----------------------------------------------------------------------------
(* REBASING and ADDRESSING_REVIEW: the reconcile, the local commits, the   *)
(* push under the lease.                                                   *)

\* A run that starts with a reconcile goes on with what it fetched.
LEMMA ReconcileStep ==
  ASSUME MInv, pc = "idle", hist' = hist, pr' = pr, NEW res \in {"SYNCED", "UNAVAILABLE"},
         NEW l \in {"rebase", "revise"}, st \in Home(l),
         reconcile_with_remote_pr(res), Reconciled(res, l), Kept(art')
  PROVE  MInv' /\ GoodStep
<1>1. PRTypeOK /\ pr \in PullRequestType /\ PRTypeOK'
  BY Homes, FetchType DEF PRTypeOK
<1>2. seen' = "SYNCED" /\ git'.foreign => git'.track # "current"
  BY <1>1, ReconcileFetches DEF Reconciled
<1>3. MInv'
  BY <1>1, <1>2, FetchedKeeps DEF Reconciled
<1> QED BY <1>3 DEF GoodStep, LegalStep, LeasedStep, Reconciled

LEMMA RunRebaseStep == MInv /\ RunRebase => MInv' /\ GoodStep
<1> SUFFICES ASSUME MInv, RunRebase PROVE MInv' /\ GoodStep
  OBVIOUS
<1>0. /\ art \in Artifacts /\ PRTypeOK /\ hist' = hist /\ pr' = pr /\ st = "rebasing" /\ pc = "idle"
      /\ st \in Working /\ ~LeasedStep /\ Kept(art) /\ Kept(ForNewHead(art))
      /\ {"implement_complete", "blocked"} \subseteq Places \cap Outcomes
  BY Homes, NewHeadKept, Table DEF RunRebase, LeasedStep, Working, Places, Outcomes
<1>1. CASE /\ art' = [art EXCEPT !.rebase = 0] \/ art' = art
           /\ Return("implement_complete") \/ Return("blocked")
           /\ UNCHANGED git
  <2>1. PRTypeOK' /\ Kept(art')
    BY <1>0, <1>1, RebaseKept, Limits DEF PRTypeOK
  <2> QED BY <1>0, <1>1, <2>1, Ends
<1>2. CASE \E res \in {"SYNCED", "UNAVAILABLE", "DIVERGED"} :
             /\ reconcile_with_remote_pr(res)
             /\ IF res = "DIVERGED" THEN Return("blocked") ELSE Reconciled(res, "rebase")
             /\ art' = IF git.foreign /\ ~git'.foreign THEN ForNewHead(art) ELSE art
  <2>1. PICK res \in {"SYNCED", "UNAVAILABLE", "DIVERGED"} :
             /\ reconcile_with_remote_pr(res)
             /\ IF res = "DIVERGED" THEN Return("blocked") ELSE Reconciled(res, "rebase")
             /\ art' = IF git.foreign /\ ~git'.foreign THEN ForNewHead(art) ELSE art
    BY <1>2
  <2>2. Kept(art')
    BY <1>0, <2>1
  <2>3. CASE res = "DIVERGED"
    <3>1. PRTypeOK'
      BY <1>0, <2>1, FetchType DEF PRTypeOK
    <3> QED BY <1>0, <2>1, <2>2, <2>3, <3>1, Ends
  <2>4. CASE res # "DIVERGED"
    <3>1. st \in Home("rebase")
      BY <1>0 DEF Home
    <3> QED BY <1>0, <2>1, <2>2, <2>4, <3>1, ReconcileStep
  <2> QED BY <2>3, <2>4
<1> QED BY <1>1, <1>2 DEF RunRebase

LEMMA RunRevisionStep == MInv /\ RunReviewRevision => MInv' /\ GoodStep
<1> SUFFICES ASSUME MInv, RunReviewRevision PROVE MInv' /\ GoodStep
  OBVIOUS
<1>0. /\ art \in Artifacts /\ PRTypeOK /\ hist' = hist /\ pr' = pr
      /\ st = "addressing_review" /\ pc = "idle"
      /\ st \in Working /\ ~LeasedStep /\ Kept(art) /\ Kept(ForNewHead(art))
      /\ {"human_mr_approval", "blocked"} \subseteq Places \cap Outcomes
  BY Homes, NewHeadKept, Table DEF RunReviewRevision, LeasedStep, Working, Places, Outcomes
<1>1. CASE (Return("human_mr_approval") \/ Return("blocked")) /\ UNCHANGED <<art, git>>
  <2>1. PRTypeOK' /\ Kept(art')
    BY <1>0, <1>1 DEF PRTypeOK
  <2> QED BY <1>0, <1>1, <2>1, Ends
<1>2. CASE /\ \E res \in {"SYNCED", "UNAVAILABLE", "DIVERGED"} :
                /\ reconcile_with_remote_pr(res)
                /\ IF res = "DIVERGED" THEN Return("blocked") ELSE Reconciled(res, "revise")
           /\ art' = IF git.foreign /\ ~git'.foreign THEN ForNewHead(art) ELSE art
  <2>1. PICK res \in {"SYNCED", "UNAVAILABLE", "DIVERGED"} :
             /\ reconcile_with_remote_pr(res)
             /\ IF res = "DIVERGED" THEN Return("blocked") ELSE Reconciled(res, "revise")
    BY <1>2
  <2>2. Kept(art')
    BY <1>0, <1>2
  <2>3. CASE res = "DIVERGED"
    <3>1. PRTypeOK'
      BY <1>0, <2>1, FetchType DEF PRTypeOK
    <3> QED BY <1>0, <2>1, <2>2, <2>3, <3>1, Ends
  <2>4. CASE res # "DIVERGED"
    <3>1. st \in Home("revise")
      BY <1>0 DEF Home
    <3> QED BY <1>0, <2>1, <2>2, <2>4, <3>1, ReconcileStep
  <2> QED BY <2>3, <2>4
<1> QED BY <1>1, <1>2 DEF RunReviewRevision

\* The clone gets commits; what was fetched is still true.
LEMMA LocalStep == MInv /\ (MechanicalRebase \/ ReviseAgent) => MInv' /\ GoodStep
<1> SUFFICES ASSUME MInv, MechanicalRebase \/ ReviseAgent PROVE MInv' /\ GoodStep
  OBVIOUS
<1>0. /\ art \in Artifacts /\ PRTypeOK /\ hist' = hist /\ pr' = pr /\ pc \in {"rebase", "revise"}
      /\ ~LeasedStep /\ Kept(art) /\ Kept([art EXCEPT !.refreshed = FALSE])
      /\ Rebased \in GitType /\ Rebased.foreign = git.foreign /\ Rebased.track = git.track
      /\ pc = "rebase" => st = "rebasing"
      /\ pc = "revise" => st = "addressing_review"
  BY Homes, FlagsKept, RebasedType DEF MechanicalRebase, ReviseAgent, LeasedStep
<1>1. /\ seen \in {"SYNCED", "UNAVAILABLE"}
      /\ seen = "SYNCED" /\ git.foreign => git.track # "current"
  BY <1>0 DEF MInv, Fetched
<1>2. ASSUME git' = Rebased, art' = [art EXCEPT !.refreshed = FALSE],
             NEW l \in {"leasepush", "revised"}, st \in Home(l), Goto(l)
      PROVE  MInv' /\ GoodStep
  <2>1. PRTypeOK' /\ Kept(art')
    BY <1>0, <1>2 DEF PRTypeOK
  <2>2. MInv'
    BY <1>0, <1>1, <1>2, <2>1, FetchedKeeps DEF Goto
  <2> QED BY <1>0, <1>2, <2>2 DEF GoodStep, LegalStep, LeasedStep, Goto
<1>3. ASSUME UNCHANGED <<git, art>>, NEW l \in {"agent", "norevision"}, st \in Home(l), Goto(l)
      PROVE  MInv' /\ GoodStep
  <2>1. PRTypeOK' /\ Kept(art')
    BY <1>0, <1>3 DEF PRTypeOK
  <2> QED BY <1>0, <1>3, <2>1, Goes DEF Labels
<1>4. CASE MechanicalRebase
  <2>1. st \in Home("leasepush") /\ st \in Home("agent")
    BY <1>0, <1>4 DEF Home, MechanicalRebase
  <2> QED BY <1>2, <1>3, <1>4, <2>1 DEF MechanicalRebase
<1>5. CASE ReviseAgent
  <2>1. st \in Home("revised") /\ st \in Home("norevision")
    BY <1>0, <1>5 DEF Home, ReviseAgent
  <2> QED BY <1>2, <1>3, <1>5, <2>1 DEF ReviseAgent
<1> QED BY <1>4, <1>5

\* The lease: a commit the reconcile could see is not overwritten.
LEMMA LeaseHolds ==
  ASSUME MInv, LeasedStep, push_with_lease(git)
  PROVE  Overwrites => seen = "UNAVAILABLE" \/ git.track = "absent"
<1>1. /\ seen \in {"SYNCED", "UNAVAILABLE"}
      /\ seen = "SYNCED" /\ git.foreign => git.track # "current"
  BY DEF MInv, Fetched, LeasedStep
<1>2. git.track \in {"absent", "current"}
  BY Homes DEF push_with_lease, GitType
<1> QED BY <1>1, <1>2 DEF Overwrites

LEMMA LeasePushStep == MInv /\ LeasePush => MInv' /\ GoodStep
<1> SUFFICES ASSUME MInv, LeasePush PROVE MInv' /\ GoodStep
  OBVIOUS
<1>0. /\ art \in Artifacts /\ PRTypeOK /\ git \in GitType /\ hist' = hist /\ pc = "leasepush"
      /\ st = "rebasing" /\ Kept(art) /\ Kept(ForNewHead(art)) /\ LeasedStep
  BY Homes, NewHeadKept DEF LeasePush, LeasedStep
<1>1. CASE push_with_lease(git) /\ art' = ForNewHead(art) /\ Goto("rebased")
  <2>1. PRTypeOK' /\ Kept(art')
    BY <1>0, <1>1, PushType
  <2>2. st \in Home("rebased")
    BY <1>0 DEF Home
  <2>3. MInv'
    BY <1>0, <1>1, <2>1, <2>2, GotoKeeps DEF Labels
  <2> QED BY <1>0, <1>1, <2>3, LeaseHolds DEF GoodStep, LegalStep, Goto
<1>2. CASE Goto("agent") /\ NoPr /\ UNCHANGED art
  <2>1. PRTypeOK' /\ Kept(art') /\ git' = git
    BY <1>0, <1>2 DEF NoPr, PRTypeOK
  <2>2. st \in Home("agent")
    BY <1>0 DEF Home
  <2> QED BY <1>0, <1>2, <2>1, <2>2, Goes DEF Labels
<1> QED BY <1>1, <1>2 DEF LeasePush

LEMMA RevisionPushStep == MInv /\ RevisionPush => MInv' /\ GoodStep
<1> SUFFICES ASSUME MInv, RevisionPush PROVE MInv' /\ GoodStep
  OBVIOUS
<1>0. /\ art \in Artifacts /\ PRTypeOK /\ git \in GitType /\ hist' = hist /\ pc = "revised"
      /\ st = "addressing_review" /\ st \in Working /\ LeasedStep
      /\ {"human_mr_approval", "blocked"} \subseteq Places \cap Outcomes
  BY Homes, Table DEF RevisionPush, LeasedStep, Working, Places, Outcomes
<1>1. CASE /\ push_with_lease(git)
           /\ art' = [ForNewHead(art) EXCEPT !.revision = 0]
           /\ Return("human_mr_approval")
  <2>1. PRTypeOK' /\ Kept(art')
    BY <1>0, <1>1, PushType, CountsKept, Limits
  <2>2. MInv'
    BY <1>0, <1>1, <2>1, ReturnKeeps
  <2>3. LegalStep /\ st' # "done"
    BY <1>0, <1>1, ReturnsLegally DEF Return
  <2> QED BY <1>0, <1>1, <2>2, <2>3, LeaseHolds DEF GoodStep
<1>2. CASE /\ art' = [art EXCEPT !.revision = Upto(@ + 1, ReviewRevisionMaxAttempts)]
           /\ Return("blocked") /\ NoPr
  <2>1. art.revision \in Below(ReviewRevisionMaxAttempts) /\ ReviewRevisionMaxAttempts \in Nat \ {0}
    BY <1>0, MergeConstants DEF Artifacts
  <2>2. PRTypeOK' /\ Kept(art') /\ git' = git
    BY <1>0, <1>2, <2>1, OneMore, CountsKept DEF NoPr, PRTypeOK
  <2> QED BY <1>0, <1>2, <2>2, Ends
<1> QED BY <1>1, <1>2 DEF RevisionPush

LEMMA RevisionFailureStep == MInv /\ RevisionFailure => MInv' /\ GoodStep
<1> SUFFICES ASSUME MInv, RevisionFailure PROVE MInv' /\ GoodStep
  OBVIOUS
<1>0. /\ art \in Artifacts /\ PRTypeOK' /\ hist' = hist /\ git' = git
      /\ st = "addressing_review" /\ st \in Working
      /\ {st, "blocked"} \subseteq Places \cap Outcomes
  BY Homes, FromPolls DEF RevisionFailure, NoPr, PRTypeOK, Working
<1>1. art.revision \in Below(ReviewRevisionMaxAttempts) /\ ReviewRevisionMaxAttempts \in Nat \ {0}
  BY <1>0, MergeConstants DEF Artifacts
<1>2. Kept(art')
  BY <1>0, <1>1, OneMore, CountsKept, Limits DEF RevisionFailure
<1>3. PICK s \in {st, "blocked"} : Return(s)
  BY <1>0 DEF RevisionFailure
<1> QED BY <1>0, <1>2, <1>3, Ends

LEMMA AgentStep == MInv /\ AgentRebase => MInv' /\ GoodStep
<1> SUFFICES ASSUME MInv, AgentRebase PROVE MInv' /\ GoodStep
  OBVIOUS
<1>0. /\ art \in Artifacts /\ PRTypeOK /\ git \in GitType /\ Rebased \in GitType
      /\ hist' = hist /\ pc = "agent" /\ st = "rebasing" /\ ~LeasedStep
  BY Homes, RebasedType DEF AgentRebase, LeasedStep
<1>1. PRTypeOK'
  BY <1>0, PushType DEF AgentRebase, PRTypeOK
<1>2. Kept(art')
  <2>1. art.refreshed \in BOOLEAN
    BY <1>0 DEF Artifacts
  <2>2. PICK r \in BOOLEAN : art' = ForNewHead(art) \/ art' = [art EXCEPT !.refreshed = r]
    BY <2>1 DEF AgentRebase
  <2> QED BY <1>0, <2>2, NewHeadKept, FlagsKept
<1>3. PICK l \in {"rebased", "norebase"} : Goto(l)
  BY DEF AgentRebase
<1>4. st \in Home(l)
  BY <1>0 DEF Home
<1> QED BY <1>0, <1>1, <1>2, <1>3, <1>4, Goes DEF Labels

LEMMA RebaseEndStep ==
  ASSUME MInv, RebaseLanded \/ RebaseNotLanded \/ RebaseFailure
  PROVE  MInv' /\ GoodStep
<1>0. /\ art \in Artifacts /\ PRTypeOK /\ hist' = hist /\ st = "rebasing"
      /\ st \in Working /\ ~LeasedStep /\ Kept(art)
      /\ {st, "implement_complete", "blocked", "ready", "waiting_auto_merge", "human_mr_approval"}
           \subseteq Places \cap Outcomes
  BY Homes, Table DEF RebaseLanded, RebaseNotLanded, RebaseFailure, LeasedStep, Working, Places, Outcomes
<1>1. PRTypeOK'
  BY <1>0, FetchType DEF RebaseLanded, RebaseNotLanded, RebaseFailure, NoPr, PRTypeOK
<1>2. art.rebase \in Below(RebaseMaxAttempts) /\ RebaseMaxAttempts \in Nat \ {0}
  BY <1>0, MergeConstants DEF Artifacts
<1>3. /\ 0 \in Below(RebaseMaxAttempts) /\ Upto(attempt, RebaseMaxAttempts) \in Below(RebaseMaxAttempts)
      /\ attempt < RebaseMaxAttempts => attempt \in Below(RebaseMaxAttempts)
  BY <1>2, OneMore, Limits DEF attempt
<1>4. Kept(art')
  <2>1. CASE RebaseLanded
    <3>1. \/ art' = [art EXCEPT !.rebase = 0]
          \/ art' = [[art EXCEPT !.rebase_from = FALSE] EXCEPT !.rebase = 0]
          \/ art' = [art EXCEPT !.rebase_from = FALSE]
          \/ /\ attempt < RebaseMaxAttempts
             /\ art' = [[art EXCEPT !.rebase_from = FALSE] EXCEPT !.rebase = attempt]
      BY <2>1 DEF RebaseLanded
    <3> QED BY <1>0, <1>3, <3>1, RebaseKept
  <2>2. CASE RebaseNotLanded
    BY <1>0, <1>3, <2>2, RebaseKept DEF RebaseNotLanded
  <2>3. CASE RebaseFailure
    BY <1>0, <1>3, <2>3, RebaseKept DEF RebaseFailure
  <2> QED BY <2>1, <2>2, <2>3
<1>5. PICK s \in {st, "implement_complete", "blocked", "ready", "waiting_auto_merge", "human_mr_approval"} :
        Return(s)
  <2>1. CASE RebaseLanded
    BY <2>1 DEF RebaseLanded
  <2>2. CASE RebaseNotLanded
    BY <2>2 DEF RebaseNotLanded
  <2>3. CASE RebaseFailure
    BY <1>0, <2>3 DEF RebaseFailure
  <2> QED BY <2>1, <2>2, <2>3
<1> QED BY <1>0, <1>1, <1>4, <1>5, Ends

-----------------------------------------------------------------------------
(* The surroundings. *)

LEMMA CiFixStep == MInv /\ CiFixRuns => MInv' /\ GoodStep
<1> SUFFICES ASSUME MInv, CiFixRuns PROVE MInv' /\ GoodStep
  OBVIOUS
<1>0. /\ art \in Artifacts /\ PRTypeOK /\ git \in GitType /\ Rebased \in GitType
      /\ hist' = hist /\ st = "fixing_ci" /\ pc = "idle" /\ st \in Working /\ ~LeasedStep
      /\ {"implement_complete", "rebasing", "blocked"} \subseteq Places \cap Outcomes
  BY Homes, RebasedType, Table DEF CiFixRuns, LeasedStep, Working, Places, Outcomes
<1>1. PRTypeOK'
  BY <1>0, PushType DEF CiFixRuns, NoPr, PRTypeOK
<1>2. Kept(art')
  BY <1>0, NewHeadKept DEF CiFixRuns
<1>3. PICK s \in {"implement_complete", "rebasing", "blocked"} : Return(s)
  BY DEF CiFixRuns
<1> QED BY <1>0, <1>1, <1>2, <1>3, Ends

\* An operator goes back to where the ticket was blocked, with a fresh count.
LEMMA ResumeStep == MInv /\ Resume => MInv' /\ GoodStep
<1> SUFFICES ASSUME MInv, Resume PROVE MInv' /\ GoodStep
  OBVIOUS
<1>1. /\ st = "blocked" /\ pc = "idle" /\ pc' = pc /\ seen' = seen /\ pr' = pr /\ git' = git /\ art' = art
      /\ st' = from /\ from' = None /\ from \in Working
      /\ hist \in History /\ hist' = [hist EXCEPT !.fixes = 0]
  BY Homes DEF Resume, MInv, Origin
<1>2. hist' \in History /\ hist'.fixes = 0 /\ hist'.heals = hist.heals
  BY <1>1 DEF History
<1>3. Typed' /\ AtHome' /\ Origin'
  BY <1>1, <1>2 DEF MInv, Typed, PRTypeOK, AtHome, Origin, Home, Labels, Working, Places
<1>4. Counted'
  <2>1. art.cycles \in Nat /\ AutoFixMaxCycles \in Nat
    BY Homes, MergeConstants DEF Artifacts
  <2> QED BY <1>1, <1>2, <2>1 DEF Counted
<1>5. Marked' /\ Merged' /\ Fetched'
  BY <1>1, <1>2 DEF MInv, Marked, Merged, Fetched
<1>6. LegalStep /\ st' # "done"
  BY <1>1 DEF LegalStep, can_transition, Working
<1> QED BY <1>1, <1>3, <1>4, <1>5, <1>6 DEF MInv, GoodStep, LeasedStep

\* A step beside the run: the run stays or is cut off, a merged request stays
\* merged, and a commit that appears is not on the tracking ref.
LEMMA BesideStep ==
  ASSUME MInv, SteadyExpires \/ Crash \/ Outside \/ UNCHANGED mvars
  PROVE  MInv' /\ GoodStep
<1>0. /\ art \in Artifacts /\ PRTypeOK /\ hist' = hist /\ st' = st /\ from' = from /\ Kept(art)
      /\ Kept([art EXCEPT !.steady = FALSE])
  BY Homes, FlagsKept DEF SteadyExpires, Crash, Outside, mvars
<1>1. /\ PRTypeOK' /\ (pr.state = "merged" => pr'.state = "merged")
      /\ git' = git \/ git'.track # "current"
      /\ ~Overwrites
  <2>1. CASE Outside
    <3>1. HumanPushes \/ HumanReviews \/ HumanMerges \/ HumanCloses \/ HumanReopens \/ Forge
      BY <2>1 DEF Outside
    <3>2. git' = git \/ (git \in GitType /\ git' = [git EXCEPT !.foreign = TRUE,
                        !.track = IF @ = "absent" THEN "absent" ELSE "stale"])
      BY <3>1, Homes DEF HumanPushes, HumanReviews, HumanMerges, HumanCloses, HumanReopens, Forge, CiReports, CiRestarts
    <3>3. ~Overwrites
      BY <3>2 DEF Overwrites, GitType
    <3> QED BY <1>0, <3>1, <3>3, OutsideType
  <2>2. CASE SteadyExpires \/ Crash \/ UNCHANGED mvars
    BY <1>0, <2>2 DEF SteadyExpires, Crash, mvars, PRTypeOK, Overwrites
  <2> QED BY <2>1, <2>2
<1>2. Kept(art')
  BY <1>0 DEF SteadyExpires, Crash, Outside, mvars
<1>3. (pc' = pc /\ seen' = seen) \/ (pc' = "idle" /\ seen' = "unknown")
  BY DEF SteadyExpires, Crash, Outside, mvars
<1>4. Typed' /\ AtHome' /\ Origin'
  <2>1. st \in Home("idle")
    <3>1. st \in Home(pc) /\ Working \subseteq Places
      BY DEF MInv, AtHome, Labels, Working, Places
    <3>2. pc = "idle" \/ st \in Working
      BY Homes
    <3> QED BY <3>1, <3>2 DEF Home
  <2> QED BY <1>0, <1>1, <1>2, <1>3, <2>1 DEF MInv, Typed, AtHome, Origin, Labels, MergeableState, Kept
<1>5. Counted' /\ Marked'
  BY <1>0, <1>2, <1>3 DEF MInv, Counted, Marked, Kept
<1>6. Merged' /\ Fetched'
  BY <1>1, <1>3 DEF MInv, Merged, Fetched
<1> QED BY <1>0, <1>1, <1>4, <1>5, <1>6 DEF MInv, GoodStep, LegalStep

-----------------------------------------------------------------------------

LEMMA InitMInv == MInit => MInv
<1> SUFFICES ASSUME MInit PROVE MInv
  OBVIOUS
<1>1. PRTypeOK
  BY RequestType DEF MInit, PRInit, PRTypeOK, GitType
<1>2. art \in Artifacts /\ hist \in History
  BY Limits DEF MInit, Artifacts, History
<1>3. Typed /\ AtHome /\ Origin
  BY <1>1, <1>2 DEF MInit, Typed, MergeableState, AtHome, Origin, Home, Labels, Places, Working
<1>4. Counted
  BY <1>2, MergeConstants DEF MInit, Counted
<1>5. Marked /\ Merged /\ Fetched
  BY DEF MInit, Marked, Merged, Fetched
<1> QED BY <1>3, <1>4, <1>5 DEF MInv

LEMMA StepMInv == MInv /\ [MNext]_mvars => MInv' /\ GoodStep
<1> SUFFICES ASSUME MInv, [MNext]_mvars PROVE MInv' /\ GoodStep
  OBVIOUS
<1>1. CASE Poll
  BY <1>1, BaselineStep, GateCheckStep, RefreshStep, CiFailureStep, PromoteStep, GateWaitsStep,
     EmptyRollupStep, HealStep, UnpromotableStep, MergePrStep, VerifyStep, RejectedStep,
     HumanStep, WaitingStep DEF Poll
<1>2. CASE Rebase
  BY <1>2, RunRebaseStep, LocalStep, LeasePushStep, AgentStep, RebaseEndStep DEF Rebase
<1>3. CASE Revise
  BY <1>3, RunRevisionStep, LocalStep, RevisionPushStep, RevisionFailureStep DEF Revise
<1>4. CASE PollFails \/ CiFixRuns \/ Resume
  BY <1>4, BaselineStep, CiFixStep, ResumeStep
<1>5. CASE SteadyExpires \/ Crash \/ Outside \/ UNCHANGED mvars
  BY <1>5, BesideStep
<1> QED BY <1>1, <1>2, <1>3, <1>4, <1>5 DEF MNext, MStage

(***************************************************************************)
(* The inductive invariant of the merge stage (stages/merge/).             *)
(***************************************************************************)
THEOREM MergeInvariant == MSpec => []MInv
<1>1. MInv /\ [MNext]_mvars => MInv'
  BY StepMInv
<1> QED BY <1>1, InitMInv, PTL DEF MSpec

(***************************************************************************)
(* CI is sent to repair at most auto_fix_max_cycles times between two      *)
(* green checks or decisions of an operator, and the stage closes and      *)
(* reopens a silent request once in the ticket's life (ci_poll.py), for    *)
(* any limits, however often the process dies between the counter or the   *)
(* marker and what they stand for.                                         *)
(***************************************************************************)
THEOREM RepairsStayBounded == MSpec => []RepairsAreBounded
<1>1. MInv => RepairsAreBounded
  <2> SUFFICES ASSUME MInv PROVE RepairsAreBounded
    OBVIOUS
  <2>1. MTypeOK
    BY TypeFollows
  <2>2. FixCyclesBounded
    BY DEF MInv, Counted, FixCyclesBounded
  <2>3. HealsOnce
    BY DEF MInv, Marked, HealsOnce
  <2> QED BY <2>1, <2>2, <2>3 DEF RepairsAreBounded
<1> QED BY <1>1, MergeInvariant, PTL

(***************************************************************************)
(* DONE is reported only for a request that was merged, or closed with     *)
(* nothing in it, and no outcome of the stage is one that the service      *)
(* refuses (pr_baseline.py, auto_merge_gate.py, rebase.py).                *)
(***************************************************************************)
THEOREM OutcomesAlwaysHold == MSpec => OutcomesHold
<1>1. MInv /\ [MNext]_mvars => [st' = "done" /\ st # "done" => pr.state \in {"merged", "satisfied"}]_mvars
  BY StepMInv DEF GoodStep
<1>2. MInv /\ [MNext]_mvars => [st' = st \/ can_transition(st, st', from, None)]_mvars
  BY StepMInv DEF GoodStep, LegalStep
<1>3. MSpec => DoneIsDelivered
  BY <1>1, MergeInvariant, PTL DEF MSpec, DoneIsDelivered
<1>4. MSpec => OutcomesAreLegal
  BY <1>2, MergeInvariant, PTL DEF MSpec, OutcomesAreLegal
<1> QED BY <1>3, <1>4 DEF OutcomesHold

(***************************************************************************)
(* reconcile_with_remote_pr before push_with_lease (git_ops.py): a push    *)
(* whose reconcile could fetch overwrites no commit of a person, whenever  *)
(* that person pushes.                                                     *)
(***************************************************************************)
THEOREM ReconciledPushKeepsForeign == MSpec => ReconciledKeepsForeign
<1>1. MInv /\ [MNext]_mvars
        => [LeasedStep /\ Overwrites => seen = "UNAVAILABLE" \/ git.track = "absent"]_mvars
  BY StepMInv DEF GoodStep
<1> QED BY <1>1, MergeInvariant, PTL DEF MSpec, ReconciledKeepsForeign

-----------------------------------------------------------------------------
(* The review stage.  VerdictsAreSound needs what the cache and a run hold: *)
(* that what either sends on was passed (PassedOnly), that a request not    *)
(* counted in the rounds is one of a crash (RequestsCounted), that rounds   *)
(* beyond the limit are of an answer (RoundsHeld), where an ask out of      *)
(* scope is until it is filed (AsksHeld), and what became of a person's     *)
(* answer (AnswerHeld).                                                     *)

CacheRec == [diff : Diffs, rounds : Nat, dst : {"READY", "DOCUMENTING"}, old : BOOLEAN]
Verdicts == {"none", "APPROVE", "ASK_USER", "REQUEST_CHANGES"}
LookRec == [pc : VSteps, rounds : Nat, verdict : Verdicts, asks : SUBSET Asks, out : SUBSET Asks,
            met : SUBSET Asks, done : SUBSET Asks, dst : VStates]

VTypes ==
  /\ rev \in [st : VStates, rounds : Nat] /\ tip \in AllDiffs
  /\ vdisk \in [cache : CacheRec \cup {NoEntry}, found : (SUBSET Asks) \cup {NoFindings}, ask : AllDiffs \cup {"none"}]
  /\ quest \in [last : {"none", "open", "change", "fine"}, replied : BOOLEAN]
  /\ look \in LookRec /\ filed \in [Asks -> 0..2]
  /\ vhist \in [crashes : 0..MaxCrashes, ops : 0..MaxOps, requests : Nat, due : BOOLEAN, passed : SUBSET AllDiffs]

\* A run is of a ticket in review; past its start it has a diff, and has used up
\* the record of the one asked about.
Judging == {"kick", "cache", "agent", "shas", "floors", "verdict"}
Splitting == {"converge", "split", "spawn", "settle"}

InReview ==
  /\ look.pc # "idle" => rev.st = "CODE_REVIEW"
  /\ look.pc \notin {"idle", "return"} => tip # "empty"
  /\ look.pc \in Judging \cup Splitting => vdisk.ask = "none"
  /\ look.pc \in Judging \cup {"answer"} => look.rounds = rev.rounds
  /\ look.pc \notin {"idle", "return"} => look.dst = "CODE_REVIEW"
  /\ look.pc = "return" => look.dst # "CODE_REVIEW"
  /\ look.pc = "record" => quest.last = "open"
  /\ look.out \subseteq look.asks /\ (look.pc \notin {"spawn", "settle", "return"} => look.out = {})

\* Rounds grow beyond the limit only by an answer, and by each only once.
Highest == RoundLimit - 1 + vhist.ops
KickToCome == look.pc = "kick" \/ (vdisk.ask # "none" /\ quest.last = "change")
RoundsHeld ==
  /\ rev.rounds <= Highest /\ look.rounds <= Highest
  /\ KickToCome => rev.rounds < Highest
  /\ vdisk.cache # NoEntry => vdisk.cache.rounds <= Highest

\* A request that is not one of the rounds is one of a crash that lost a reset.
Ending == look.pc = "record" \/ (look.pc = "return" /\ look.dst # "READY")
Lost == RoundLimit * vhist.crashes
RequestsCounted ==
  /\ vhist.requests <= Lost + RoundLimit
  /\ (rev.st \in {"CODE_REVIEW", "READY"} /\ ~Ending) =>
       vhist.requests <= Lost + rev.rounds /\ vhist.requests < Lost + RoundLimit

\* What the cache, or the run, sends on has passed.
PassedOnly ==
  /\ "empty" \in vhist.passed
  /\ vdisk.cache # NoEntry /\ vdisk.cache.dst = "DOCUMENTING" => vdisk.cache.diff \in vhist.passed
  /\ look.pc = "return" /\ look.dst = "DOCUMENTING" => tip \in vhist.passed

\* Where an ask out of scope is.
AsksHeld ==
  /\ look.pc \notin {"spawn", "settle", "return"} => look.done = {}
  /\ look.pc \in {"spawn", "settle"} =>
       /\ \A a \in look.asks : in_scope(a) \/ a \in look.out \/ a \in look.met
       /\ look.done \subseteq look.out /\ \A a \in look.done : filed[a] > 0
  /\ look.pc = "settle" => look.out = look.done

\* An answer that asks for a change, until implement has it.
AnswerHeld ==
  vhist.crashes = 0 =>
    /\ rev.st = "AWAITING_USER_REPLY" \/ (look.pc = "return" /\ look.dst = "AWAITING_USER_REPLY") =>
         vdisk.ask = tip /\ tip # "empty"
    /\ vhist.due =>
         /\ rev.st \in {"CODE_REVIEW", "BLOCKED"} /\ quest.last = "change"
         /\ \/ look.pc \in {"idle", "answer"} /\ vdisk.ask = tip /\ tip # "empty"
            \/ look.pc = "kick"
            \/ look.pc = "return" /\ look.dst = "READY"
            \/ look.pc = "return" /\ look.dst = "BLOCKED" /\ vdisk.ask = tip /\ tip # "empty"

VInv == VTypes /\ InReview /\ RoundsHeld /\ RequestsCounted /\ PassedOnly /\ AsksHeld /\ AnswerHeld

LEMMA ReviewNumbers == MaxRounds \in Nat /\ MaxCrashes \in Nat /\ MaxOps \in Nat /\ RoundLimit \in Nat /\ RoundLimit >= 1
                       /\ (\A n \in Nat : ~AtCap(n + 1) => n + 1 < RoundLimit)
                       /\ "none" \notin AllDiffs
  BY ReviewConstants DEF RoundLimit, AtCap, AllDiffs

LEMMA VTypedInit == VInit => VInv
<1> SUFFICES ASSUME VInit PROVE VInv
  OBVIOUS
<1> USE ReviewNumbers
<1>1. NoLook \in LookRec /\ NoLook.pc = "idle" /\ NoLook.rounds = 0 /\ NoLook.done = {} /\ NoLook.out = {}
  BY DEF NoLook, LookRec, VSteps, VStates, Verdicts
<1>2. VTypes
  <2>1. vdisk \in [cache : CacheRec \cup {NoEntry}, found : (SUBSET Asks) \cup {NoFindings}, ask : AllDiffs \cup {"none"}]
    BY DEF VInit
  <2>2. filed \in [Asks -> 0..2] /\ look \in LookRec
    BY <1>1 DEF VInit
  <2>3. vhist \in [crashes : 0..MaxCrashes, ops : 0..MaxOps, requests : Nat, due : BOOLEAN, passed : SUBSET AllDiffs]
    BY DEF VInit, AllDiffs
  <2> QED
    BY <2>1, <2>2, <2>3 DEF VTypes, VInit, VStates, AllDiffs
<1>3. InReview /\ AsksHeld /\ PassedOnly /\ AnswerHeld
  BY <1>1 DEF VInit, InReview, AsksHeld, PassedOnly, AnswerHeld, Judging, Splitting
<1>4. RoundsHeld
  BY <1>1 DEF VInit, RoundsHeld, Highest, KickToCome
<1>5. RequestsCounted
  BY <1>1 DEF VInit, RequestsCounted, Lost, Ending
<1> QED
  BY <1>2, <1>3, <1>4, <1>5 DEF VInv

\* Every step is of one of the handlers below.
LEMMA ReviewSteps ==
    [VNext]_vvars <=>
      \/ ResolveDiff \/ ChangeAnswer \/ KickBack \/ CheckCache \/ Reviewer \/ ValidateShas \/ EnforceFloors
      \/ ApproveDiff \/ AskOperator \/ RecordAskDiff \/ CountRound \/ DetectConvergence \/ SplitAsks
      \/ SpawnFollowUp \/ Settle \/ VReturn \/ VCrash \/ ImplementAgain \/ OperatorAnswers \/ OperatorResumes
      \/ UNCHANGED vvars
  BY DEF VNext, VStage

LEMMA CacheTyped ==
    ASSUME VTypes, tip # "empty"
    PROVE  /\ Aged \in [cache : CacheRec \cup {NoEntry}, found : (SUBSET Asks) \cup {NoFindings}, ask : AllDiffs \cup {"none"}]
           /\ Aged.ask = vdisk.ask /\ Aged.found = vdisk.found
           /\ Aged.cache # NoEntry => /\ vdisk.cache # NoEntry /\ Aged.cache.rounds = vdisk.cache.rounds
                                      /\ Aged.cache.dst = vdisk.cache.dst /\ Aged.cache.diff = vdisk.cache.diff
<1>1. CASE vdisk.cache = NoEntry
  BY <1>1 DEF Aged, VTypes
<1>2. CASE vdisk.cache # NoEntry
  <2>1. vdisk.cache \in CacheRec
    BY <1>2 DEF VTypes
  <2> DEFINE c == [vdisk.cache EXCEPT !.old = TRUE]
  <2>2. c \in CacheRec /\ c.rounds = vdisk.cache.rounds /\ c.dst = vdisk.cache.dst /\ c.diff = vdisk.cache.diff
    BY <2>1 DEF CacheRec
  <2>3. Aged = [vdisk EXCEPT !.cache = c]
    BY <1>2 DEF Aged
  <2> HIDE DEF c
  <2> QED
    BY <1>2, <2>2, <2>3 DEF VTypes
<1> QED
  BY <1>1, <1>2

LEMMA EntryTyped ==
    ASSUME VTypes, tip # "empty", NEW d \in {"READY", "DOCUMENTING"}, Cache(d)
    PROVE  /\ vdisk' \in [cache : CacheRec \cup {NoEntry}, found : (SUBSET Asks) \cup {NoFindings}, ask : AllDiffs \cup {"none"}]
           /\ vdisk'.ask = vdisk.ask /\ vdisk'.cache.rounds = look.rounds /\ vdisk'.cache.dst = d
           /\ vdisk'.cache.diff = tip
<1> DEFINE c == [diff |-> tip, rounds |-> look.rounds, dst |-> d, old |-> FALSE]
<1>1. c \in CacheRec /\ c.rounds = look.rounds /\ c.dst = d /\ c.diff = tip
  BY DEF CacheRec, VTypes, AllDiffs, LookRec
<1>2. vdisk' = [vdisk EXCEPT !.cache = c]
  BY DEF Cache
<1> HIDE DEF c
<1> QED
  BY <1>1, <1>2 DEF VTypes

LEMMA LookTo == ASSUME VTypes, NEW l \in VSteps, VTo(l) PROVE look' \in LookRec
  BY DEF VTypes, LookRec, VTo

LEMMA LookConcludes == ASSUME VTypes, NEW d \in VStates, Concludes(d) PROVE look' \in LookRec
  BY DEF VTypes, LookRec, Concludes, VSteps

LEMMA LookForces == ASSUME VTypes, NEW l \in VSteps, Forces(l) PROVE look' \in LookRec
<1>1. PICK a \in Asks : look' = [look EXCEPT !.pc = l, !.verdict = "REQUEST_CHANGES", !.asks = @ \cup {a}]
  BY DEF Forces
<1> DEFINE s == look.asks \cup {a}
<1>2. s \in SUBSET Asks
  BY DEF VTypes, LookRec
<1>3. look' = [look EXCEPT !.pc = l, !.verdict = "REQUEST_CHANGES", !.asks = s]
  BY <1>1
<1> HIDE DEF s
<1> QED
  BY <1>2, <1>3 DEF VTypes, LookRec, Verdicts

LEMMA LookTyped == ASSUME VTypes, VInv, [VNext]_vvars PROVE look' \in LookRec
<1> USE DEF VSteps, VStates
<1>1. NoLook \in LookRec
  BY DEF NoLook, LookRec, Verdicts
<1>2. CASE ResolveDiff
  <2>1. CASE look' = [NoLook EXCEPT !.pc = "return", !.dst = "BLOCKED"]
    BY <1>1, <2>1 DEF LookRec
  <2>2. ASSUME NEW l \in VSteps, NEW d \in VStates, look' = [NoLook EXCEPT !.pc = l, !.rounds = rev.rounds, !.dst = d]
        PROVE  look' \in LookRec
    BY <1>1, <2>2 DEF LookRec, VTypes
  <2>3. CASE tip = "empty" /\ look' = [NoLook EXCEPT !.pc = "return", !.rounds = rev.rounds, !.dst = "DOCUMENTING"]
    BY <2>2, <2>3
  <2>4. CASE tip # "empty" /\ look' = [NoLook EXCEPT !.pc = "answer", !.rounds = rev.rounds, !.dst = "CODE_REVIEW"]
    BY <2>2, <2>4
  <2> QED
    BY <1>2, <2>1, <2>3, <2>4 DEF ResolveDiff
<1>3. CASE ChangeAnswer
  <2>1. PICK l \in {"kick", "cache"} : VTo(l)
    BY <1>3 DEF ChangeAnswer
  <2> QED
    BY <2>1, LookTo
<1>4. CASE KickBack \/ ApproveDiff \/ RecordAskDiff
  BY <1>4, LookConcludes DEF KickBack, ApproveDiff, RecordAskDiff
<1>5. CASE AskOperator
  BY <1>5, LookTo DEF AskOperator
<1>6. CASE CountRound
  <2>1. VTo("converge") \/ VTo("record") \/ Concludes("DOCUMENTING")
    BY <1>6 DEF CountRound, PauseForDirectives
  <2> QED
    BY <2>1, LookTo, LookConcludes
<1>7. CASE DetectConvergence
  <2>1. VTo("split") \/ Concludes("BLOCKED")
    BY <1>7 DEF DetectConvergence
  <2> QED
    BY <2>1, LookTo, LookConcludes
<1>8. CASE CheckCache
  <2>1. vdisk.cache # NoEntry => vdisk.cache.dst \in {"READY", "DOCUMENTING"}
    BY DEF CacheRec, VTypes
  <2>2. (vdisk.cache # NoEntry /\ Concludes(vdisk.cache.dst)) \/ VTo("agent")
    BY <1>8 DEF CheckCache
  <2> QED
    BY <2>1, <2>2, LookTo, LookConcludes
<1>9. CASE Reviewer
  <2>1. CASE Concludes("BLOCKED")
    BY <2>1, LookConcludes
  <2>2. ASSUME NEW v \in {"APPROVE", "ASK_USER", "REQUEST_CHANGES"}, NEW S \in SUBSET Asks,
               look' = [look EXCEPT !.pc = "shas", !.verdict = v, !.asks = S]
        PROVE  look' \in LookRec
    BY <2>2 DEF VTypes, LookRec, Verdicts
  <2> QED
    BY <1>9, <2>1, <2>2 DEF Reviewer
<1>10. CASE ValidateShas \/ EnforceFloors
  <2>1. PICK l \in {"floors", "verdict"} : Forces(l) \/ VTo(l)
    BY <1>10 DEF ValidateShas, EnforceFloors
  <2> QED
    BY <2>1, LookTo, LookForces
<1>11. CASE SplitAsks
  <2>1. PICK met \in SUBSET Asks, out \in SUBSET Asks :
            look' = [look EXCEPT !.pc = "spawn", !.out = out, !.met = met]
    <3> DEFINE w == {a \in look.asks : ~in_scope(a)}
    <3>1. PICK met \in SUBSET {a \in w : addressed(a)} :
              look' = [look EXCEPT !.pc = "spawn", !.out = StillOut(w, met), !.met = met]
      BY <1>11 DEF SplitAsks
    <3>2. StillOut(w, met) \in SUBSET Asks /\ met \in SUBSET Asks
      BY DEF StillOut, VTypes, LookRec
    <3> QED
      BY <3>1, <3>2
  <2> QED
    BY <2>1 DEF VTypes, LookRec
<1>12. CASE SpawnFollowUp
  <2>1. VTo("settle") \/ \E a \in look.out : look' = [look EXCEPT !.done = @ \cup {a}]
    BY <1>12 DEF SpawnFollowUp
  <2>2. ASSUME NEW a \in look.out, look' = [look EXCEPT !.done = @ \cup {a}] PROVE look' \in LookRec
    BY <2>2 DEF VTypes, LookRec
  <2> QED
    BY <2>1, <2>2, LookTo
<1>13. CASE Settle
  <2>1. Concludes("DOCUMENTING") \/ Concludes("READY")
    BY <1>13 DEF Settle
  <2> QED
    BY <2>1, LookConcludes
<1>14. CASE VReturn \/ VCrash
  BY <1>1, <1>14 DEF VReturn, VCrash
<1>15. CASE ImplementAgain \/ OperatorAnswers \/ OperatorResumes \/ UNCHANGED vvars
  BY <1>15 DEF ImplementAgain, OperatorAnswers, OperatorResumes, vvars, VTypes
<1> QED
  BY <1>2, <1>3, <1>4, <1>5, <1>6, <1>7, <1>8, <1>9, <1>10, <1>11, <1>12, <1>13, <1>14, <1>15, ReviewSteps

LEMMA DiskTyped ==
    ASSUME VTypes, VInv, [VNext]_vvars
    PROVE  /\ vdisk' \in [cache : CacheRec \cup {NoEntry}, found : (SUBSET Asks) \cup {NoFindings}, ask : AllDiffs \cup {"none"}]
           /\ quest' \in [last : {"none", "open", "change", "fine"}, replied : BOOLEAN]
<1>1. CASE UNCHANGED vdisk /\ UNCHANGED quest
  BY <1>1 DEF VTypes
<1>2. CASE ResolveDiff \/ KickBack \/ CheckCache \/ Reviewer \/ ValidateShas \/ EnforceFloors \/ SplitAsks
           \/ SpawnFollowUp \/ VReturn \/ VCrash \/ ImplementAgain \/ OperatorResumes \/ UNCHANGED vvars
  <2>1. UNCHANGED <<vdisk, quest>>
    BY <1>2, Zenon DEF ResolveDiff, KickBack, CheckCache, Reviewer, ValidateShas, EnforceFloors, SplitAsks,
           SpawnFollowUp, VReturn, VCrash, ImplementAgain, OperatorResumes, vvars
  <2> QED
    BY <1>1, <2>1
<1>3. CASE ChangeAnswer \/ RecordAskDiff
  BY <1>3 DEF ChangeAnswer, RecordAskDiff, VTypes
<1>4. CASE ApproveDiff \/ Settle
  <2>1. tip # "empty" /\ UNCHANGED quest
    BY <1>4 DEF ApproveDiff, Settle, VInv, InReview, VAt
  <2>2. PICK d \in {"READY", "DOCUMENTING"} : Cache(d)
    BY <1>4 DEF ApproveDiff, Settle
  <2> QED
    BY <2>1, <2>2, EntryTyped DEF VTypes
<1>5. CASE AskOperator
  BY <1>5 DEF AskOperator, VTypes
<1>6. CASE CountRound
  <2>1. tip # "empty"
    BY <1>6 DEF CountRound, VInv, InReview, VAt
  <2>2. \/ vdisk' = Aged /\ UNCHANGED quest
        \/ vdisk' = Aged /\ quest' = [quest EXCEPT !.last = "open"]
        \/ Cache("DOCUMENTING") /\ UNCHANGED quest
    BY <1>6 DEF CountRound, PauseForDirectives
  <2> QED
    BY <2>1, <2>2, EntryTyped, CacheTyped DEF VTypes
<1>7. CASE DetectConvergence
  BY <1>7 DEF DetectConvergence, VTypes, LookRec
<1>8. CASE OperatorAnswers
  BY <1>8 DEF OperatorAnswers, VTypes
<1> QED
  BY <1>2, <1>3, <1>4, <1>5, <1>6, <1>7, <1>8, ReviewSteps

HistRec == [crashes : 0..MaxCrashes, ops : 0..MaxOps, requests : Nat, due : BOOLEAN, passed : SUBSET AllDiffs]

LEMMA HistTyped ==
    ASSUME vhist \in HistRec, NEW o \in 0..MaxOps, NEW r \in Nat, NEW d \in BOOLEAN, NEW q \in SUBSET AllDiffs,
           NEW c \in 0..MaxCrashes
    PROVE  /\ [vhist EXCEPT !.requests = r, !.passed = q] \in HistRec
           /\ [vhist EXCEPT !.ops = o, !.requests = r, !.due = d] \in HistRec
           /\ [vhist EXCEPT !.ops = o, !.requests = r] \in HistRec
           /\ [vhist EXCEPT !.due = d] \in HistRec
           /\ [vhist EXCEPT !.crashes = c] \in HistRec
           /\ [vhist EXCEPT !.passed = q] \in HistRec
  BY DEF HistRec

LEMMA RestTyped ==
    ASSUME VTypes, VInv, [VNext]_vvars
    PROVE  rev' \in [st : VStates, rounds : Nat] /\ tip' \in AllDiffs /\ filed' \in [Asks -> 0..2]
<1> USE ReviewNumbers
<1> USE DEF VTypes, VStates
<1>1. CASE ResolveDiff \/ ChangeAnswer \/ CheckCache \/ Reviewer \/ ValidateShas \/ EnforceFloors \/ AskOperator
           \/ RecordAskDiff \/ SplitAsks \/ VCrash \/ UNCHANGED vvars
  BY <1>1 DEF ResolveDiff, ChangeAnswer, CheckCache, Reviewer, ValidateShas, EnforceFloors, AskOperator,
           RecordAskDiff, SplitAsks, VCrash, vvars
<1>2. CASE KickBack \/ DetectConvergence \/ ApproveDiff \/ Settle \/ CountRound
  <2>1. UNCHANGED rev \/ \E n \in Nat : SetRounds(n)
    BY <1>2 DEF KickBack, DetectConvergence, ApproveDiff, Settle, CountRound, PauseForDirectives, LookRec
  <2>2. rev' \in [st : VStates, rounds : Nat]
    BY <2>1 DEF SetRounds
  <2>3. UNCHANGED <<tip, filed>>
    BY <1>2 DEF KickBack, DetectConvergence, ApproveDiff, Settle, CountRound
  <2> QED
    BY <2>2, <2>3
<1>3. CASE SpawnFollowUp
  <2>1. UNCHANGED <<rev, tip, vhist>>
    BY <1>3 DEF SpawnFollowUp
  <2>2. UNCHANGED filed \/ \E a \in Asks : filed' = [filed EXCEPT ![a] = IF @ = 2 THEN 2 ELSE @ + 1]
    BY <1>3 DEF SpawnFollowUp, LookRec
  <2> QED
    BY <2>1, <2>2
<1>4. CASE VReturn \/ ImplementAgain \/ OperatorAnswers \/ OperatorResumes
  <2>1. \E d \in VStates : rev' = [rev EXCEPT !.st = d]
    BY <1>4 DEF VReturn, ImplementAgain, OperatorAnswers, OperatorResumes, LookRec
  <2>2. rev' \in [st : VStates, rounds : Nat]
    BY <2>1
  <2>3. tip' \in AllDiffs /\ UNCHANGED filed
    BY <1>4 DEF VReturn, ImplementAgain, OperatorAnswers, OperatorResumes
  <2> QED
    BY <2>2, <2>3
<1> QED
  BY <1>1, <1>2, <1>3, <1>4, ReviewSteps

LEMMA HistStep == ASSUME VTypes, VInv, [VNext]_vvars PROVE vhist' \in HistRec
<1> USE ReviewNumbers
<1>0. /\ vhist \in HistRec /\ vhist.crashes \in 0..MaxCrashes /\ vhist.ops \in 0..MaxOps /\ vhist.requests \in Nat
      /\ vhist.requests + 1 \in Nat /\ vhist.passed \in SUBSET AllDiffs /\ tip \in AllDiffs
  BY DEF VTypes, HistRec
<1>1. CASE UNCHANGED vhist
  BY <1>0, <1>1
<1>2. CASE ApproveDiff \/ Settle
  <2>1. UNCHANGED vhist \/ vhist' = [vhist EXCEPT !.passed = vhist.passed \cup {tip}]
    BY <1>2 DEF ApproveDiff, Settle
  <2>2. vhist.passed \cup {tip} \in SUBSET AllDiffs
    BY <1>0
  <2> QED
    BY <1>0, <2>1, <2>2, HistTyped
<1>3. CASE CountRound
  <2>1. PICK q \in SUBSET AllDiffs : vhist' = [vhist EXCEPT !.requests = vhist.requests + 1, !.passed = q]
    BY <1>0, <1>3 DEF CountRound
  <2> QED
    BY <1>0, <2>1, HistTyped
<1>4. CASE VReturn
  <2>1. PICK b \in BOOLEAN : vhist' = [vhist EXCEPT !.due = b]
    BY <1>4 DEF VReturn
  <2> QED
    BY <1>0, <2>1, HistTyped
<1>5. CASE VCrash
  <2>1. vhist' = [vhist EXCEPT !.crashes = vhist.crashes + 1] /\ vhist.crashes + 1 \in 0..MaxCrashes
    BY <1>0, <1>5 DEF VCrash
  <2> QED
    BY <1>0, <2>1, HistTyped
<1>6. CASE OperatorAnswers
  <2>1. PICK b \in BOOLEAN : vhist' = [vhist EXCEPT !.ops = vhist.ops + 1, !.requests = 0, !.due = b]
    BY <1>6 DEF OperatorAnswers
  <2>2. vhist.ops + 1 \in 0..MaxOps /\ 0 \in Nat
    BY <1>0, <1>6 DEF OperatorAnswers
  <2> QED
    BY <1>0, <2>1, <2>2, HistTyped
<1>7. CASE OperatorResumes
  <2>1. vhist' = [vhist EXCEPT !.ops = vhist.ops + 1, !.requests = 0] /\ vhist.ops + 1 \in 0..MaxOps /\ 0 \in Nat
    BY <1>0, <1>7 DEF OperatorResumes
  <2> QED
    BY <1>0, <2>1, HistTyped
<1> QED
  BY <1>1, <1>2, <1>3, <1>4, <1>5, <1>6, <1>7, ReviewSteps, Zenon
     DEF ResolveDiff, ChangeAnswer, KickBack, CheckCache, Reviewer, ValidateShas, EnforceFloors, AskOperator,
         RecordAskDiff, DetectConvergence, SplitAsks, SpawnFollowUp, ImplementAgain, vvars

LEMMA VTyped == ASSUME VInv, [VNext]_vvars PROVE VTypes'
  BY LookTyped, DiskTyped, RestTyped, HistStep DEF VInv, VTypes, HistRec


KeepsRun == /\ look'.rounds = look.rounds /\ look'.asks = look.asks /\ look'.out = look.out
            /\ look'.met = look.met /\ look'.done = look.done

LEMMA ToFields == ASSUME VTypes, NEW l, VTo(l) PROVE look'.pc = l /\ look'.dst = look.dst /\ KeepsRun
  BY DEF VTypes, LookRec, VTo, KeepsRun

LEMMA ConcludeFields == ASSUME VTypes, NEW d, Concludes(d) PROVE look'.pc = "return" /\ look'.dst = d /\ KeepsRun
  BY DEF VTypes, LookRec, Concludes, KeepsRun

LEMMA RoundFields == ASSUME VTypes, NEW n, SetRounds(n) PROVE rev'.st = rev.st /\ rev'.rounds = n
  BY DEF VTypes, SetRounds

LEMMA IdleFields == look' = NoLook => /\ look'.pc = "idle" /\ look'.dst = "CODE_REVIEW" /\ look'.rounds = 0
                                      /\ look'.asks = {} /\ look'.out = {} /\ look'.done = {}
  BY DEF NoLook

\* What the arithmetic of the invariants is about.
LEMMA ReviewTypes ==
    ASSUME VTypes
    PROVE  /\ rev.rounds \in Nat /\ look.rounds \in Nat /\ vhist.ops \in Nat /\ vhist.requests \in Nat
           /\ vhist.crashes \in Nat /\ Lost \in Nat /\ Highest \in Nat
           /\ look.pc \in VSteps /\ look.dst \in VStates /\ rev.st \in VStates
           /\ RoundLimit - 1 <= Highest /\ (vdisk.cache # NoEntry => vdisk.cache.rounds \in Nat)
  BY ReviewNumbers DEF VTypes, LookRec, Lost, Highest, CacheRec

Parts == InReview /\ RoundsHeld /\ RequestsCounted /\ PassedOnly /\ AsksHeld /\ AnswerHeld

\* The facts that most steps leave alone.
SameCounts == vhist'.crashes = vhist.crashes /\ vhist'.ops = vhist.ops
LEMMA RoundCountsKept == ASSUME SameCounts PROVE Lost' = Lost /\ Highest' = Highest
  BY DEF SameCounts, Lost, Highest

LEMMA ForceFields ==
    ASSUME VTypes, NEW l, Forces(l)
    PROVE  /\ look'.pc = l /\ look'.dst = look.dst /\ look'.rounds = look.rounds /\ look'.out = look.out
           /\ look'.done = look.done /\ look.asks \subseteq look'.asks
  BY DEF VTypes, LookRec, Forces

LEMMA ResolveDiffKept == ASSUME VInv, ResolveDiff PROVE Parts'
<1> USE DEF VInv
<1>1. UNCHANGED <<rev, tip, vdisk, quest, filed, vhist>> /\ rev.st = "CODE_REVIEW" /\ look.pc = "idle"
  BY DEF ResolveDiff, VAt
<1>2. /\ look'.done = {} /\ look'.out = {} /\ look'.asks = {}
      /\ \/ look'.pc = "return" /\ look'.dst = "BLOCKED" /\ look'.rounds = 0
         \/ look'.pc = "return" /\ look'.dst = "DOCUMENTING" /\ tip = "empty" /\ look'.rounds = rev.rounds
         \/ look'.pc = "answer" /\ look'.dst = "CODE_REVIEW" /\ tip # "empty" /\ look'.rounds = rev.rounds
  BY DEF ResolveDiff, NoLook
<1>3. Lost' = Lost /\ Highest' = Highest
  BY <1>1, RoundCountsKept DEF SameCounts
<1> USE <1>1, <1>2, <1>3, ReviewTypes, ReviewNumbers DEF KeepsRun
<1> QED
  <2>1. InReview'
    BY DEF InReview, Judging, Splitting
  <2>2. RoundsHeld'
    BY DEF RoundsHeld, KickToCome, InReview, Judging, Splitting
  <2>3. RequestsCounted'
    BY DEF RequestsCounted, Ending, InReview, Judging
  <2>4. PassedOnly'
    BY DEF PassedOnly, InReview
  <2>5. AsksHeld'
    BY DEF AsksHeld, in_scope, InReview
  <2>6. AnswerHeld'
    BY DEF AnswerHeld, InReview, Judging, Splitting
  <2> QED
    BY <2>1, <2>2, <2>3, <2>4, <2>5, <2>6 DEF Parts

LEMMA ChangeAnswerKept == ASSUME VInv, ChangeAnswer PROVE Parts'
<1> USE DEF VInv
<1>1. UNCHANGED <<rev, tip, quest, filed, vhist>> /\ look.pc = "answer" /\ tip # "none"
  <2>1. tip # "none"
    BY ReviewNumbers DEF VTypes
  <2> QED
    BY <2>1 DEF ChangeAnswer, VAt
<1>2. vdisk'.ask = "none" /\ vdisk'.cache = vdisk.cache
  BY DEF ChangeAnswer, VTypes
<1>3. /\ look'.pc = IF vdisk.ask = tip /\ quest.last = "change" THEN "kick" ELSE "cache"
      /\ look'.dst = look.dst /\ KeepsRun
  BY ToFields DEF ChangeAnswer
<1>4. Lost' = Lost /\ Highest' = Highest
  BY <1>1, RoundCountsKept DEF SameCounts
<1> USE <1>1, <1>2, <1>3, <1>4, ReviewTypes, ReviewNumbers DEF KeepsRun
<1> QED
  <2>1. InReview'
    BY DEF InReview, Judging, Splitting
  <2>2. RoundsHeld'
    BY DEF RoundsHeld, KickToCome, InReview, Judging, Splitting
  <2>3. RequestsCounted'
    BY DEF RequestsCounted, Ending, InReview, Judging
  <2>4. PassedOnly'
    BY DEF PassedOnly, InReview
  <2>5. AsksHeld'
    BY DEF AsksHeld, in_scope, InReview
  <2>6. AnswerHeld'
    BY DEF AnswerHeld, InReview, Judging, Splitting
  <2> QED
    BY <2>1, <2>2, <2>3, <2>4, <2>5, <2>6 DEF Parts

LEMMA KickBackKept == ASSUME VInv, KickBack PROVE Parts'
<1> USE DEF VInv
<1>1. UNCHANGED <<tip, vdisk, quest, filed, vhist>> /\ look.pc = "kick"
  BY DEF KickBack, VAt
<1>2. rev'.st = rev.st /\ rev'.rounds = look.rounds + 1
  BY RoundFields DEF KickBack
<1>3. look'.pc = "return" /\ look'.dst = "READY" /\ KeepsRun
  BY ConcludeFields DEF KickBack
<1>4. Lost' = Lost /\ Highest' = Highest
  BY <1>1, RoundCountsKept DEF SameCounts
<1> USE <1>1, <1>2, <1>3, <1>4, ReviewTypes, ReviewNumbers DEF KeepsRun
<1> QED
  <2>1. InReview'
    BY DEF InReview, Judging, Splitting
  <2>2. RoundsHeld'
    <3>1. KickToCome /\ ~KickToCome' /\ look.rounds = rev.rounds
      BY DEF KickToCome, InReview, Judging
    <3>2. rev.rounds < Highest
      BY <3>1 DEF RoundsHeld
    <3>3. rev'.rounds <= Highest
      BY <3>1, <3>2
    <3> QED
      BY <3>1, <3>3 DEF RoundsHeld
  <2>3. RequestsCounted'
    BY DEF RequestsCounted, Ending, InReview, Judging
  <2>4. PassedOnly'
    BY DEF PassedOnly, InReview
  <2>5. AsksHeld'
    BY DEF AsksHeld, in_scope, InReview
  <2>6. AnswerHeld'
    BY DEF AnswerHeld, InReview, Judging, Splitting
  <2> QED
    BY <2>1, <2>2, <2>3, <2>4, <2>5, <2>6 DEF Parts

LEMMA CheckCacheKept == ASSUME VInv, CheckCache PROVE Parts'
<1> USE DEF VInv
<1>1. UNCHANGED <<rev, tip, vdisk, quest, filed, vhist>> /\ look.pc = "cache"
  BY DEF CheckCache, VAt
<1>2. /\ KeepsRun
      /\ \/ look'.pc = "agent" /\ look'.dst = look.dst
         \/ /\ look'.pc = "return" /\ vdisk.cache # NoEntry /\ look'.dst = vdisk.cache.dst
            /\ vdisk.cache.diff = tip /\ look'.dst \in {"READY", "DOCUMENTING"}
  BY ToFields, ConcludeFields DEF CheckCache, SameInput, VTypes, CacheRec
<1>3. Lost' = Lost /\ Highest' = Highest
  BY <1>1, RoundCountsKept DEF SameCounts
<1> USE <1>1, <1>2, <1>3, ReviewTypes, ReviewNumbers DEF KeepsRun
<1> QED
  <2>1. InReview'
    BY DEF InReview, Judging, Splitting
  <2>2. RoundsHeld'
    BY DEF RoundsHeld, KickToCome, InReview, Judging, Splitting
  <2>3. RequestsCounted'
    BY DEF RequestsCounted, Ending, InReview, Judging
  <2>4. PassedOnly'
    BY DEF PassedOnly, InReview
  <2>5. AsksHeld'
    BY DEF AsksHeld, in_scope, InReview
  <2>6. AnswerHeld'
    BY DEF AnswerHeld, InReview, Judging, Splitting
  <2> QED
    BY <2>1, <2>2, <2>3, <2>4, <2>5, <2>6 DEF Parts

LEMMA ReviewerKept == ASSUME VInv, Reviewer PROVE Parts'
<1> USE DEF VInv
<1>1. UNCHANGED <<rev, tip, vdisk, quest, filed, vhist>> /\ look.pc = "agent"
  BY DEF Reviewer, VAt
<1>2. /\ look'.rounds = look.rounds /\ look'.out = look.out /\ look'.done = look.done /\ look'.out \subseteq look'.asks
      /\ \/ look'.pc = "return" /\ look'.dst = "BLOCKED"
         \/ look'.pc = "shas" /\ look'.dst = look.dst
  <2>1. CASE Concludes("BLOCKED")
    BY <2>1, ConcludeFields DEF KeepsRun, InReview
  <2>2. ASSUME NEW v, NEW S, look' = [look EXCEPT !.pc = "shas", !.verdict = v, !.asks = S]
        PROVE  /\ look'.rounds = look.rounds /\ look'.out = look.out /\ look'.done = look.done
               /\ look'.pc = "shas" /\ look'.dst = look.dst
    BY <2>2 DEF VTypes, LookRec
  <2>3. look.out = {}
    BY <1>1 DEF InReview
  <2>4. Concludes("BLOCKED") \/ \E v, S : look' = [look EXCEPT !.pc = "shas", !.verdict = v, !.asks = S]
    BY Zenon DEF Reviewer
  <2> QED
    BY <2>1, <2>2, <2>3, <2>4
<1>3. Lost' = Lost /\ Highest' = Highest
  BY <1>1, RoundCountsKept DEF SameCounts
<1> USE <1>1, <1>2, <1>3, ReviewTypes, ReviewNumbers DEF KeepsRun
<1> QED
  <2>1. InReview'
    BY DEF InReview, Judging, Splitting
  <2>2. RoundsHeld'
    BY DEF RoundsHeld, KickToCome, InReview, Judging, Splitting
  <2>3. RequestsCounted'
    BY DEF RequestsCounted, Ending, InReview, Judging
  <2>4. PassedOnly'
    BY DEF PassedOnly, InReview
  <2>5. AsksHeld'
    BY DEF AsksHeld, in_scope, InReview
  <2>6. AnswerHeld'
    BY DEF AnswerHeld, InReview, Judging, Splitting
  <2> QED
    BY <2>1, <2>2, <2>3, <2>4, <2>5, <2>6 DEF Parts

LEMMA ValidateShasKept == ASSUME VInv, ValidateShas PROVE Parts'
<1> USE DEF VInv
<1>1. UNCHANGED <<rev, tip, vdisk, quest, filed, vhist>> /\ look.pc = "shas"
  BY DEF ValidateShas, VAt
<1>2. /\ look'.pc = "floors" /\ look'.dst = look.dst /\ look'.rounds = look.rounds /\ look'.out = look.out
      /\ look'.done = look.done /\ look.asks \subseteq look'.asks
  BY ToFields, ForceFields DEF ValidateShas, KeepsRun
<1>3. Lost' = Lost /\ Highest' = Highest
  BY <1>1, RoundCountsKept DEF SameCounts
<1> USE <1>1, <1>2, <1>3, ReviewTypes, ReviewNumbers DEF KeepsRun
<1> QED
  <2>1. InReview'
    BY DEF InReview, Judging, Splitting
  <2>2. RoundsHeld'
    BY DEF RoundsHeld, KickToCome, InReview, Judging, Splitting
  <2>3. RequestsCounted'
    BY DEF RequestsCounted, Ending, InReview, Judging
  <2>4. PassedOnly'
    BY DEF PassedOnly, InReview
  <2>5. AsksHeld'
    BY DEF AsksHeld, in_scope, InReview
  <2>6. AnswerHeld'
    BY DEF AnswerHeld, InReview, Judging, Splitting
  <2> QED
    BY <2>1, <2>2, <2>3, <2>4, <2>5, <2>6 DEF Parts

LEMMA EnforceFloorsKept == ASSUME VInv, EnforceFloors PROVE Parts'
<1> USE DEF VInv
<1>1. UNCHANGED <<rev, tip, vdisk, quest, filed, vhist>> /\ look.pc = "floors"
  BY DEF EnforceFloors, VAt
<1>2. /\ look'.pc = "verdict" /\ look'.dst = look.dst /\ look'.rounds = look.rounds /\ look'.out = look.out
      /\ look'.done = look.done /\ look.asks \subseteq look'.asks
  BY ToFields, ForceFields DEF EnforceFloors, KeepsRun
<1>3. Lost' = Lost /\ Highest' = Highest
  BY <1>1, RoundCountsKept DEF SameCounts
<1> USE <1>1, <1>2, <1>3, ReviewTypes, ReviewNumbers DEF KeepsRun
<1> QED
  <2>1. InReview'
    BY DEF InReview, Judging, Splitting
  <2>2. RoundsHeld'
    BY DEF RoundsHeld, KickToCome, InReview, Judging, Splitting
  <2>3. RequestsCounted'
    BY DEF RequestsCounted, Ending, InReview, Judging
  <2>4. PassedOnly'
    BY DEF PassedOnly, InReview
  <2>5. AsksHeld'
    BY DEF AsksHeld, in_scope, InReview
  <2>6. AnswerHeld'
    BY DEF AnswerHeld, InReview, Judging, Splitting
  <2> QED
    BY <2>1, <2>2, <2>3, <2>4, <2>5, <2>6 DEF Parts

LEMMA ApproveDiffKept == ASSUME VInv, ApproveDiff PROVE Parts'
<1> USE DEF VInv
<1>1. UNCHANGED <<tip, quest, filed>> /\ look.pc = "verdict" /\ tip # "empty"
  BY DEF ApproveDiff, VAt, InReview
<1>2. rev'.st = rev.st /\ rev'.rounds = 0
  BY RoundFields DEF ApproveDiff
<1>3. /\ vdisk'.ask = vdisk.ask /\ vdisk'.cache.rounds = look.rounds /\ vdisk'.cache.dst = "DOCUMENTING"
      /\ vdisk'.cache.diff = tip
  BY <1>1, EntryTyped DEF ApproveDiff
<1>4. look'.pc = "return" /\ look'.dst = "DOCUMENTING" /\ KeepsRun
  BY ConcludeFields DEF ApproveDiff
<1>5. /\ vhist'.crashes = vhist.crashes /\ vhist'.ops = vhist.ops /\ vhist'.requests = vhist.requests
      /\ vhist'.due = vhist.due /\ vhist'.passed = vhist.passed \cup {tip}
  BY DEF ApproveDiff, VTypes
<1>6. Lost' = Lost /\ Highest' = Highest
  BY <1>5, RoundCountsKept DEF SameCounts
<1> USE <1>1, <1>2, <1>3, <1>4, <1>5, <1>6, ReviewTypes, ReviewNumbers DEF KeepsRun
<1> QED
  <2>1. InReview'
    BY DEF InReview, Judging, Splitting
  <2>2. RoundsHeld'
    BY DEF RoundsHeld, KickToCome, InReview, Judging, Splitting
  <2>3. RequestsCounted'
    BY DEF RequestsCounted, Ending, InReview, Judging
  <2>4. PassedOnly'
    BY DEF PassedOnly, InReview
  <2>5. AsksHeld'
    BY DEF AsksHeld, in_scope, InReview
  <2>6. AnswerHeld'
    BY DEF AnswerHeld, InReview, Judging, Splitting
  <2> QED
    BY <2>1, <2>2, <2>3, <2>4, <2>5, <2>6 DEF Parts

LEMMA AskOperatorKept == ASSUME VInv, AskOperator PROVE Parts'
<1> USE DEF VInv
<1>1. UNCHANGED <<rev, tip, vdisk, filed, vhist>> /\ look.pc = "verdict"
  BY DEF AskOperator, VAt
<1>2. quest'.last = "open"
  BY DEF AskOperator, VTypes
<1>3. look'.pc = "record" /\ look'.dst = look.dst /\ KeepsRun
  BY ToFields DEF AskOperator
<1>4. Lost' = Lost /\ Highest' = Highest
  BY <1>1, RoundCountsKept DEF SameCounts
<1> USE <1>1, <1>2, <1>3, <1>4, ReviewTypes, ReviewNumbers DEF KeepsRun
<1> QED
  <2>1. InReview'
    BY DEF InReview, Judging, Splitting
  <2>2. RoundsHeld'
    BY DEF RoundsHeld, KickToCome, InReview, Judging, Splitting
  <2>3. RequestsCounted'
    BY DEF RequestsCounted, Ending, InReview, Judging
  <2>4. PassedOnly'
    BY DEF PassedOnly, InReview
  <2>5. AsksHeld'
    BY DEF AsksHeld, in_scope, InReview
  <2>6. AnswerHeld'
    BY DEF AnswerHeld, InReview, Judging, Splitting
  <2> QED
    BY <2>1, <2>2, <2>3, <2>4, <2>5, <2>6 DEF Parts

LEMMA RecordAskDiffKept == ASSUME VInv, RecordAskDiff PROVE Parts'
<1> USE DEF VInv
<1>1. UNCHANGED <<rev, tip, quest, filed, vhist>> /\ look.pc = "record"
  BY DEF RecordAskDiff, VAt
<1>2. vdisk'.ask = tip /\ vdisk'.cache = vdisk.cache
  BY DEF RecordAskDiff, VTypes
<1>3. look'.pc = "return" /\ look'.dst = "AWAITING_USER_REPLY" /\ KeepsRun
  BY ConcludeFields DEF RecordAskDiff
<1>4. Lost' = Lost /\ Highest' = Highest
  BY <1>1, RoundCountsKept DEF SameCounts
<1> USE <1>1, <1>2, <1>3, <1>4, ReviewTypes, ReviewNumbers DEF KeepsRun
<1> QED
  <2>1. InReview'
    BY DEF InReview, Judging, Splitting
  <2>2. RoundsHeld'
    BY DEF RoundsHeld, KickToCome, InReview, Judging, Splitting
  <2>3. RequestsCounted'
    BY DEF RequestsCounted, Ending, InReview, Judging
  <2>4. PassedOnly'
    BY DEF PassedOnly, InReview
  <2>5. AsksHeld'
    BY DEF AsksHeld, in_scope, InReview
  <2>6. AnswerHeld'
    BY DEF AnswerHeld, InReview, Judging, Splitting
  <2> QED
    BY <2>1, <2>2, <2>3, <2>4, <2>5, <2>6 DEF Parts

LEMMA CountRoundKept == ASSUME VInv, CountRound PROVE Parts'
<1> USE DEF VInv
<1>1. UNCHANGED <<tip, filed>> /\ look.pc = "verdict" /\ tip # "empty" /\ vdisk.ask = "none" /\ look.rounds = rev.rounds
  BY DEF CountRound, VAt, InReview, Judging, Splitting
<1>2. /\ vhist'.crashes = vhist.crashes /\ vhist'.ops = vhist.ops /\ vhist'.requests = vhist.requests + 1
      /\ vhist'.due = vhist.due /\ vhist.passed \subseteq vhist'.passed
      /\ AtCap(look.rounds + 1) => tip \in vhist'.passed
  BY DEF CountRound, VTypes
<1>3. Lost' = Lost /\ Highest' = Highest
  BY <1>2, RoundCountsKept DEF SameCounts
<1>4. rev'.st = rev.st
  BY RoundFields DEF CountRound, PauseForDirectives
<1>5. /\ KeepsRun
      /\ \/ /\ look.rounds + 1 < RoundLimit /\ rev'.rounds = look.rounds + 1 /\ vdisk' = Aged /\ UNCHANGED quest
            /\ look'.pc = "converge" /\ look'.dst = look.dst
         \/ /\ rev'.rounds = 0 /\ vdisk' = Aged /\ quest'.last = "open"
            /\ look'.pc = "record" /\ look'.dst = look.dst
         \/ /\ rev'.rounds = 0 /\ Cache("DOCUMENTING") /\ UNCHANGED quest /\ tip \in vhist'.passed
            /\ look'.pc = "return" /\ look'.dst = "DOCUMENTING"
  <2>1. CASE ~AtCap(look.rounds + 1)
    <3>1. SetRounds(look.rounds + 1) /\ VTo("converge") /\ vdisk' = Aged /\ UNCHANGED quest
      BY <2>1 DEF CountRound
    <3> QED
      BY <2>1, <3>1, RoundFields, ToFields, ReviewNumbers, ReviewTypes
  <2>2. CASE AtCap(look.rounds + 1) /\ directives
    <3>1. PauseForDirectives
      BY <2>2 DEF CountRound
    <3>2. quest'.last = "open"
      BY <3>1 DEF PauseForDirectives, VTypes
    <3> QED
      BY <3>1, <3>2, RoundFields, ToFields DEF PauseForDirectives
  <2>3. CASE AtCap(look.rounds + 1) /\ ~directives
    <3>1. SetRounds(0) /\ Cache("DOCUMENTING") /\ Concludes("DOCUMENTING") /\ UNCHANGED quest
      BY <2>3 DEF CountRound
    <3> QED
      BY <1>2, <2>3, <3>1, RoundFields, ConcludeFields
  <2> QED
    BY <2>1, <2>2, <2>3
<1>6. /\ vdisk'.ask = "none"
      /\ vdisk'.cache # NoEntry =>
           \/ /\ vdisk.cache # NoEntry /\ vdisk'.cache.rounds = vdisk.cache.rounds
              /\ vdisk'.cache.dst = vdisk.cache.dst /\ vdisk'.cache.diff = vdisk.cache.diff
           \/ vdisk'.cache.rounds = look.rounds /\ vdisk'.cache.diff = tip /\ tip \in vhist'.passed
  BY <1>1, <1>5, CacheTyped, EntryTyped
<1> USE <1>1, <1>2, <1>3, <1>4, <1>5, <1>6, ReviewTypes, ReviewNumbers DEF KeepsRun
<1> QED
  <2>1. InReview'
    BY DEF InReview, Judging, Splitting
  <2>2. RoundsHeld'
    BY DEF RoundsHeld, KickToCome, InReview, Judging, Splitting
  <2>3. RequestsCounted'
    BY DEF RequestsCounted, Ending, InReview, Judging
  <2>4. PassedOnly'
    BY DEF PassedOnly, InReview
  <2>5. AsksHeld'
    BY DEF AsksHeld, in_scope, InReview
  <2>6. AnswerHeld'
    BY DEF AnswerHeld, InReview, Judging, Splitting
  <2> QED
    BY <2>1, <2>2, <2>3, <2>4, <2>5, <2>6 DEF Parts

LEMMA DetectConvergenceKept == ASSUME VInv, DetectConvergence PROVE Parts'
<1> USE DEF VInv
<1>1. UNCHANGED <<tip, quest, filed, vhist>> /\ look.pc = "converge"
  BY DEF DetectConvergence, VAt
<1>2. vdisk'.ask = vdisk.ask /\ vdisk'.cache = vdisk.cache
  BY DEF DetectConvergence, VTypes
<1>3. /\ rev'.st = rev.st /\ KeepsRun
      /\ \/ rev'.rounds = 0 /\ look'.pc = "return" /\ look'.dst = "BLOCKED"
         \/ rev'.rounds = rev.rounds /\ look'.pc = "split" /\ look'.dst = look.dst
  BY ToFields, ConcludeFields, RoundFields DEF DetectConvergence
<1>4. Lost' = Lost /\ Highest' = Highest
  BY <1>1, RoundCountsKept DEF SameCounts
<1> USE <1>1, <1>2, <1>3, <1>4, ReviewTypes, ReviewNumbers DEF KeepsRun
<1> QED
  <2>1. InReview'
    BY DEF InReview, Judging, Splitting
  <2>2. RoundsHeld'
    BY DEF RoundsHeld, KickToCome, InReview, Judging, Splitting
  <2>3. RequestsCounted'
    BY DEF RequestsCounted, Ending, InReview, Judging
  <2>4. PassedOnly'
    BY DEF PassedOnly, InReview
  <2>5. AsksHeld'
    BY DEF AsksHeld, in_scope, InReview
  <2>6. AnswerHeld'
    BY DEF AnswerHeld, InReview, Judging, Splitting
  <2> QED
    BY <2>1, <2>2, <2>3, <2>4, <2>5, <2>6 DEF Parts

LEMMA SplitAsksKept == ASSUME VInv, SplitAsks PROVE Parts'
<1> USE DEF VInv
<1>1. UNCHANGED <<rev, tip, vdisk, quest, filed, vhist>> /\ look.pc = "split"
  BY DEF SplitAsks, VAt
<1>2. /\ look'.pc = "spawn" /\ look'.dst = look.dst /\ look'.rounds = look.rounds /\ look'.done = look.done
      /\ look'.asks = look.asks /\ look'.out \subseteq look.asks
      /\ \A a \in look.asks : in_scope(a) \/ a \in look'.out \/ a \in look'.met
  BY DEF SplitAsks, StillOut, VTypes, LookRec
<1>3. Lost' = Lost /\ Highest' = Highest
  BY <1>1, RoundCountsKept DEF SameCounts
<1> USE <1>1, <1>2, <1>3, ReviewTypes, ReviewNumbers DEF KeepsRun
<1> QED
  <2>1. InReview'
    BY DEF InReview, Judging, Splitting
  <2>2. RoundsHeld'
    BY DEF RoundsHeld, KickToCome, InReview, Judging, Splitting
  <2>3. RequestsCounted'
    BY DEF RequestsCounted, Ending, InReview, Judging
  <2>4. PassedOnly'
    BY DEF PassedOnly, InReview
  <2>5. AsksHeld'
    BY DEF AsksHeld, in_scope, InReview
  <2>6. AnswerHeld'
    BY DEF AnswerHeld, InReview, Judging, Splitting
  <2> QED
    BY <2>1, <2>2, <2>3, <2>4, <2>5, <2>6 DEF Parts

LEMMA SpawnFollowUpKept == ASSUME VInv, SpawnFollowUp PROVE Parts'
<1> USE DEF VInv
<1>1. UNCHANGED <<rev, tip, vdisk, quest, vhist>> /\ look.pc = "spawn"
  BY DEF SpawnFollowUp, VAt
<1>2. /\ look'.dst = look.dst /\ look'.rounds = look.rounds /\ look'.asks = look.asks /\ look'.out = look.out /\ look'.met = look.met
      /\ \/ look'.pc = "settle" /\ look.out = look.done /\ look'.done = look.done /\ UNCHANGED filed
         \/ /\ look'.pc = "spawn"
            /\ \E a \in look.out : look'.done = look.done \cup {a} /\ filed'[a] > 0 /\ \A b \in Asks \ {a} : filed'[b] = filed[b]
  <2>1. CASE look.out = look.done
    BY <2>1, ToFields DEF SpawnFollowUp, KeepsRun
  <2>2. CASE look.out # look.done
    <3>1. PICK a \in look.out : /\ filed' = [filed EXCEPT ![a] = IF @ = 2 THEN 2 ELSE @ + 1]
                                /\ look' = [look EXCEPT !.done = @ \cup {a}]
      BY <2>2 DEF SpawnFollowUp
    <3>2. a \in Asks /\ filed[a] \in 0..2
      BY DEF VTypes, LookRec
    <3>3. filed'[a] > 0 /\ \A b \in Asks \ {a} : filed'[b] = filed[b]
      BY <3>1, <3>2 DEF VTypes
    <3>4. /\ look'.dst = look.dst /\ look'.rounds = look.rounds /\ look'.asks = look.asks /\ look'.out = look.out
          /\ look'.met = look.met /\ look'.pc = "spawn" /\ look'.done = look.done \cup {a}
      BY <1>1, <3>1 DEF VTypes, LookRec
    <3> QED
      BY <3>3, <3>4
  <2> QED
    BY <2>1, <2>2
<1>3. look.out \subseteq Asks
  BY DEF VTypes, LookRec
<1>4. Lost' = Lost /\ Highest' = Highest
  BY <1>1, RoundCountsKept DEF SameCounts
<1> USE <1>1, <1>2, <1>3, <1>4, ReviewTypes, ReviewNumbers DEF KeepsRun
<1> QED
  <2>1. InReview'
    BY DEF InReview, Judging, Splitting
  <2>2. RoundsHeld'
    BY DEF RoundsHeld, KickToCome, InReview, Judging, Splitting
  <2>3. RequestsCounted'
    BY DEF RequestsCounted, Ending, InReview, Judging
  <2>4. PassedOnly'
    BY DEF PassedOnly, InReview
  <2>5. AsksHeld'
    BY DEF AsksHeld, in_scope, InReview
  <2>6. AnswerHeld'
    BY DEF AnswerHeld, InReview, Judging, Splitting
  <2> QED
    BY <2>1, <2>2, <2>3, <2>4, <2>5, <2>6 DEF Parts

LEMMA SettleKept == ASSUME VInv, Settle PROVE Parts'
<1> USE DEF VInv
<1>1. UNCHANGED <<tip, quest, filed>> /\ look.pc = "settle" /\ tip # "empty"
  BY DEF Settle, VAt, InReview
<1>2. PICK d \in {"READY", "DOCUMENTING"} :
        /\ Cache(d) /\ Concludes(d)
        /\ d = "DOCUMENTING" => SetRounds(0) /\ vhist' = [vhist EXCEPT !.passed = @ \cup {tip}]
        /\ d = "READY" => UNCHANGED <<rev, vhist>>
  BY DEF Settle
<1>3. /\ vdisk'.ask = vdisk.ask /\ vdisk'.cache.rounds = look.rounds /\ vdisk'.cache.dst = d
      /\ vdisk'.cache.diff = tip
  BY <1>1, <1>2, EntryTyped
<1>4. look'.pc = "return" /\ look'.dst = d /\ KeepsRun
  BY <1>2, ConcludeFields
<1>5. rev'.st = rev.st /\ (d = "DOCUMENTING" => rev'.rounds = 0) /\ (d = "READY" => rev'.rounds = rev.rounds)
  BY <1>2, RoundFields
<1>6. /\ vhist'.crashes = vhist.crashes /\ vhist'.ops = vhist.ops /\ vhist'.requests = vhist.requests
      /\ vhist'.due = vhist.due /\ vhist.passed \subseteq vhist'.passed /\ (d = "DOCUMENTING" => tip \in vhist'.passed)
  BY <1>2 DEF VTypes
<1>7. Lost' = Lost /\ Highest' = Highest
  BY <1>6, RoundCountsKept DEF SameCounts
<1> USE <1>1, <1>2, <1>3, <1>4, <1>5, <1>6, <1>7, ReviewTypes, ReviewNumbers DEF KeepsRun
<1> QED
  <2>1. InReview'
    BY DEF InReview, Judging, Splitting
  <2>2. RoundsHeld'
    BY DEF RoundsHeld, KickToCome, InReview, Judging, Splitting
  <2>3. RequestsCounted'
    BY DEF RequestsCounted, Ending, InReview, Judging
  <2>4. PassedOnly'
    BY DEF PassedOnly, InReview
  <2>5. AsksHeld'
    BY DEF AsksHeld, in_scope, InReview
  <2>6. AnswerHeld'
    BY DEF AnswerHeld, InReview, Judging, Splitting
  <2> QED
    BY <2>1, <2>2, <2>3, <2>4, <2>5, <2>6 DEF Parts

LEMMA VReturnKept == ASSUME VInv, VReturn PROVE Parts'
<1> USE DEF VInv
<1>1. UNCHANGED <<tip, vdisk, quest, filed>> /\ look.pc = "return" /\ rev.st = "CODE_REVIEW"
  BY DEF VReturn, VAt, InReview
<1>2. rev'.st = look.dst /\ rev'.rounds = rev.rounds
  BY DEF VReturn, VTypes
<1>3. /\ look'.pc = "idle" /\ look'.dst = "CODE_REVIEW" /\ look'.rounds = 0
      /\ look'.asks = {} /\ look'.out = {} /\ look'.done = {}
  BY IdleFields DEF VReturn
<1>4. /\ vhist'.crashes = vhist.crashes /\ vhist'.ops = vhist.ops /\ vhist'.requests = vhist.requests
      /\ (vhist'.due => vhist.due /\ look.dst = "BLOCKED") /\ vhist'.passed = vhist.passed
  BY DEF VReturn, VTypes
<1>5. Lost' = Lost /\ Highest' = Highest
  BY <1>4, RoundCountsKept DEF SameCounts
<1> USE <1>1, <1>2, <1>3, <1>4, <1>5, ReviewTypes, ReviewNumbers DEF KeepsRun
<1> QED
  <2>1. InReview'
    BY DEF InReview, Judging, Splitting
  <2>2. RoundsHeld'
    <3>1. KickToCome' => KickToCome
      BY DEF KickToCome
    <3>2. 0 <= Highest
      OBVIOUS
    <3> QED
      BY <3>1, <3>2 DEF RoundsHeld
  <2>3. RequestsCounted'
    BY DEF RequestsCounted, Ending, InReview, Judging
  <2>4. PassedOnly'
    BY DEF PassedOnly, InReview
  <2>5. AsksHeld'
    BY DEF AsksHeld, in_scope, InReview
  <2>6. AnswerHeld'
    BY DEF AnswerHeld, InReview, Judging, Splitting
  <2> QED
    BY <2>1, <2>2, <2>3, <2>4, <2>5, <2>6 DEF Parts

LEMMA VCrashKept == ASSUME VInv, VCrash PROVE Parts'
<1> USE DEF VInv
<1>1. UNCHANGED <<rev, tip, vdisk, quest, filed>> /\ look.pc # "idle" /\ rev.st = "CODE_REVIEW"
  BY DEF VCrash, VAt, InReview
<1>2. /\ look'.pc = "idle" /\ look'.dst = "CODE_REVIEW" /\ look'.rounds = 0
      /\ look'.asks = {} /\ look'.out = {} /\ look'.done = {}
  BY IdleFields DEF VCrash
<1>3. /\ vhist'.crashes = vhist.crashes + 1 /\ vhist'.ops = vhist.ops /\ vhist'.requests = vhist.requests
      /\ vhist'.passed = vhist.passed
  BY DEF VCrash, VTypes
<1>4. Lost' = Lost + RoundLimit /\ Highest' = Highest
  BY <1>3, ReviewTypes, ReviewNumbers DEF Lost, Highest
<1> USE <1>1, <1>2, <1>3, <1>4, ReviewTypes, ReviewNumbers DEF KeepsRun
<1> QED
  <2>1. InReview'
    BY DEF InReview, Judging, Splitting
  <2>2. RoundsHeld'
    BY DEF RoundsHeld, KickToCome, InReview, Judging, Splitting
  <2>3. RequestsCounted'
    BY DEF RequestsCounted, Ending, InReview, Judging
  <2>4. PassedOnly'
    BY DEF PassedOnly, InReview
  <2>5. AsksHeld'
    BY DEF AsksHeld, in_scope, InReview
  <2>6. AnswerHeld'
    BY DEF AnswerHeld, InReview, Judging, Splitting
  <2> QED
    BY <2>1, <2>2, <2>3, <2>4, <2>5, <2>6 DEF Parts

LEMMA ImplementAgainKept == ASSUME VInv, ImplementAgain PROVE Parts'
<1> USE DEF VInv
<1>1. UNCHANGED <<vdisk, quest, look, filed, vhist>> /\ look.pc = "idle" /\ rev.st = "READY"
  BY DEF ImplementAgain, InReview
<1>2. rev'.st = "CODE_REVIEW" /\ rev'.rounds = rev.rounds
  BY DEF ImplementAgain, VTypes
<1>3. Lost' = Lost /\ Highest' = Highest
  BY <1>1, RoundCountsKept DEF SameCounts
<1> USE <1>1, <1>2, <1>3, ReviewTypes, ReviewNumbers DEF KeepsRun
<1> QED
  <2>1. InReview'
    BY DEF InReview, Judging, Splitting
  <2>2. RoundsHeld'
    BY DEF RoundsHeld, KickToCome, InReview, Judging, Splitting
  <2>3. RequestsCounted'
    BY DEF RequestsCounted, Ending, InReview, Judging
  <2>4. PassedOnly'
    BY DEF PassedOnly, InReview
  <2>5. AsksHeld'
    BY DEF AsksHeld, in_scope, InReview
  <2>6. AnswerHeld'
    BY DEF AnswerHeld, InReview, Judging, Splitting
  <2> QED
    BY <2>1, <2>2, <2>3, <2>4, <2>5, <2>6 DEF Parts

LEMMA OperatorAnswersKept == ASSUME VInv, OperatorAnswers PROVE Parts'
<1> USE DEF VInv
<1>1. UNCHANGED <<tip, vdisk, look, filed>> /\ look.pc = "idle" /\ rev.st = "AWAITING_USER_REPLY"
  BY DEF OperatorAnswers, InReview
<1>2. rev'.st = "CODE_REVIEW" /\ rev'.rounds = rev.rounds
  BY DEF OperatorAnswers, VTypes
<1>3. /\ vhist'.crashes = vhist.crashes /\ vhist'.ops = vhist.ops + 1 /\ vhist'.requests = 0
      /\ (vhist'.due => quest'.last = "change") /\ vhist'.passed = vhist.passed
  <2>1. PICK a \in {"change", "fine"} :
           /\ quest' = [last |-> a, replied |-> TRUE]
           /\ vhist' = [vhist EXCEPT !.ops = @ + 1, !.requests = 0, !.due = a = "change"]
    BY DEF OperatorAnswers
  <2>2. vhist'.due <=> a = "change"
    BY <2>1 DEF VTypes
  <2>3. /\ vhist'.crashes = vhist.crashes /\ vhist'.ops = vhist.ops + 1 /\ vhist'.requests = 0
        /\ vhist'.passed = vhist.passed
    BY <2>1 DEF VTypes
  <2> QED
    BY <2>1, <2>2, <2>3
<1>4. Lost' = Lost /\ Highest' = Highest + 1
  BY <1>3, ReviewTypes, ReviewNumbers DEF Lost, Highest
<1> USE <1>1, <1>2, <1>3, <1>4, ReviewTypes, ReviewNumbers DEF KeepsRun
<1> QED
  <2>1. InReview'
    BY DEF InReview, Judging, Splitting
  <2>2. RoundsHeld'
    BY DEF RoundsHeld, KickToCome, InReview, Judging, Splitting
  <2>3. RequestsCounted'
    BY DEF RequestsCounted, Ending, InReview, Judging
  <2>4. PassedOnly'
    BY DEF PassedOnly, InReview
  <2>5. AsksHeld'
    BY DEF AsksHeld, in_scope, InReview
  <2>6. AnswerHeld'
    BY DEF AnswerHeld, InReview, Judging, Splitting
  <2> QED
    BY <2>1, <2>2, <2>3, <2>4, <2>5, <2>6 DEF Parts

LEMMA OperatorResumesKept == ASSUME VInv, OperatorResumes PROVE Parts'
<1> USE DEF VInv
<1>1. UNCHANGED <<tip, vdisk, quest, look, filed>> /\ look.pc = "idle" /\ rev.st \in {"BLOCKED", "DOCUMENTING"}
  BY DEF OperatorResumes, InReview
<1>2. rev'.st = (IF rev.st = "BLOCKED" THEN "CODE_REVIEW" ELSE "READY") /\ rev'.rounds = rev.rounds
  BY DEF OperatorResumes, VTypes
<1>3. /\ vhist'.crashes = vhist.crashes /\ vhist'.ops = vhist.ops + 1 /\ vhist'.requests = 0
      /\ vhist'.due = vhist.due /\ vhist'.passed = vhist.passed
  BY DEF OperatorResumes, VTypes
<1>4. Lost' = Lost /\ Highest' = Highest + 1
  BY <1>3, ReviewTypes, ReviewNumbers DEF Lost, Highest
<1> USE <1>1, <1>2, <1>3, <1>4, ReviewTypes, ReviewNumbers DEF KeepsRun
<1> QED
  <2>1. InReview'
    BY DEF InReview, Judging, Splitting
  <2>2. RoundsHeld'
    BY DEF RoundsHeld, KickToCome, InReview, Judging, Splitting
  <2>3. RequestsCounted'
    BY DEF RequestsCounted, Ending, InReview, Judging
  <2>4. PassedOnly'
    BY DEF PassedOnly, InReview
  <2>5. AsksHeld'
    BY DEF AsksHeld, in_scope, InReview
  <2>6. AnswerHeld'
    BY DEF AnswerHeld, InReview, Judging, Splitting
  <2> QED
    BY <2>1, <2>2, <2>3, <2>4, <2>5, <2>6 DEF Parts

LEMMA ReviewStep == VInv /\ [VNext]_vvars => VInv'
<1> SUFFICES ASSUME VInv, [VNext]_vvars PROVE VInv'
  OBVIOUS
<1>1. VTypes'
  BY VTyped
<1>2. Parts'
  <2>1. CASE UNCHANGED vvars
    <3>1. Parts
      BY DEF Parts, VInv
    <3>2. UNCHANGED <<InReview, RoundsHeld, RequestsCounted, PassedOnly, AsksHeld, AnswerHeld>>
      BY <2>1 DEF vvars, InReview, RoundsHeld, KickToCome, Highest, RequestsCounted, Ending, Lost, PassedOnly, AsksHeld,
                  AnswerHeld
    <3> QED
      BY <3>1, <3>2 DEF Parts
  <2> QED
    BY <2>1, ReviewSteps, ResolveDiffKept, ChangeAnswerKept, KickBackKept, CheckCacheKept, ReviewerKept,
       ValidateShasKept, EnforceFloorsKept, ApproveDiffKept, AskOperatorKept, RecordAskDiffKept, CountRoundKept,
       DetectConvergenceKept, SplitAsksKept, SpawnFollowUpKept, SettleKept, VReturnKept, VCrashKept,
       ImplementAgainKept, OperatorAnswersKept, OperatorResumesKept
<1> QED
  BY <1>1, <1>2 DEF VInv, Parts

\* The inductive invariant of the review stage: what a run knows of its ticket,
\* what the rounds and the requests are counted by, what may be sent on, and
\* where each ask and each answer is.
THEOREM ReviewInvariant == VSpec => []VInv
  BY VTypedInit, ReviewStep, PTL DEF VSpec

\* A ticket is sent on only by the outcome of a run.
LEMMA SendsOn ==
    ASSUME VInv, [VNext]_vvars, rev'.st = "DOCUMENTING", rev.st # "DOCUMENTING"
    PROVE  rev.st = "CODE_REVIEW" /\ look.pc = "return" /\ look.dst = "DOCUMENTING"
<1> USE DEF VInv
<1>1. CASE ResolveDiff \/ ChangeAnswer \/ CheckCache \/ Reviewer \/ ValidateShas \/ EnforceFloors \/ AskOperator
           \/ RecordAskDiff \/ SplitAsks \/ SpawnFollowUp \/ VCrash \/ UNCHANGED vvars
  <2>1. UNCHANGED rev
    BY <1>1, Zenon DEF ResolveDiff, ChangeAnswer, CheckCache, Reviewer, ValidateShas, EnforceFloors, AskOperator,
           RecordAskDiff, SplitAsks, SpawnFollowUp, VCrash, vvars
  <2> QED
    BY <2>1
<1>2. CASE KickBack \/ DetectConvergence \/ ApproveDiff \/ Settle \/ CountRound
  <2>1. UNCHANGED rev \/ \E n : SetRounds(n)
    BY <1>2 DEF KickBack, DetectConvergence, ApproveDiff, Settle, CountRound, PauseForDirectives
  <2>2. rev'.st = rev.st
    BY <2>1, RoundFields
  <2> QED
    BY <2>2
<1>3. CASE VReturn
  BY <1>3 DEF VReturn, VAt, VTypes, InReview
<1>4. CASE ImplementAgain \/ OperatorAnswers
  BY <1>4 DEF ImplementAgain, OperatorAnswers, VTypes
<1>5. CASE OperatorResumes
  BY <1>5 DEF OperatorResumes, VTypes
<1> QED
  BY <1>1, <1>2, <1>3, <1>4, <1>5, ReviewSteps

\* What a reviewer asked for is kept when a run settles to go on.
LEMMA SettledIsKept ==
    ASSUME VInv, [VNext]_vvars, VAt("settle"), look'.dst = "DOCUMENTING", NEW a \in look.asks
    PROVE  filed[a] > 0 \/ a \in look.met
<1> USE DEF VInv, VAt
<1>1. look.out = look.done /\ (in_scope(a) \/ a \in look.out \/ a \in look.met)
      /\ (a \in look.done => filed[a] > 0) /\ look.dst = "CODE_REVIEW" /\ rev.st = "CODE_REVIEW"
  BY DEF AsksHeld, InReview
<1>2. CASE Settle
  <2>1. ~in_scope(a)
    <3>1. CASE Concludes("READY")
      BY <3>1, ConcludeFields
    <3>2. CASE \A b \in look.asks : ~in_scope(b)
      BY <3>2
    <3> QED
      BY <1>2, <3>1, <3>2 DEF Settle
  <2> QED
    BY <1>1, <2>1
<1>3. CASE VCrash
  BY <1>3, IdleFields DEF VCrash
<1>4. CASE UNCHANGED vvars
  BY <1>1, <1>4 DEF vvars
<1> QED
  BY <1>1, <1>2, <1>3, <1>4, ReviewSteps
     DEF ResolveDiff, ChangeAnswer, KickBack, CheckCache, Reviewer, ValidateShas, EnforceFloors, ApproveDiff,
         AskOperator, RecordAskDiff, CountRound, DetectConvergence, SplitAsks, SpawnFollowUp, VReturn, ImplementAgain,
         OperatorAnswers, OperatorResumes

LEMMA ReviewBounds == VInv => VTypeOK /\ ReviewsAreBounded
<1> SUFFICES ASSUME VInv PROVE VTypeOK /\ ReviewsAreBounded
  OBVIOUS
<1> USE DEF VInv
<1>1. /\ RoundLimit \in Nat /\ MaxOps \in Nat /\ vhist.ops \in 0..MaxOps /\ vhist.crashes \in Nat
      /\ rev.rounds \in Nat /\ Highest = RoundLimit - 1 + vhist.ops /\ RoundLimit >= 1
  BY ReviewNumbers, ReviewTypes DEF VTypes, Highest
<1>2. rev.rounds \in 0..(RoundLimit - 1 + MaxOps)
  BY <1>1 DEF RoundsHeld
<1>3. rev \in [st : VStates, rounds : 0..(RoundLimit - 1 + MaxOps)]
  BY <1>2 DEF VTypes
<1>4. vdisk.cache # NoEntry =>
        vdisk.cache \in [diff : Diffs, rounds : 0..(RoundLimit - 1 + MaxOps), dst : {"READY", "DOCUMENTING"},
                         old : BOOLEAN]
  <2> SUFFICES ASSUME vdisk.cache # NoEntry
               PROVE  vdisk.cache \in [diff : Diffs, rounds : 0..(RoundLimit - 1 + MaxOps),
                                       dst : {"READY", "DOCUMENTING"}, old : BOOLEAN]
    OBVIOUS
  <2>1. vdisk.cache \in CacheRec /\ vdisk.cache.rounds <= Highest
    BY DEF VTypes, RoundsHeld
  <2>2. vdisk.cache.rounds \in 0..(RoundLimit - 1 + MaxOps)
    BY <1>1, <2>1 DEF CacheRec
  <2> QED
    BY <2>1, <2>2 DEF CacheRec
<1>5. VTypeOK
  BY <1>3, <1>4 DEF VTypeOK, VTypes, LookRec, InReview
<1>6. RoundLimit * (vhist.crashes + 1) = Lost + RoundLimit
  BY <1>1 DEF Lost
<1> QED
  BY <1>5, <1>6 DEF RequestsCounted, ReviewsAreBounded

\* Review's verdicts are sound, for any diffs, asks, limits, crashes and answers
\* (VerdictsAreSound, as the run checks it): an approval is of the diff that was
\* reviewed, no ask and no answer is dropped, and rounds are bounded.
THEOREM VerdictsAlwaysSound == VSpec => VerdictsAreSound
<1>1. VSpec => []VInv
  BY ReviewInvariant
<1>2. VInv => VTypeOK /\ ReviewsAreBounded
  BY ReviewBounds
<1>3. VInv /\ [VNext]_vvars => (rev'.st = "DOCUMENTING" /\ rev.st # "DOCUMENTING" => tip \in vhist.passed)
  BY SendsOn DEF VInv, PassedOnly
<1>4. VInv /\ [VNext]_vvars =>
        (VAt("settle") /\ look'.dst = "DOCUMENTING" => \A a \in look.asks : filed[a] > 0 \/ a \in look.met)
  BY SettledIsKept
<1>5. VInv /\ [VNext]_vvars =>
        (rev'.st = "DOCUMENTING" /\ rev.st = "CODE_REVIEW" => ~vhist.due \/ vhist.crashes > 0)
  <2> SUFFICES ASSUME VInv, [VNext]_vvars, rev'.st = "DOCUMENTING", rev.st = "CODE_REVIEW"
               PROVE  ~vhist.due \/ vhist.crashes > 0
    OBVIOUS
  <2>1. look.pc = "return" /\ look.dst = "DOCUMENTING"
    BY SendsOn
  <2>2. vhist.crashes \in Nat
    BY ReviewTypes DEF VInv
  <2> QED
    BY <2>1, <2>2 DEF VInv, AnswerHeld
<1>6. VSpec => [](VTypeOK /\ ReviewsAreBounded)
  BY <1>1, <1>2, PTL
<1>7. VSpec => ApprovedIsReviewed
  BY <1>1, <1>3, PTL DEF VSpec, ApprovedIsReviewed
<1>8. VSpec => AsksAreKept
  BY <1>1, <1>4, PTL DEF VSpec, AsksAreKept
<1>9. VSpec => AnswerIsActedOn
  BY <1>1, <1>5, PTL DEF VSpec, AnswerIsActedOn
<1> QED
  BY <1>6, <1>7, <1>8, <1>9 DEF VerdictsAreSound
====
