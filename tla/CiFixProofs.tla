---------------------------- MODULE CiFixProofs ----------------------------
(***************************************************************************)
(* The bounds of the ci_fix stage, for every set of checks, every limit    *)
(* and any number of crashes.  AgentRunsBounded is not inductive: that an  *)
(* agent runs only after its attempt was charged is in the place of the    *)
(* run ("agent"), and that the dismissal comes after its sentinel is in    *)
(* the place "dismiss"; Places says both, and what the loop of pushes has  *)
(* used when it goes on.                                                   *)
(*                                                                         *)
(* The second part is about a change of several repositories (MultiRepo),  *)
(* whose poll also repairs CI: that work past delivery is all in the       *)
(* manifest is what makes a merge whole and done true, and each agent run  *)
(* is set against a charged cycle or an update from main.                  *)
(*                                                                         *)
(* The third part is about the watch over the target branch (CiWatch): the *)
(* poll works from a list of the open tickets that grows old, so that      *)
(* OneOpenTicket needs OpenIsKnown, and a dispatch is in the count of the  *)
(* scan before it is in the saved one.                                     *)
(***************************************************************************)
EXTENDS CiFix, MultiRepo, CiWatch, FiniteSetTheorems, WellFoundedInduction, TLAPS

Labels == {"idle", "status", "triage", "dismiss", "identical", "reconcile", "passes", "cap",
           "agent", "failed", "outofscope", "finalize", "land", "landpush"}

\* The agent's runs were charged before they started.
Charged == fhist.agents + (IF fpc = "agent" THEN 1 ELSE 0) <= fart.total

\* Nothing was dismissed before the sentinel was written, nor by a run that is
\* about to ask.
Sentinel == fhist.dismissals + (IF fpc = "dismiss" \/ ~fart.triaged THEN 1 ELSE 0) <= 1

\* The places of the run and what its variables hold there.
Places ==
  /\ fpc \in Labels
  /\ fpc \in {"land", "landpush"} => tries < PushRetryBudget
  /\ fpc = "dismiss" => fart.triaged

FInv == FTypeOK /\ Places /\ Charged /\ Sentinel

-----------------------------------------------------------------------------
(* The pull request keeps its type under every operation on it. *)

LEMMA RequestType == ASSUME NEW s \in {"open", "merged", "closed", "satisfied"} PROVE Request(s) \in PullRequestType
  BY DEF Request, PullRequestType, Conclusion

LEMMA HeadType == PRTypeOK => NewHead \in PullRequestType
  BY RequestType DEF PRTypeOK, NewHead, PullRequestType

LEMMA RebasedType == PRTypeOK => Rebased \in GitType
  BY DEF PRTypeOK, Rebased, GitType

LEMMA PushType ==
  ASSUME PRTypeOK, NEW g \in GitType, push(g) \/ push_with_lease(g) \/ agent_push_with_lease(g)
  PROVE  PRTypeOK'
<1>1. pr' \in PullRequestType
  BY HeadType DEF push, push_with_lease, agent_push_with_lease, HeadAfterPush, PRTypeOK
<1>2. git' \in GitType
  BY DEF push, push_with_lease, agent_push_with_lease, Pushed, GitType
<1> QED BY <1>1, <1>2 DEF PRTypeOK

LEMMA FetchType ==
  ASSUME PRTypeOK, NEW res, reconcile_with_remote_pr(res) \/ post_push_check(res)
  PROVE  git' \in GitType
  BY DEF PRTypeOK, GitType, reconcile_with_remote_pr, post_push_check

LEMMA ForgeType == PRTypeOK /\ (HumanPushes \/ Forge \/ rerun_workflows) => PRTypeOK'
<1> SUFFICES ASSUME PRTypeOK, HumanPushes \/ Forge \/ rerun_workflows PROVE PRTypeOK'
  OBVIOUS
<1>1. CASE HumanPushes
  BY <1>1, RequestType DEF HumanPushes, PRTypeOK, GitType
<1>2. CASE Forge
  BY <1>2 DEF Forge, CiReports, CiRestarts, PRTypeOK, PullRequestType, Conclusion
<1>3. CASE rerun_workflows
  BY <1>3 DEF rerun_workflows, PRTypeOK, PullRequestType, Conclusion
<1> QED BY <1>1, <1>2, <1>3

-----------------------------------------------------------------------------
(* The steps that leave the artifacts alone, or only forget a fingerprint. *)

LEMMA FailChecks == FTypeOK => fail.checks \in Checks \cup {None}
<1> SUFFICES ASSUME FTypeOK PROVE fail.checks \in Checks \cup {None}
  OBVIOUS
<1>1. CASE fail \in Failure
  BY <1>1 DEF Failure
<1>2. CASE fail = NoFailure
  BY <1>2 DEF NoFailure
<1> QED BY <1>1, <1>2 DEF FTypeOK

LEMMA NewHeadArtifacts ==
  ASSUME fart \in FixArtifacts
  PROVE  /\ OnNewHead(fart) \in FixArtifacts
         /\ OnNewHead(fart).total = fart.total /\ OnNewHead(fart).triaged = fart.triaged
  BY DEF OnNewHead, FixArtifacts

\* A step that ends the run or goes on elsewhere, and keeps the counts.
LEMMA EndsKeeps ==
  ASSUME FInv, NEW s \in {"fixing_ci", "implement_complete", "rebasing", "blocked"}, Ends(s),
         PRTypeOK', fhist' = fhist, fart' \in FixArtifacts, fart'.total = fart.total,
         fart'.triaged = fart.triaged
  PROVE  FInv'
  BY CiFixConstants DEF FInv, FTypeOK, Places, Labels, Charged, Sentinel, Ends, FixHistory, FixArtifacts

LEMMA GoesKeeps ==
  ASSUME FInv, NEW l \in Labels \ {"agent", "dismiss", "land", "landpush"}, To(l),
         PRTypeOK', fhist' = fhist, fart' \in FixArtifacts, fart'.total = fart.total,
         fart'.triaged = fart.triaged
  PROVE  FInv'
  BY DEF FInv, FTypeOK, Places, Labels, Charged, Sentinel, To, FixHistory, FixArtifacts

-----------------------------------------------------------------------------
(* Every step preserves the invariant. *)

LEMMA InitFInv == FInit => FInv
<1> SUFFICES ASSUME FInit PROVE FInv
  OBVIOUS
<1>1. PRTypeOK
  BY RequestType DEF FInit, PRInit, PRTypeOK, GitType
<1>2. /\ fart \in FixArtifacts /\ fart.total = 0
      /\ fhist \in FixHistory /\ fhist.agents = 0 /\ fhist.dismissals = 0
  BY CiFixConstants DEF FInit, FixArtifacts, FixHistory
<1>3. Places
  BY DEF FInit, Places, Labels
<1>4. Charged /\ Sentinel
  <2>1. fpc = "idle"
    BY DEF FInit
  <2> QED BY <1>2, <2>1 DEF Charged, Sentinel
<1>5. tries \in 0..PushRetryBudget /\ crashes \in 0..MaxCrashes
  BY CiFixConstants DEF FInit
<1>6. late \in BOOLEAN /\ fst = "fixing_ci" /\ fail = NoFailure /\ fseen = None
  BY DEF FInit
<1> QED BY <1>1, <1>2, <1>3, <1>4, <1>5, <1>6 DEF FInv, FTypeOK

\* Up to the gates, before an agent is thought of.
LEMMA OpeningStep ==
  ASSUME FInv, RefreshClone \/ CheckStatus \/ CiIsRed \/ Gates
  PROVE  FInv'
<1> USE DEF FInv
<1>0. PRTypeOK /\ fart \in FixArtifacts /\ git \in GitType /\ Rebased \in GitType
  BY RebasedType DEF FTypeOK, PRTypeOK
<1>1. CASE RefreshClone
  <2>1. CASE (Ends("blocked") \/ Ends("rebasing")) /\ Kept
    BY <1>0, <2>1, EndsKeeps DEF Kept, PRTypeOK
  <2>2. CASE /\ \E g \in {git, Rebased} :
                  /\ push(g)
                  /\ fart' = IF g.ahead \/ g.foreign THEN OnNewHead(fart) ELSE fart
             /\ To("status") /\ UNCHANGED fhist
    <3>1. PRTypeOK'
      BY <1>0, <2>2, PushType
    <3> QED BY <1>0, <2>2, <3>1, NewHeadArtifacts, GoesKeeps DEF Labels
  <2>3. CASE To("status") /\ git' \in {git, Rebased} /\ UNCHANGED <<pr, fart, fhist>>
    <3>1. PRTypeOK'
      BY <1>0, <2>3 DEF PRTypeOK
    <3> QED BY <1>0, <2>3, <3>1, GoesKeeps DEF Labels
  <2> QED BY <1>1, <2>1, <2>2, <2>3 DEF RefreshClone
<1>2. CASE CheckStatus
  <2>1. PRTypeOK' /\ fhist' = fhist /\ Ends("implement_complete")
    BY <1>0, <1>2 DEF CheckStatus, Same, PRTypeOK
  <2>2. fart' \in FixArtifacts /\ fart'.total = fart.total /\ fart'.triaged = fart.triaged
    BY <1>0, <1>2 DEF CheckStatus, FixArtifacts
  <2> QED BY <2>1, <2>2, EndsKeeps
<1>3. CASE CiIsRed
  <2>1. PICK f \in Failure :
          IF f.transient /\ fart.transient < TransientMaxRetries
          THEN /\ rerun_workflows
               /\ fart' = [fart EXCEPT !.transient = @ + 1]
               /\ Ends("implement_complete")
          ELSE /\ fail' = f /\ fpc' = "triage"
               /\ Same /\ UNCHANGED <<fst, fseen, tries, late, crashes, fart>>
    BY <1>3 DEF CiIsRed
  <2>2. CASE f.transient /\ fart.transient < TransientMaxRetries
    <3>1. PRTypeOK' /\ fhist' = fhist
      BY <1>0, <1>3, <2>1, <2>2, ForgeType DEF CiIsRed
    <3>2. fart' \in FixArtifacts /\ fart'.total = fart.total /\ fart'.triaged = fart.triaged
      BY <1>0, <2>1, <2>2, CiFixConstants DEF FixArtifacts
    <3> QED BY <2>1, <2>2, <3>1, <3>2, EndsKeeps
  <2>3. CASE ~(f.transient /\ fart.transient < TransientMaxRetries)
    BY <1>3, <2>1, <2>3 DEF CiIsRed, Same, FTypeOK, PRTypeOK, Places, Labels, Charged, Sentinel, FixHistory, FixArtifacts
  <2> QED BY <2>2, <2>3
<1>4. CASE Gates
  BY <1>0, <1>4, EndsKeeps DEF Gates, Kept, PRTypeOK
<1> QED BY <1>1, <1>2, <1>3, <1>4

\* The triage of alerts, the fingerprint, and the guards before the agent.
LEMMA TriageStep ==
  ASSUME FInv, CodeqlTriage \/ Dismiss \/ Identical \/ NotFixable
  PROVE  FInv'
<1> USE DEF FInv
<1>0. PRTypeOK /\ fart \in FixArtifacts /\ fail \in Failure \cup {NoFailure}
  BY DEF FTypeOK
<1>1. CASE CodeqlTriage
  <2>1. CASE ~fart.triaged /\ fart' = [fart EXCEPT !.triaged = TRUE] /\ To("dismiss")
    <3>1. fart' \in FixArtifacts /\ fart'.total = fart.total /\ fart'.triaged
      BY <1>0, <2>1 DEF FixArtifacts
    <3> QED BY <1>1, <2>1, <3>1 DEF CodeqlTriage, To, Same, FTypeOK, PRTypeOK, Places, Labels, Charged, Sentinel, FixHistory, FixArtifacts
  <2>2. CASE To("identical") /\ UNCHANGED fart
    BY <1>0, <1>1, <2>2, GoesKeeps DEF CodeqlTriage, Same, PRTypeOK, Labels
  <2> QED BY <1>1, <2>1, <2>2 DEF CodeqlTriage
<1>2. CASE Dismiss
  <2>1. CASE fhist' = [fhist EXCEPT !.dismissals = @ + 1] /\ Ends("implement_complete")
    <3>1. fhist' \in FixHistory /\ fhist'.agents = fhist.agents /\ fhist'.dismissals = fhist.dismissals + 1
      BY <2>1 DEF FTypeOK, FixHistory
    <3> QED BY <1>2, <2>1, <3>1, CiFixConstants
        DEF Dismiss, Ends, Same, FTypeOK, PRTypeOK, Places, Labels, Charged, Sentinel, FixHistory, FixArtifacts
  <2>2. CASE To("identical") /\ UNCHANGED fhist
    BY <1>0, <1>2, <2>2, GoesKeeps DEF Dismiss, Same, PRTypeOK, Labels
  <2> QED BY <1>2, <2>1, <2>2 DEF Dismiss
<1>3. CASE Identical
  <2>1. fhist' = fhist /\ PRTypeOK'
    BY <1>0, <1>3, ForgeType DEF Identical, Same, PRTypeOK
  <2>2. CASE MaxIdenticalFailures = 0
    BY <1>0, <1>3, <2>1, <2>2, GoesKeeps DEF Identical, Labels
  <2>3. CASE MaxIdenticalFailures # 0 /\ fart.fp # fail.checks
    <3>1. fart' = [fart EXCEPT !.fp = fail.checks, !.same = 0] /\ To("reconcile")
      BY <1>3, <2>3 DEF Identical
    <3>2. 0 \in 0..MaxIdenticalFailures /\ fail.checks \in Checks \cup {None}
      BY FailChecks, CiFixConstants
    <3>3. fart' \in FixArtifacts /\ fart'.total = fart.total /\ fart'.triaged = fart.triaged
      BY <1>0, <3>1, <3>2 DEF FixArtifacts
    <3> QED BY <2>1, <3>1, <3>3, GoesKeeps DEF Labels
  <2>4. CASE /\ MaxIdenticalFailures # 0 /\ fart.fp = fail.checks
             /\ fart.same + 1 >= MaxIdenticalFailures /\ fail.transient /\ TransientMaxRetries > 0
    <3>1. fart' = [fart EXCEPT !.same = 0] /\ Ends("implement_complete")
      BY <1>3, <2>4 DEF Identical
    <3>2. fart' \in FixArtifacts /\ fart'.total = fart.total /\ fart'.triaged = fart.triaged
      BY <1>0, <3>1, CiFixConstants DEF FixArtifacts
    <3> QED BY <2>1, <3>1, <3>2, EndsKeeps
  <2>5. CASE /\ MaxIdenticalFailures # 0 /\ fart.fp = fail.checks
             /\ ~(fart.same + 1 >= MaxIdenticalFailures /\ fail.transient /\ TransientMaxRetries > 0)
    <3>1. /\ fart' = [fart EXCEPT !.same = IF fart.same + 1 >= MaxIdenticalFailures THEN @ ELSE fart.same + 1]
          /\ IF fart.same + 1 >= MaxIdenticalFailures THEN Ends("blocked") ELSE To("reconcile")
      BY <1>3, <2>5 DEF Identical
    <3>2. fart' \in FixArtifacts /\ fart'.total = fart.total /\ fart'.triaged = fart.triaged
      BY <1>0, <3>1, CiFixConstants DEF FixArtifacts
    <3> QED BY <2>1, <3>1, <3>2, EndsKeeps, GoesKeeps DEF Labels
  <2> QED BY <2>2, <2>3, <2>4, <2>5
<1>4. CASE NotFixable
  BY <1>0, <1>4, EndsKeeps DEF NotFixable, Kept, PRTypeOK
<1> QED BY <1>1, <1>2, <1>3, <1>4

\* The clone is compared with the remote, and passes run without an agent.
LEMMA PassesStep ==
  ASSUME FInv, Reconcile \/ DeterministicPass \/ AttemptCap
  PROVE  FInv'
<1> USE DEF FInv
<1>0. /\ PRTypeOK /\ fart \in FixArtifacts /\ git \in GitType /\ Rebased \in GitType
      /\ fail \in Failure \cup {NoFailure}
  BY RebasedType DEF FTypeOK, PRTypeOK
<1>1. CASE Reconcile
  <2>1. PRTypeOK' /\ fhist' = fhist
    BY <1>0, <1>1, FetchType DEF Reconcile, PRTypeOK
  <2>2. fart' \in FixArtifacts /\ fart'.total = fart.total /\ fart'.triaged = fart.triaged
    BY <1>0, <1>1, NewHeadArtifacts DEF Reconcile
  <2>3. \/ Ends("blocked")
        \/ /\ fpc' = "passes" /\ fseen' \in {"SYNCED", "UNAVAILABLE"}
           /\ UNCHANGED <<fst, fail, tries, late, crashes>>
    BY <1>1 DEF Reconcile
  <2>4. CASE Ends("blocked")
    BY <2>1, <2>2, <2>4, EndsKeeps
  <2>5. CASE /\ fpc' = "passes" /\ fseen' \in {"SYNCED", "UNAVAILABLE"}
             /\ UNCHANGED <<fst, fail, tries, late, crashes>>
    BY <1>1, <2>1, <2>2, <2>5
       DEF Reconcile, FTypeOK, Places, Labels, Charged, Sentinel, FixArtifacts, FixHistory
  <2> QED BY <2>3, <2>4, <2>5
<1>2. CASE DeterministicPass
  <2>1. PRTypeOK' /\ fhist' = fhist
    BY <1>0, <1>2, PushType DEF DeterministicPass, PRTypeOK
  <2>2. fart' \in FixArtifacts /\ fart'.total = fart.total /\ fart'.triaged = fart.triaged
    BY <1>0, <1>2, NewHeadArtifacts DEF DeterministicPass
  <2>3. To("finalize") \/ To("cap")
    BY <1>2 DEF DeterministicPass
  <2> QED BY <2>1, <2>2, <2>3, GoesKeeps DEF Labels
<1>3. CASE AttemptCap
  <2> DEFINE count == IF fart.checkset = fail.checks THEN fart.total ELSE 0
  <2>1. /\ PRTypeOK' /\ fpc = "cap" /\ count \in 0..MaxTotalAttempts
        /\ fart' = [fart EXCEPT !.checkset = fail.checks,
                                !.total = IF count >= MaxTotalAttempts THEN MaxTotalAttempts ELSE count + 1]
        /\ fhist' = IF fart.checkset = fail.checks THEN fhist ELSE [fhist EXCEPT !.agents = 0]
        /\ IF count >= MaxTotalAttempts THEN Ends("blocked") ELSE To("agent")
    BY <1>0, <1>3, CiFixConstants DEF AttemptCap, Same, PRTypeOK, FixArtifacts
  <2>2. /\ fart' \in FixArtifacts /\ fart'.triaged = fart.triaged
        /\ fart'.total = IF count >= MaxTotalAttempts THEN MaxTotalAttempts ELSE count + 1
    <3>1. fail.checks \in Checks \cup {None}
      BY FailChecks
    <3>2. (IF count >= MaxTotalAttempts THEN MaxTotalAttempts ELSE count + 1) \in 0..MaxTotalAttempts
      BY <2>1, CiFixConstants
    <3> QED BY <1>0, <2>1, <3>1, <3>2 DEF FixArtifacts
  <2>3. /\ fhist' \in FixHistory /\ fhist'.dismissals = fhist.dismissals
        /\ fhist'.agents <= count
    BY <2>1 DEF FTypeOK, FixHistory, Charged, FixArtifacts
  <2>4. Charged' /\ Sentinel'
    <3>1. CASE count >= MaxTotalAttempts
      <4>1. fpc' = "idle" /\ fart'.total = MaxTotalAttempts
        BY <2>1, <2>2, <3>1 DEF Ends
      <4> QED BY <2>1, <2>2, <2>3, <4>1, CiFixConstants DEF Charged, Sentinel, FixHistory, FTypeOK
    <3>2. CASE ~(count >= MaxTotalAttempts)
      <4>1. fpc' = "agent" /\ fart'.total = count + 1
        BY <2>1, <2>2, <3>2 DEF To
      <4> QED BY <2>1, <2>2, <2>3, <4>1, CiFixConstants DEF Charged, Sentinel, FixHistory, FTypeOK
    <3> QED BY <3>1, <3>2
  <2>5. FTypeOK' /\ Places'
    BY <2>1, <2>2, <2>3, CiFixConstants DEF Ends, To, FTypeOK, Places, Labels
  <2> QED BY <2>4, <2>5
<1> QED BY <1>1, <1>2, <1>3

\* The agent: it answers, fails, uses its budget up or is left behind.
LEMMA AgentStep ==
  ASSUME FInv, AgentAnswers \/ AgentBudget \/ AgentTimeout \/ LateAgent \/ AgentFailed
  PROVE  FInv'
<1> USE DEF FInv
<1>0. PRTypeOK /\ fart \in FixArtifacts /\ git \in GitType /\ Rebased \in GitType /\ fhist \in FixHistory
  BY RebasedType DEF FTypeOK, PRTypeOK
<1>1. CASE AgentAnswers \/ AgentBudget \/ AgentTimeout
  <2>1. PRTypeOK'
    BY <1>0, <1>1, PushType DEF AgentAnswers, AgentBudget, AgentTimeout, Same, PRTypeOK
  <2>2. fart' \in FixArtifacts /\ fart'.total = fart.total /\ fart'.triaged = fart.triaged
    BY <1>0, <1>1, NewHeadArtifacts DEF AgentAnswers, AgentBudget, AgentTimeout
  <2>3. fpc = "agent" /\ fhist' = [fhist EXCEPT !.agents = @ + 1]
    BY <1>1 DEF AgentAnswers, AgentBudget, AgentTimeout
  <2>4. fhist' \in FixHistory /\ fhist'.agents = fhist.agents + 1 /\ fhist'.dismissals = fhist.dismissals
    BY <1>0, <2>3 DEF FixHistory
  <2>5. /\ fpc' \in {"finalize", "outofscope", "failed", "idle"} /\ fst' \in {fst, "blocked"}
        /\ fail' \in {fail, NoFailure} /\ fseen' \in {fseen, None} /\ tries' \in {tries, 0}
        /\ late' \in {late, TRUE} /\ crashes' = crashes
    BY <1>1 DEF AgentAnswers, AgentBudget, AgentTimeout, Ends, To
  <2>6. FTypeOK'
    <3>1. tries' \in 0..PushRetryBudget
      BY <2>5, CiFixConstants DEF FTypeOK
    <3>2. late' \in BOOLEAN
      BY <2>5 DEF FTypeOK
    <3> QED BY <2>1, <2>2, <2>4, <2>5, <3>1, <3>2 DEF FTypeOK
  <2>7. Places'
    BY <2>5 DEF Places, Labels
  <2> QED BY <1>0, <2>2, <2>3, <2>4, <2>5, <2>6, <2>7 DEF Charged, Sentinel, FixHistory, FixArtifacts
<1>2. CASE LateAgent
  <2>1. PRTypeOK'
    BY <1>0, <1>2, PushType DEF LateAgent, PRTypeOK
  <2>2. fart' \in FixArtifacts /\ fart'.total = fart.total /\ fart'.triaged = fart.triaged
    BY <1>0, <1>2, NewHeadArtifacts DEF LateAgent
  <2> QED BY <1>0, <1>2, <2>1, <2>2 DEF LateAgent, FTypeOK, Places, Charged, Sentinel
<1>3. CASE AgentFailed
  BY <1>0, <1>3, EndsKeeps DEF AgentFailed, Kept, PRTypeOK
<1> QED BY <1>1, <1>2, <1>3

\* The check of the push, and the pushes that are tried until one lands.
LEMMA FinalStep ==
  ASSUME FInv, FinalCheck \/ LandRebase \/ LandPush
  PROVE  FInv'
<1> USE DEF FInv
<1>0. /\ PRTypeOK /\ fart \in FixArtifacts /\ git \in GitType /\ tries \in 0..PushRetryBudget
  BY DEF FTypeOK, PRTypeOK
<1>1. CASE FinalCheck
  <2>1. PRTypeOK' /\ fhist' = fhist
    BY <1>0, <1>1, FetchType DEF FinalCheck, PRTypeOK
  <2>2. fart' \in FixArtifacts /\ fart'.total = fart.total /\ fart'.triaged = fart.triaged
    BY <1>0, <1>1 DEF FinalCheck, FixArtifacts
  <2>3. \/ Ends("implement_complete") \/ Ends("blocked")
        \/ To("land") /\ tries # PushRetryBudget
    BY <1>1 DEF FinalCheck
  <2>4. CASE To("land") /\ tries # PushRetryBudget
    <3>1. Places'
      BY <1>0, <2>4, CiFixConstants DEF To, Places, Labels
    <3>2. FTypeOK'
      BY <2>1, <2>2, <2>4 DEF To, FTypeOK
    <3> QED BY <2>1, <2>2, <2>4, <3>1, <3>2 DEF To, Charged, Sentinel, FixHistory, FixArtifacts, FTypeOK
  <2> QED BY <2>1, <2>2, <2>3, <2>4, EndsKeeps
<1>2. CASE LandRebase
  <2>1. CASE Ends("blocked") /\ UNCHANGED <<git, fart>>
    BY <1>0, <1>2, <2>1, EndsKeeps DEF LandRebase, PRTypeOK
  <2>2. CASE /\ git' = [git EXCEPT !.foreign = FALSE, !.track = "current", !.ahead = TRUE]
             /\ fart' = OnNewHead(fart) /\ To("landpush")
    <3>1. PRTypeOK' /\ fhist' = fhist
      BY <1>0, <1>2, <2>2 DEF LandRebase, PRTypeOK, GitType
    <3>2. fart' \in FixArtifacts /\ fart'.total = fart.total /\ fart'.triaged = fart.triaged
      BY <1>0, <2>2, NewHeadArtifacts
    <3>3. Places' /\ FTypeOK'
      BY <1>2, <2>2, <3>1, <3>2 DEF LandRebase, To, Places, Labels, FTypeOK
    <3> QED BY <1>2, <2>2, <3>1, <3>2, <3>3 DEF LandRebase, To, Charged, Sentinel, FixHistory, FixArtifacts, FTypeOK
  <2> QED BY <1>2, <2>1, <2>2 DEF LandRebase
<1>3. CASE LandPush
  <2>1. PRTypeOK' /\ fhist' = fhist /\ fpc = "landpush" /\ tries < PushRetryBudget
    BY <1>0, <1>3, PushType DEF LandPush, Same, PRTypeOK, Places
  <2>2. fart' \in FixArtifacts /\ fart'.total = fart.total /\ fart'.triaged = fart.triaged
    BY <1>0, <1>3, NewHeadArtifacts DEF LandPush
  <2>3. /\ tries' = tries + 1 /\ UNCHANGED <<fail, fseen, late, crashes>>
        /\ fst' \in {fst, "blocked"} /\ fpc' \in {"finalize", "idle", "land"}
        /\ fpc' = "land" => tries' # PushRetryBudget
    BY <1>3 DEF LandPush
  <2>4. tries' \in 0..PushRetryBudget /\ (tries' # PushRetryBudget => tries' < PushRetryBudget)
    BY <1>0, <2>1, <2>3, CiFixConstants
  <2>5. Places' /\ FTypeOK'
    BY <2>1, <2>2, <2>3, <2>4 DEF Places, Labels, FTypeOK
  <2> QED BY <2>1, <2>2, <2>3, <2>5 DEF Charged, Sentinel, FixHistory, FixArtifacts, FTypeOK
<1> QED BY <1>1, <1>2, <1>3

\* The failure is somebody else's.
LEMMA OutOfScopeStep ==
  ASSUME FInv, InScopeAfterAll \/ RefreshStaleBranch \/ RecheckMergedFix \/ SpawnOrReuseFix
  PROVE  FInv'
<1> USE DEF FInv
<1>0. PRTypeOK /\ fart \in FixArtifacts /\ git \in GitType
  BY DEF FTypeOK, PRTypeOK
<1>1. PRTypeOK' /\ fhist' = fhist
  <2>1. CASE rerun_workflows
    BY <1>0, <2>1, ForgeType DEF InScopeAfterAll, RefreshStaleBranch, RecheckMergedFix, SpawnOrReuseFix, Kept
  <2>2. CASE pr' = NewHead /\ git' = [git EXCEPT !.track = IF @ = "absent" THEN @ ELSE "stale"]
    <3>1. pr' \in PullRequestType /\ git' \in GitType
      BY <1>0, <2>2, HeadType DEF GitType
    <3> QED BY <3>1 DEF InScopeAfterAll, RefreshStaleBranch, RecheckMergedFix, SpawnOrReuseFix, Kept, PRTypeOK
  <2>3. CASE Same
    BY <1>0, <2>3 DEF Same, PRTypeOK, InScopeAfterAll, RefreshStaleBranch, RecheckMergedFix, SpawnOrReuseFix, Kept
  <2> QED BY <2>1, <2>2, <2>3 DEF InScopeAfterAll, RefreshStaleBranch, RecheckMergedFix, SpawnOrReuseFix, Kept, Same
<1>2. fart' \in FixArtifacts /\ fart'.total = fart.total /\ fart'.triaged = fart.triaged
  BY <1>0, NewHeadArtifacts
     DEF InScopeAfterAll, RefreshStaleBranch, RecheckMergedFix, SpawnOrReuseFix, Kept, FixArtifacts
<1>3. Ends("implement_complete") \/ Ends("blocked")
  BY DEF InScopeAfterAll, RefreshStaleBranch, RecheckMergedFix, SpawnOrReuseFix
<1> QED BY <1>1, <1>2, <1>3, EndsKeeps

LEMMA SurroundingsStep ==
  ASSUME FInv, SentBack \/ FCrash \/ FOutside
  PROVE  FInv'
<1> USE DEF FInv
<1>0. PRTypeOK /\ fart \in FixArtifacts
  BY DEF FTypeOK
<1>1. CASE SentBack
  <2>1. fst' \in {"fixing_ci", "implement_complete"} /\ PRTypeOK'
    BY <1>0, <1>1 DEF SentBack, Kept, PRTypeOK
  <2> QED BY <1>1, <2>1 DEF SentBack, Kept, FTypeOK, Places, Charged, Sentinel
<1>2. CASE FCrash
  <2>1. /\ PRTypeOK' /\ fpc' = "idle" /\ fail' = NoFailure /\ fseen' = None /\ tries' = 0
        /\ crashes' = crashes + 1 /\ crashes < MaxCrashes /\ UNCHANGED <<fst, fart, fhist>>
    BY <1>0, <1>2 DEF FCrash, Kept, PRTypeOK
  <2>2. late' \in BOOLEAN
    BY <1>2 DEF FCrash
  <2>3. crashes' \in 0..MaxCrashes /\ tries' \in 0..PushRetryBudget
    BY <2>1, CiFixConstants DEF FTypeOK
  <2>4. FTypeOK' /\ Places'
    BY <2>1, <2>2, <2>3 DEF FTypeOK, Places, Labels
  <2> QED BY <2>1, <2>4 DEF Charged, Sentinel, FixHistory, FixArtifacts, FTypeOK
<1>3. CASE FOutside
  <2>1. PRTypeOK'
    BY <1>0, <1>3, ForgeType DEF FOutside
  <2>2. fart' \in FixArtifacts /\ fart'.total = fart.total /\ fart'.triaged = fart.triaged
    BY <1>0, <1>3, NewHeadArtifacts DEF FOutside
  <2> QED BY <1>3, <2>1, <2>2 DEF FOutside, FTypeOK, Places, Charged, Sentinel
<1> QED BY <1>1, <1>2, <1>3

LEMMA StepFInv == FInv /\ [FNext]_fvars => FInv'
<1> SUFFICES ASSUME FInv, [FNext]_fvars PROVE FInv'
  OBVIOUS
<1>1. CASE UNCHANGED fvars
  BY <1>1 DEF fvars, FInv, FTypeOK, PRTypeOK, Places, Charged, Sentinel
<1>2. CASE FStage
  BY <1>2, OpeningStep, TriageStep, PassesStep, AgentStep, FinalStep, OutOfScopeStep DEF FStage
<1>3. CASE LateAgent \/ SentBack \/ FCrash \/ FOutside
  BY <1>3, AgentStep, SurroundingsStep
<1> QED BY <1>1, <1>2, <1>3 DEF FNext

-----------------------------------------------------------------------------

(***************************************************************************)
(* The inductive invariant of the stage: attempts are charged before the   *)
(* agent runs (_check_total_attempt_cap), the sentinel of the triage is    *)
(* written before the question.                                            *)
(***************************************************************************)
THEOREM FixInvariant == FSpec => []FInv
<1> QED BY InitFInv, StepFInv, PTL DEF FSpec

(***************************************************************************)
(* For one set of failing checks the agent runs at most                    *)
(* ci_fix_max_total_attempts times and alerts are dismissed once, however  *)
(* often the process dies between two steps of ci_fix.py, and however      *)
(* often the merge stage or the operator sends the ticket back.            *)
(***************************************************************************)
THEOREM FixStaysBounded == FSpec => []FixIsBounded
<1>1. FInv => FixIsBounded
  <2> SUFFICES ASSUME FInv PROVE FixIsBounded
    OBVIOUS
  <2>1. FTypeOK /\ fhist \in FixHistory /\ fart \in FixArtifacts
    BY DEF FInv, FTypeOK
  <2>2. AgentRunsBounded
    BY <2>1, CiFixConstants DEF FInv, Charged, AgentRunsBounded, FixHistory, FixArtifacts
  <2>3. DismissedOnce
    BY <2>1 DEF FInv, Sentinel, DismissedOnce, FixHistory
  <2> QED BY <2>1, <2>2, <2>3 DEF FixIsBounded
<1> QED BY <1>1, FixInvariant, PTL

-----------------------------------------------------------------------------
(* A change of several repositories                                        *)

Shipped == {"IMPLEMENT_COMPLETE", "HUMAN_MR_APPROVAL", "ADDRESSING_REVIEW"}
TicketRec == [st : XStates, from : XStates, missing : 0..(MaxMissing + 1), guard : 0..MaxIdentical,
              triaged : BOOLEAN]
CountRec == [rebase : 0..MaxRebases, fix : 0..MaxFixes, cycles : 0..MaxFixCycles]
BranchRec == [work : BOOLEAN, pr : {"none", "open", "merged", "closed"},
              ci : {"running", "red", "green"}, clean : BOOLEAN, behind : BOOLEAN]
PassRec == [pc : {"idle", "deliver", "poll", "fix", "agent", "merge"}, todo : SUBSET Repos,
            got : [Repos -> Statuses], opened : SUBSET Repos]
WorldRec == [moves : Nat, resumes : Nat, runs : [Repos -> Nat]]

ShipTypes ==
  /\ mt \in TicketRec /\ cnt \in [Repos -> CountRec] /\ req \in [Repos -> BranchRec]
  /\ touched \subseteq Repos /\ man \subseteq Repos /\ pass \in PassRec /\ world \in WorldRec
  /\ world.moves + world.resumes <= MaxOutside

\* Where a run of a stage may be for each state of the ticket.
WherePassRuns ==
  /\ mt.st # "BLOCKED" => mt.from = mt.st
  /\ mt.st = "BLOCKED" => mt.from \notin {"BLOCKED", "DONE"}
  /\ pass.pc = "deliver" => mt.st = "DELIVERABLE"
  /\ pass.pc \in {"poll", "fix", "agent", "merge"} => mt.st \in {"IMPLEMENT_COMPLETE", "HUMAN_MR_APPROVAL"}
  /\ pass.pc \in {"fix", "agent"} => \E r \in Repos : pass.opened = {r}
  /\ pass.pc = "agent" => \A r \in pass.opened : cnt[r].fix + 1 <= MaxFixes

\* Only a touched repository holds work.
WorkIsTouched == \A r \in Repos : req[r].work => r \in touched

\* What a run of deliver has passed over held no work, and the manifest lists
\* what it opened.
DeliveredSoFar ==
  pass.pc = "deliver" =>
    /\ \A r \in touched \ pass.todo : req[r].work => r \in pass.opened
    /\ pass.opened # {} => man = pass.opened

\* Once delivered, all work is in a pull request of the manifest, whether the
\* ticket is in a state after delivery or blocked from one.
AllTracked == mt.from \in Shipped => \A r \in Repos : req[r].work => r \in man

\* A poll's answers that are acted on stay true until it ends.
PollIsTrue ==
  pass.pc = "poll" => \A r \in Repos :
    /\ pass.got[r] = "merged" => req[r].pr = "merged"
    /\ pass.got[r] = "failing_ci" => req[r].ci = "red"

Behind(r) == IF req[r].behind THEN 1 ELSE 0

\* An agent run to come that no further charge stands for.
Due(r) == IF r \in pass.opened /\ (pass.pc = "agent" \/ (pass.pc = "fix" /\ req[r].ci = "running")) THEN 1 ELSE 0

\* Every agent run was charged a cycle or follows an update from main, and an
\* update follows a move of main.
RunsCharged ==
  /\ \A r \in Repos : req[r].behind => world.moves > 0
  /\ mt.st # "BLOCKED" /\ MaxFixCycles > 0 =>
       \A r \in Repos : world.runs[r] + Due(r) + Behind(r) <= cnt[r].cycles + world.moves

ShipInv ==
  /\ ShipTypes /\ WherePassRuns /\ WorkIsTouched /\ DeliveredSoFar /\ AllTracked /\ PollIsTrue
  /\ FixRunsBounded /\ RunsCharged

LEMMA ConstantsAreNumbers ==
    /\ MaxRebases \in Nat /\ MaxFixes \in Nat /\ MaxFixCycles \in Nat
    /\ MaxMissing \in Nat /\ MaxIdentical \in Nat /\ MaxOutside \in Nat
  BY MultiRepoConstants

LEMMA NoPassTyped == NoPass \in PassRec
  BY DEF NoPass, PassRec, Statuses

\* What the end of a run makes of the ticket.
LEMMA EndsTyped ==
    ASSUME mt \in TicketRec, NEW m \in TicketRec, NEW d \in XStates, EndsWith(m, d)
    PROVE  /\ mt' \in TicketRec /\ pass' = NoPass /\ pass' \in PassRec
           /\ mt'.st = d /\ mt'.from = IF d = "BLOCKED" THEN mt.st ELSE d
  BY Zenon, SMT DEF EndsWith, TicketRec, PassRec, NoPass, Statuses, XStates

\* A new commit on a branch restarts its checks and changes no other branch.
LEMMA TipTyped ==
    ASSUME req \in [Repos -> BranchRec], NEW r \in Repos
    PROVE  /\ NewTip(r) \in [Repos -> BranchRec]
           /\ \A q \in Repos : NewTip(r)[q].work = req[q].work /\ NewTip(r)[q].pr = req[q].pr
                               /\ (q # r => NewTip(r)[q] = req[q])
           /\ NewTip(r)[r].ci = "running" /\ NewTip(r)[r].behind = FALSE
  BY DEF NewTip, BranchRec

\* The same of a new commit on a branch that a rebase cleaned or deliver opened.
LEMMA TipChanged ==
    ASSUME req \in [Repos -> BranchRec], NEW r \in Repos
    PROVE  /\ \A q \in Repos : [NewTip(r) EXCEPT ![r].clean = TRUE][q].work = req[q].work
                               /\ [NewTip(r) EXCEPT ![r].pr = "open"][q].work = req[q].work
                               /\ (q # r => [NewTip(r) EXCEPT ![r].clean = TRUE][q] = req[q])
                               /\ (q # r => [NewTip(r) EXCEPT ![r].pr = "open"][q] = req[q])
           /\ [NewTip(r) EXCEPT ![r].clean = TRUE][r].behind = FALSE
           /\ [NewTip(r) EXCEPT ![r].pr = "open"][r].behind = FALSE
<1> DEFINE tip == NewTip(r)
<1>1. /\ tip \in [Repos -> BranchRec] /\ tip[r].behind = FALSE
      /\ \A q \in Repos : tip[q].work = req[q].work /\ (q # r => tip[q] = req[q])
  BY TipTyped
<1> HIDE DEF tip
<1>2. /\ \A q \in Repos : [tip EXCEPT ![r].clean = TRUE][q].work = req[q].work
                          /\ (q # r => [tip EXCEPT ![r].clean = TRUE][q] = req[q])
      /\ [tip EXCEPT ![r].clean = TRUE][r].behind = FALSE
  BY <1>1 DEF BranchRec
<1>3. /\ \A q \in Repos : [tip EXCEPT ![r].pr = "open"][q].work = req[q].work
                          /\ (q # r => [tip EXCEPT ![r].pr = "open"][q] = req[q])
      /\ [tip EXCEPT ![r].pr = "open"][r].behind = FALSE
  BY <1>1 DEF BranchRec
<1> QED
  BY <1>2, <1>3 DEF tip

LEMMA OneFixed ==
    ASSUME NEW r \in Repos, pass.opened = {r}
    PROVE  Fixing = r
  BY DEF Fixing

LEMMA EndsInTypes ==
    ASSUME mt \in TicketRec, NEW d \in XStates, EndsIn(d)
    PROVE  /\ mt' \in TicketRec /\ pass' = NoPass /\ pass' \in PassRec
           /\ mt'.st = d /\ mt'.from = IF d = "BLOCKED" THEN mt.st ELSE d
<1>1. EndsWith(mt, d)
  BY DEF EndsIn, EndsWith
<1> QED
  BY <1>1, EndsTyped

LEMMA TypesKept ==
    ASSUME ShipTypes, WherePassRuns, XNext
    PROVE  ShipTypes'
<1> USE ConstantsAreNumbers
<1> USE DEF ShipTypes
<1>0. mt.st \in XStates /\ {"DONE", "BLOCKED", "IMPLEMENT_COMPLETE", "HUMAN_MR_APPROVAL", "ADDRESSING_REVIEW"} \subseteq XStates
  BY DEF TicketRec, XStates
<1>1. CASE StartDelivery
  <2>1. CASE touched = {}
    BY <1>1, <2>1, <1>0, EndsInTypes DEF StartDelivery
  <2>2. CASE touched # {}
    <3>1. pass' \in PassRec
      BY <1>1, <2>2, NoPassTyped DEF StartDelivery, PassRec
    <3> QED
      BY <1>1, <2>2, <3>1 DEF StartDelivery
  <2> QED
    BY <2>1, <2>2
<1>2. CASE MergeGuard
  <2>1. [mt EXCEPT !.guard = IF @ = MaxIdentical THEN @ ELSE @ + 1] \in TicketRec
    BY DEF TicketRec
  <2> QED
    BY <1>2, <2>1, <1>0, EndsTyped DEF MergeGuard
<1>3. CASE Deliver
  <2>1. PICK r \in pass.todo : DeliverFails(r) \/ DeliverRepo(r) \/ SkipRepo(r)
    BY <1>3 DEF Deliver
  <2>2. r \in Repos /\ {r} \in SUBSET Repos
    BY DEF PassRec
  <2>3. CASE DeliverFails(r)
    BY <2>3, <1>0, EndsInTypes DEF DeliverFails
  <2>4. CASE DeliverRepo(r)
    <3>1. req' \in [Repos -> BranchRec]
      <4>1. NewTip(r) \in [Repos -> BranchRec]
        BY <2>2, TipTyped
      <4>2. [NewTip(r) EXCEPT ![r].pr = "open"] \in [Repos -> BranchRec]
        BY <2>2, <4>1 DEF BranchRec
      <4> QED
        BY <2>4, <4>2 DEF DeliverRepo
    <3>2. pass' \in PassRec /\ man' \subseteq Repos
      BY <2>4, <2>2 DEF DeliverRepo, PassRec
    <3> QED
      BY <2>4, <3>1, <3>2 DEF DeliverRepo
  <2>5. CASE SkipRepo(r)
    BY <2>5, <2>2 DEF SkipRepo, PassRec
  <2> QED
    BY <2>1, <2>3, <2>4, <2>5
<1>4. CASE EndDelivery
  BY <1>4, <1>0, EndsInTypes DEF EndDelivery
<1>5. CASE StartPoll
  BY <1>5 DEF StartPoll, PassRec, NoPass, Statuses
<1>6. CASE PollRepo
  <2>1. PICK r \in pass.todo, x \in {"pending", "pr_missing", "merged", "closed_unmerged", "conflicting", "failing_ci", "green"} :
           /\ pass' = [pass EXCEPT !.todo = @ \ {r}, !.got[r] = x]
           /\ IF x = "green"
              THEN cnt' = [cnt EXCEPT ![r].cycles = 0] /\ world' = [world EXCEPT !.runs[r] = 0]
              ELSE UNCHANGED <<cnt, world>>
    BY <1>6 DEF PollRepo, StatusOf
  <2>2. r \in Repos /\ x \in Statuses
    BY DEF PassRec, Statuses
  <2>3. pass' \in PassRec
    BY <2>1, <2>2 DEF PassRec
  <2>4. cnt' \in [Repos -> CountRec]
    BY <2>1, <2>2 DEF CountRec
  <2>5. world' \in WorldRec /\ world'.moves = world.moves /\ world'.resumes = world.resumes
    BY <2>1, <2>2 DEF WorldRec
  <2> QED
    BY <1>6, <2>3, <2>4, <2>5 DEF PollRepo
<1>7. CASE DecideClosed
  BY <1>7, <1>0, EndsInTypes DEF DecideClosed
<1>8. CASE DecideRebase
  <2>1. PICK r \in Repos : Rebase(r)
    BY <1>8 DEF DecideRebase, With
  <2>2. [mt EXCEPT !.missing = 0] \in TicketRec
    BY DEF TicketRec
  <2>3. mt' \in TicketRec /\ pass' \in PassRec
    BY <2>1, <2>2, <1>0, EndsTyped DEF Rebase
  <2>4. req' \in [Repos -> BranchRec]
    <3>1. NewTip(r) \in [Repos -> BranchRec]
      BY TipTyped
    <3>2. [NewTip(r) EXCEPT ![r].clean = TRUE] \in [Repos -> BranchRec]
      BY <3>1 DEF BranchRec
    <3> QED
      BY <2>1, <3>1, <3>2 DEF Rebase
  <2>5. cnt' \in [Repos -> CountRec]
    BY <2>1 DEF Rebase, CountRec
  <2> QED
    BY <2>1, <2>3, <2>4, <2>5 DEF Rebase
<1>9. CASE DecideFix
  <2>1. PICK r \in Repos : /\ pass' = [NoPass EXCEPT !.pc = "fix", !.opened = {r}]
                           /\ req' = IF req[r].behind THEN NewTip(r) ELSE req
    BY <1>9 DEF DecideFix, With
  <2>2. mt' \in TicketRec
    BY <1>9 DEF DecideFix, TicketRec
  <2>3. pass' \in PassRec
    BY <2>1 DEF PassRec, NoPass, Statuses
  <2> QED
    BY <1>9, <2>1, <2>2, <2>3, TipTyped DEF DecideFix
<1>10. CASE DecideDone
  BY <1>10, <1>0, EndsInTypes DEF DecideDone
<1>11. CASE DecideMerge
  <2>1. mt' \in TicketRec /\ pass' \in PassRec
    <3>1. With("green") \subseteq Repos
      BY DEF With
    <3>2. [NoPass EXCEPT !.pc = "merge", !.todo = With("green")] \in PassRec
      BY <3>1, NoPassTyped DEF PassRec
    <3> QED
      BY <1>11, <3>2, <1>0, EndsInTypes DEF DecideMerge
  <2> QED
    BY <1>11, <2>1 DEF DecideMerge
<1>12. CASE DecideMissing
  <2>1. [mt EXCEPT !.missing = IF mt.missing + 1 > MaxMissing THEN MaxMissing + 1 ELSE mt.missing + 1] \in TicketRec
    BY DEF TicketRec
  <2> QED
    BY <1>12, <2>1, <1>0, EndsTyped, EndsInTypes DEF DecideMissing
<1>13. CASE DecidePending
  <2>1. [mt EXCEPT !.missing = 0] \in TicketRec
    BY DEF TicketRec
  <2> QED
    BY <1>13, <2>1, <1>0, EndsTyped DEF DecidePending
<1>14. CASE MergeOne
  <2>1. PICK r \in Repos :
       \/ /\ req' = [req EXCEPT ![r].pr = "merged"]
          /\ pass' = [pass EXCEPT !.todo = @ \ {r}] /\ UNCHANGED mt
       \/ EndsIn(mt.st) /\ UNCHANGED req
    BY <1>14 DEF MergeOne, PassRec
  <2>2. mt' \in TicketRec /\ pass' \in PassRec
    BY <2>1, <1>0, EndsInTypes DEF PassRec
  <2>3. req' \in [Repos -> BranchRec]
    BY <2>1 DEF BranchRec
  <2> QED
    BY <1>14, <2>2, <2>3 DEF MergeOne
<1>15. CASE EndMerge
  BY <1>15, <1>0, EndsInTypes DEF EndMerge
<1>16. CASE FixReread \/ FixTriage \/ FixLimits \/ FixAgent
  <2>1. PICK r \in Repos : Fixing = r /\ pass.opened = {r}
    BY <1>16, OneFixed DEF WherePassRuns, FixReread, FixTriage, FixLimits, FixAgent
  <2>2. CASE FixReread
    <3>1. mt' \in TicketRec /\ pass' \in PassRec
      BY <2>2, <1>0, EndsInTypes DEF FixReread
    <3>2. cnt' \in [Repos -> CountRec]
      BY <2>1, <2>2 DEF FixReread, CountRec
    <3>3. world' \in WorldRec /\ world'.moves = world.moves /\ world'.resumes = world.resumes
      BY <2>1, <2>2 DEF FixReread, WorldRec
    <3> QED
      BY <2>2, <3>1, <3>2, <3>3 DEF FixReread
  <2>3. CASE FixTriage
    <3>1. [mt EXCEPT !.triaged = TRUE] \in TicketRec
      BY DEF TicketRec
    <3> QED
      BY <2>1, <2>3, <3>1, <1>0, EndsTyped, TipTyped DEF FixTriage
  <2>4. CASE FixLimits
    <3>1. mt' \in TicketRec /\ pass' \in PassRec
      BY <2>4, <1>0, EndsInTypes DEF FixLimits, PassRec
    <3>2. cnt' \in [Repos -> CountRec]
      BY <2>1, <2>4 DEF FixLimits, CountRec, ChargedCycles
    <3> QED
      BY <2>4, <3>1, <3>2 DEF FixLimits
  <2>5. CASE FixAgent
    <3>1. mt' \in TicketRec /\ pass' \in PassRec /\ req' \in [Repos -> BranchRec]
      BY <2>1, <2>5, <1>0, EndsInTypes, TipTyped DEF FixAgent
    <3>2. cnt[r].fix + 1 \in 0..MaxFixes
      BY <2>1, <2>5 DEF WherePassRuns, FixAgent, CountRec
    <3>3. cnt' \in [Repos -> CountRec]
      BY <2>1, <2>5, <3>2 DEF FixAgent, CountRec
    <3>4. world' \in WorldRec /\ world'.moves = world.moves /\ world'.resumes = world.resumes
      BY <2>1, <2>5 DEF FixAgent, WorldRec
    <3> QED
      BY <2>5, <3>1, <3>3, <3>4 DEF FixAgent
  <2> QED
    BY <1>16, <2>2, <2>3, <2>4, <2>5
<1>17. CASE CiEnds
  <2>1. req' \in [Repos -> BranchRec]
    BY <1>17 DEF CiEnds, BranchRec
  <2> QED
    BY <1>17, <2>1 DEF CiEnds
<1>18. CASE PersonActs
  <2>1. req' \in [Repos -> BranchRec]
    BY <1>18 DEF PersonActs, BranchRec
  <2> QED
    BY <1>18, <2>1 DEF PersonActs
<1>19. CASE MainMoves
  <2>1. req' \in [Repos -> BranchRec]
    <3>1. PICK r \in Repos, c \in BOOLEAN : req' = [req EXCEPT ![r].behind = TRUE, ![r].clean = c]
      BY <1>19 DEF MainMoves
    <3> QED
      BY <3>1 DEF BranchRec
  <2>2. world' \in WorldRec /\ world'.moves + world'.resumes <= MaxOutside
    BY <1>19 DEF MainMoves, WorldRec
  <2> QED
    BY <1>19, <2>1, <2>2 DEF MainMoves
<1>20. CASE OperatorResumesRepos
  <2>1. mt' \in TicketRec
    BY <1>20 DEF OperatorResumesRepos, TicketRec, XStates
  <2>2. req' \in [Repos -> BranchRec] /\ touched' \subseteq Repos
    <3>1. CASE UNCHANGED <<req, touched>>
      BY <3>1
    <3>2. CASE /\ touched' \in SUBSET Repos
               /\ \E w \in SUBSET touched' :
                    req' = [r \in Repos |-> [req[r] EXCEPT !.work = r \in w /\ req[r].pr # "merged"]]
      <4>1. PICK w \in SUBSET touched' :
               req' = [r \in Repos |-> [req[r] EXCEPT !.work = r \in w /\ req[r].pr # "merged"]]
        BY <3>2
      <4>2. ASSUME NEW r \in Repos
            PROVE  [req[r] EXCEPT !.work = r \in w /\ req[r].pr # "merged"] \in BranchRec
        <5> DEFINE b == r \in w /\ req[r].pr # "merged"
        <5>1. b \in BOOLEAN
          OBVIOUS
        <5> HIDE DEF b
        <5>2. [req[r] EXCEPT !.work = b] \in BranchRec
          BY <5>1 DEF BranchRec
        <5> QED
          BY <5>2 DEF b
      <4> QED
        BY <3>2, <4>1, <4>2
    <3> QED
      BY <1>20, <3>1, <3>2 DEF OperatorResumesRepos
  <2>3. world' \in WorldRec /\ world'.moves + world'.resumes <= MaxOutside
    <3> DEFINE fresh == [r \in Repos |-> 0]
    <3>1. fresh \in [Repos -> Nat]
      OBVIOUS
    <3>2. world' = [world EXCEPT !.resumes = @ + 1, !.runs = fresh] /\ world.moves + world.resumes < MaxOutside
      BY <1>20 DEF OperatorResumesRepos
    <3> HIDE DEF fresh
    <3> DEFINE once == [world EXCEPT !.resumes = @ + 1]
    <3>3. once \in WorldRec /\ once.moves + once.resumes <= MaxOutside
      BY <3>2 DEF WorldRec
    <3>4. world' = [once EXCEPT !.runs = fresh]
      BY <3>2
    <3> HIDE DEF once
    <3> QED
      BY <3>1, <3>3, <3>4 DEF WorldRec
  <2> QED
    BY <1>20, <2>1, <2>2, <2>3 DEF OperatorResumesRepos
<1>21. CASE XCrash
  BY <1>21 DEF XCrash, PassRec, NoPass, Statuses
<1> QED
  BY <1>1, <1>2, <1>3, <1>4, <1>5, <1>6, <1>7, <1>8, <1>9, <1>10, <1>11, <1>12, <1>13, <1>14, <1>15, <1>16,
     <1>17, <1>18, <1>19, <1>20, <1>21 DEF XNext, XStage

\* An outcome ends the run, and a blocked ticket remembers where it was.
LEMMA EndedWhere ==
    ASSUME WherePassRuns, mt.st \notin {"BLOCKED", "DONE"}, pass' = NoPass,
           NEW d, mt'.st = d, mt'.from = IF d = "BLOCKED" THEN mt.st ELSE d
    PROVE  WherePassRuns'
  BY DEF WherePassRuns, NoPass

\* Which actions end the run they belong to, with which state.
Ending ==
  \/ MergeGuard \/ EndDelivery \/ DecideClosed \/ DecideRebase \/ DecideDone \/ DecideMissing \/ DecidePending
  \/ EndMerge \/ FixReread

LEMMA DoneEnds ==
    ASSUME ShipTypes, DecideDone
    PROVE  mt'.st = "DONE" /\ mt'.from = "DONE"
<1>1. "DONE" \in XStates
  BY DEF XStates
<1> QED
  BY <1>1, EndsInTypes DEF DecideDone, ShipTypes

LEMMA EndingEnds ==
    ASSUME ShipTypes, WherePassRuns, Ending
    PROVE  /\ mt.st \notin {"BLOCKED", "DONE"} /\ pass' = NoPass /\ mt' \in TicketRec
           /\ mt'.from = IF mt'.st = "BLOCKED" THEN mt.st ELSE mt'.st
           /\ EndDelivery \/ DecideDone \/ mt'.st \in {"BLOCKED", mt.st}
<1> USE ConstantsAreNumbers
<1> USE DEF ShipTypes
<1>0. mt.st \in XStates /\ {"DONE", "BLOCKED", "IMPLEMENT_COMPLETE", "HUMAN_MR_APPROVAL", "ADDRESSING_REVIEW"} \subseteq XStates
  BY DEF TicketRec, XStates
<1>1. CASE MergeGuard
  <2>1. [mt EXCEPT !.guard = IF @ = MaxIdentical THEN @ ELSE @ + 1] \in TicketRec
    BY DEF TicketRec
  <2> QED
    BY <1>1, <2>1, <1>0, EndsTyped DEF MergeGuard
<1>2. CASE EndDelivery
  BY <1>2, <1>0, EndsInTypes DEF EndDelivery, WherePassRuns
<1>3. CASE DecideClosed \/ DecideDone
  BY <1>3, <1>0, EndsInTypes DEF DecideClosed, DecideDone, Polled, WherePassRuns
<1>4. CASE DecideRebase
  <2>1. PICK r \in Repos : Rebase(r)
    BY <1>4 DEF DecideRebase, With
  <2>2. [mt EXCEPT !.missing = 0] \in TicketRec
    BY DEF TicketRec
  <2>3. mt.st \notin {"BLOCKED", "DONE"}
    BY <1>4 DEF DecideRebase, Repairs, Polled, WherePassRuns
  <2> QED
    BY <2>1, <2>2, <2>3, <1>0, EndsTyped DEF Rebase
<1>5. CASE DecideMissing
  <2>1. [mt EXCEPT !.missing = IF mt.missing + 1 > MaxMissing THEN MaxMissing + 1 ELSE mt.missing + 1] \in TicketRec
    BY DEF TicketRec
  <2>2. mt.st \notin {"BLOCKED", "DONE"}
    BY <1>5 DEF DecideMissing, Settled, Polled, WherePassRuns
  <2> QED
    BY <1>5, <2>1, <2>2, <1>0, EndsTyped, EndsInTypes DEF DecideMissing
<1>6. CASE DecidePending
  <2>1. [mt EXCEPT !.missing = 0] \in TicketRec
    BY DEF TicketRec
  <2>2. mt.st \notin {"BLOCKED", "DONE"}
    BY <1>6 DEF DecidePending, Settled, Polled, WherePassRuns
  <2> QED
    BY <1>6, <2>1, <2>2, <1>0, EndsTyped DEF DecidePending
<1>7. CASE EndMerge \/ FixReread
  BY <1>7, <1>0, EndsInTypes DEF EndMerge, FixReread, WherePassRuns
<1> QED
  BY <1>1, <1>2, <1>3, <1>4, <1>5, <1>6, <1>7 DEF Ending

LEMMA WhereKept ==
    ASSUME ShipTypes, WherePassRuns, XNext
    PROVE  WherePassRuns'
<1> USE ConstantsAreNumbers
<1> USE DEF ShipTypes
<1>0. mt.st \in XStates /\ {"DONE", "BLOCKED", "IMPLEMENT_COMPLETE", "HUMAN_MR_APPROVAL", "ADDRESSING_REVIEW"} \subseteq XStates
  BY DEF TicketRec, XStates
<1>1. CASE Ending
  BY <1>1, EndingEnds, EndedWhere
<1>2. CASE StartDelivery
  <2>1. CASE touched = {}
    BY <1>2, <2>1, <1>0, EndsInTypes, EndedWhere DEF StartDelivery
  <2>2. CASE touched # {}
    <3>1. pass'.pc = "deliver" /\ mt' = mt
      BY <1>2, <2>2, NoPassTyped DEF StartDelivery, PassRec
    <3> QED
      BY <1>2, <3>1 DEF StartDelivery, WherePassRuns
  <2> QED
    BY <2>1, <2>2
<1>3. CASE Deliver
  <2>1. PICK r \in pass.todo : DeliverFails(r) \/ DeliverRepo(r) \/ SkipRepo(r)
    BY <1>3 DEF Deliver
  <2>3. CASE DeliverFails(r)
    BY <1>3, <2>3, <1>0, EndsInTypes, EndedWhere DEF DeliverFails, Deliver, WherePassRuns
  <2>4. CASE DeliverRepo(r) \/ SkipRepo(r)
    BY <1>3, <2>4 DEF Deliver, DeliverRepo, SkipRepo, WherePassRuns, PassRec
  <2> QED
    BY <2>1, <2>3, <2>4
<1>4. CASE StartPoll
  <2>1. pass'.pc = "poll" /\ mt' = mt
    BY <1>4, NoPassTyped DEF StartPoll, PassRec
  <2> QED
    BY <1>4, <2>1 DEF StartPoll, WherePassRuns
<1>5. CASE PollRepo
  <2>1. pass'.pc = "poll" /\ mt' = mt
    BY <1>5 DEF PollRepo, PassRec
  <2> QED
    BY <1>5, <2>1 DEF PollRepo, WherePassRuns
<1>6. CASE DecideFix
  <2>1. PICK r \in Repos : pass' = [NoPass EXCEPT !.pc = "fix", !.opened = {r}]
    BY <1>6 DEF DecideFix, With
  <2>2. pass'.pc = "fix" /\ pass'.opened = {r}
    BY <2>1, NoPassTyped DEF PassRec
  <2>3. mt'.st = mt.st /\ mt'.from = mt.from /\ pass.pc = "poll"
    BY <1>6 DEF DecideFix, TicketRec, Repairs, Polled
  <2> QED
    BY <2>2, <2>3 DEF WherePassRuns
<1>7. CASE DecideMerge
  <2>1. pass.pc = "poll"
    BY <1>7 DEF DecideMerge, Settled, Polled
  <2>2. CASE EndsIn("ADDRESSING_REVIEW") \/ EndsIn("HUMAN_MR_APPROVAL")
    BY <2>1, <2>2, <1>0, EndsInTypes, EndedWhere DEF WherePassRuns
  <2>3. CASE pass' = [NoPass EXCEPT !.pc = "merge", !.todo = With("green")] /\ UNCHANGED mt
    <3>1. pass'.pc = "merge"
      BY <2>3, NoPassTyped DEF PassRec
    <3> QED
      BY <2>1, <2>3, <3>1 DEF WherePassRuns
  <2> QED
    BY <1>7, <2>2, <2>3 DEF DecideMerge
<1>8. CASE MergeOne
  <2>1. CASE EndsIn(mt.st)
    BY <1>8, <2>1, <1>0, EndsInTypes, EndedWhere DEF MergeOne, WherePassRuns
  <2>2. CASE ~EndsIn(mt.st)
    BY <1>8, <2>2 DEF MergeOne, WherePassRuns, PassRec
  <2> QED
    BY <2>1, <2>2
<1>9. CASE FixTriage
  <2>1. [mt EXCEPT !.triaged = TRUE] \in TicketRec
    BY DEF TicketRec
  <2>2. CASE EndsWith([mt EXCEPT !.triaged = TRUE], mt.st)
    BY <1>9, <2>1, <2>2, <1>0, EndsTyped, EndedWhere DEF FixTriage, WherePassRuns
  <2>3. CASE mt' = [mt EXCEPT !.triaged = TRUE] /\ UNCHANGED <<req, pass>>
    <3>1. mt'.st = mt.st /\ mt'.from = mt.from
      BY <2>3 DEF TicketRec
    <3> QED
      BY <1>9, <2>3, <3>1 DEF WherePassRuns, FixTriage
  <2> QED
    BY <1>9, <2>2, <2>3 DEF FixTriage
<1>10. CASE FixLimits
  <2>1. PICK r \in Repos : Fixing = r /\ pass.opened = {r}
    BY <1>10, OneFixed DEF WherePassRuns, FixLimits
  <2>2. CASE EndsIn("BLOCKED")
    BY <1>10, <2>2, <1>0, EndsInTypes, EndedWhere DEF FixLimits, WherePassRuns
  <2>3. CASE ~EndsIn("BLOCKED")
    <3>1. /\ cnt' = [cnt EXCEPT ![r].cycles = ChargedCycles(r)] /\ cnt[r].fix + 1 <= MaxFixes
          /\ pass' = [pass EXCEPT !.pc = "agent"] /\ mt' = mt
      BY <1>10, <2>1, <2>3 DEF FixLimits, CountRec
    <3>2. cnt'[r].fix = cnt[r].fix
      BY <3>1 DEF CountRec
    <3>3. pass'.pc = "agent" /\ pass'.opened = {r}
      BY <2>1, <3>1 DEF PassRec
    <3> QED
      BY <1>10, <3>1, <3>2, <3>3 DEF WherePassRuns, FixLimits
  <2> QED
    BY <2>2, <2>3
<1>11. CASE FixAgent
  BY <1>11, <1>0, EndsInTypes, EndedWhere DEF FixAgent, WherePassRuns
<1>12. CASE CiEnds \/ PersonActs \/ MainMoves
  BY <1>12 DEF CiEnds, PersonActs, MainMoves, WherePassRuns
<1>13. CASE OperatorResumesRepos
  <2>1. pass' = pass /\ pass.pc = "idle"
    BY <1>13 DEF OperatorResumesRepos
  <2>2. mt'.st = mt'.from /\ mt'.st # "BLOCKED"
    BY <1>13 DEF OperatorResumesRepos, TicketRec, WherePassRuns
  <2> QED
    BY <2>1, <2>2 DEF WherePassRuns
<1>14. CASE XCrash
  BY <1>14 DEF XCrash, NoPass, WherePassRuns
<1> QED
  BY <1>1, <1>2, <1>3, <1>4, <1>5, <1>6, <1>7, <1>8, <1>9, <1>10, <1>11, <1>12, <1>13, <1>14
     DEF XNext, XStage, Ending

\* Only the operator, who sends a ticket through implement again, changes which
\* branches hold work.
LEMMA WorkSame ==
    ASSUME ShipTypes, WherePassRuns, XNext, ~OperatorResumesRepos
    PROVE  touched' = touched /\ \A q \in Repos : req'[q].work = req[q].work
<1> USE DEF ShipTypes
<1>1. CASE DecideRebase
  <2>1. PICK r \in Repos : Rebase(r)
    BY <1>1 DEF DecideRebase, With
  <2>2. CASE req' = [NewTip(r) EXCEPT ![r].clean = TRUE]
    BY <2>1, <2>2, TipChanged DEF Rebase
  <2>3. CASE req' = NewTip(r) \/ UNCHANGED req
    BY <2>1, <2>3, TipTyped DEF Rebase
  <2> QED
    BY <2>1, <2>2, <2>3 DEF Rebase
<1>2. CASE Deliver
  <2>1. PICK r \in Repos : DeliverFails(r) \/ DeliverRepo(r) \/ SkipRepo(r)
    BY <1>2 DEF Deliver, PassRec
  <2>2. CASE DeliverRepo(r)
    <3>1. req' = [NewTip(r) EXCEPT ![r].pr = "open"] /\ touched' = touched
      BY <2>2 DEF DeliverRepo
    <3> QED
      BY <3>1, TipChanged
  <2> QED
    BY <2>1, <2>2 DEF DeliverFails, SkipRepo
<1>3. CASE DecideFix
  <2>1. PICK r \in Repos : req' = IF req[r].behind THEN NewTip(r) ELSE req
    BY <1>3 DEF DecideFix, With
  <2> QED
    BY <1>3, <2>1, TipTyped DEF DecideFix
<1>4. CASE MergeOne
  <2>1. PICK r \in Repos : req' = [req EXCEPT ![r].pr = "merged"] \/ UNCHANGED req
    BY <1>4 DEF MergeOne, PassRec
  <2> QED
    BY <1>4, <2>1 DEF MergeOne, BranchRec
<1>5. CASE FixTriage \/ FixAgent
  <2>1. PICK r \in Repos : Fixing = r
    BY <1>5, OneFixed DEF WherePassRuns, FixTriage, FixAgent
  <2>2. touched' = touched /\ (req' = req \/ req' = NewTip(r))
    BY <1>5, <2>1 DEF FixTriage, FixAgent
  <2> QED
    BY <2>2, TipTyped
<1>6. CASE CiEnds \/ PersonActs
  BY <1>6 DEF CiEnds, PersonActs, BranchRec
<1>7. CASE MainMoves
  <2>1. PICK r \in Repos, c \in BOOLEAN : req' = [req EXCEPT ![r].behind = TRUE, ![r].clean = c]
    BY <1>7 DEF MainMoves
  <2> QED
    BY <1>7, <2>1 DEF MainMoves, BranchRec
<1> QED
  BY <1>1, <1>2, <1>3, <1>4, <1>5, <1>6, <1>7 DEF XNext, XStage, StartDelivery, MergeGuard, EndDelivery, StartPoll,
     PollRepo, DecideClosed, DecideDone, DecideMerge, DecideMissing, DecidePending, EndMerge, FixReread, FixLimits,
     XCrash

LEMMA WorkKept ==
    ASSUME ShipTypes, WherePassRuns, WorkIsTouched, XNext
    PROVE  WorkIsTouched'
<1>1. CASE ~OperatorResumesRepos
  BY <1>1, WorkSame DEF WorkIsTouched
<1>2. CASE OperatorResumesRepos
  <2>1. CASE UNCHANGED <<req, touched>>
    BY <2>1 DEF WorkIsTouched
  <2>2. CASE \E w \in SUBSET touched' :
               req' = [r \in Repos |-> [req[r] EXCEPT !.work = r \in w /\ req[r].pr # "merged"]]
    <3>1. PICK w \in SUBSET touched' :
             req' = [r \in Repos |-> [req[r] EXCEPT !.work = r \in w /\ req[r].pr # "merged"]]
      BY <2>2
    <3>2. ASSUME NEW r \in Repos, req'[r].work PROVE r \in touched'
      <4> DEFINE b == r \in w /\ req[r].pr # "merged"
      <4>1. req'[r] = [req[r] EXCEPT !.work = b]
        BY <3>1
      <4> HIDE DEF b
      <4>2. b
        BY <3>2, <4>1 DEF ShipTypes, BranchRec
      <4> QED
        BY <4>2 DEF b
    <3> QED
      BY <3>2 DEF WorkIsTouched
  <2> QED
    BY <1>2, <2>1, <2>2 DEF OperatorResumesRepos
<1> QED
  BY <1>1, <1>2

\* The pass record of each kind of step.
LEMMA DeliveringSteps ==
    ASSUME ShipTypes, WherePassRuns, XNext, pass'.pc = "deliver"
    PROVE  \/ pass.pc = "idle" /\ touched # {} /\ pass' = [NoPass EXCEPT !.pc = "deliver", !.todo = touched] /\ man' = man
           \/ pass.pc = "deliver" /\ \E r \in pass.todo : DeliverRepo(r) \/ SkipRepo(r)
           \/ pass' = pass /\ man' = man /\ ~OperatorResumesRepos
<1> USE DEF ShipTypes
<1>0. mt.st \in XStates /\ {"DONE", "BLOCKED", "IMPLEMENT_COMPLETE", "HUMAN_MR_APPROVAL", "ADDRESSING_REVIEW"} \subseteq XStates
  BY DEF TicketRec, XStates
<1>1. pass' # NoPass
  BY DEF NoPass
<1>2. ~Ending /\ ~XCrash
  BY <1>1, EndingEnds DEF XCrash
<1>3. \A d \in XStates : ~EndsIn(d)
  BY <1>1, EndsInTypes
<1>4. CASE StartDelivery
  BY <1>0, <1>3, <1>4 DEF StartDelivery
<1>5. CASE Deliver
  BY <1>0, <1>3, <1>5 DEF Deliver, DeliverFails
<1>6. ~StartPoll /\ ~PollRepo
  BY NoPassTyped DEF StartPoll, PollRepo, PassRec
<1>7. ~DecideFix
  <2>1. SUFFICES ASSUME DecideFix PROVE FALSE
    OBVIOUS
  <2>2. PICK r \in Repos : pass' = [NoPass EXCEPT !.pc = "fix", !.opened = {r}]
    BY <2>1 DEF DecideFix, With
  <2> QED
    BY <2>2, NoPassTyped DEF PassRec
<1>8. ~DecideMerge
  BY <1>0, <1>3, NoPassTyped DEF DecideMerge, PassRec
<1>9. ~MergeOne
  BY <1>0, <1>3 DEF MergeOne, PassRec
<1>10. ~FixTriage
  BY <1>1 DEF FixTriage, EndsWith
<1>11. ~FixLimits
  BY <1>0, <1>3 DEF FixLimits, PassRec
<1>12. ~FixAgent
  BY <1>0, <1>3 DEF FixAgent
<1>13. CASE CiEnds \/ PersonActs \/ MainMoves
  <2>1. pass' = pass /\ man' = man /\ pass.pc = "deliver"
    BY <1>13 DEF CiEnds, PersonActs, MainMoves
  <2>2. ~OperatorResumesRepos
    BY <2>1 DEF OperatorResumesRepos
  <2> QED
    BY <2>1, <2>2
<1>14. ~OperatorResumesRepos
  BY DEF OperatorResumesRepos
<1> QED
  BY <1>2, <1>4, <1>5, <1>6, <1>7, <1>8, <1>9, <1>10, <1>11, <1>12, <1>13, <1>14 DEF XNext, XStage, Ending

LEMMA DeliveryKept ==
    ASSUME ShipTypes, WherePassRuns, DeliveredSoFar, XNext
    PROVE  DeliveredSoFar'
<1> SUFFICES ASSUME pass'.pc = "deliver"
             PROVE  /\ \A r \in touched' \ pass'.todo : req'[r].work => r \in pass'.opened
                    /\ pass'.opened # {} => man' = pass'.opened
  BY DEF DeliveredSoFar
<1> USE DEF ShipTypes
<1>1. ~OperatorResumesRepos
  BY DEF OperatorResumesRepos
<1>2. touched' = touched /\ \A q \in Repos : req'[q].work = req[q].work
  BY <1>1, WorkSame
<1>3. CASE pass' = [NoPass EXCEPT !.pc = "deliver", !.todo = touched]
  <2>1. pass'.todo = touched /\ pass'.opened = {}
    BY <1>3 DEF NoPass
  <2> QED
    BY <2>1, <1>2
<1>4. CASE pass.pc = "deliver" /\ \E r \in pass.todo : DeliverRepo(r) \/ SkipRepo(r)
  <2>1. PICK r \in pass.todo : DeliverRepo(r) \/ SkipRepo(r)
    BY <1>4
  <2>2. CASE DeliverRepo(r)
    <3>1. pass'.todo = pass.todo \ {r} /\ pass'.opened = pass.opened \cup {r} /\ man' = pass.opened \cup {r}
      BY <2>2 DEF DeliverRepo, PassRec
    <3> QED
      BY <3>1, <1>2, <1>4 DEF DeliveredSoFar
  <2>3. CASE SkipRepo(r)
    <3>1. pass'.todo = pass.todo \ {r} /\ pass'.opened = pass.opened /\ man' = man /\ ~req[r].work
      BY <2>3 DEF SkipRepo, PassRec
    <3> QED
      BY <3>1, <1>2, <1>4 DEF DeliveredSoFar
  <2> QED
    BY <2>1, <2>2, <2>3
<1>5. CASE pass' = pass /\ man' = man
  BY <1>2, <1>5 DEF DeliveredSoFar
<1> QED
  BY <1>3, <1>4, <1>5, DeliveringSteps

LEMMA TrackedKept ==
    ASSUME ShipTypes, WherePassRuns, WorkIsTouched, DeliveredSoFar, AllTracked, XNext
    PROVE  AllTracked'
<1> SUFFICES ASSUME mt'.from \in Shipped, NEW q \in Repos, req'[q].work
             PROVE  q \in man'
  BY DEF AllTracked
<1> USE DEF ShipTypes
<1>0. mt.st \in XStates /\ {"DONE", "BLOCKED", "IMPLEMENT_COMPLETE", "HUMAN_MR_APPROVAL", "ADDRESSING_REVIEW"} \subseteq XStates
  BY DEF TicketRec, XStates
<1>1. CASE EndDelivery
  <2>1. ~OperatorResumesRepos /\ man' = man /\ req' = req
    BY <1>1 DEF EndDelivery, OperatorResumesRepos
  <2>2. pass.opened # {}
    BY <1>0, <1>1, EndsInTypes DEF EndDelivery, Shipped
  <2> QED
    BY <1>1, <2>1, <2>2 DEF EndDelivery, DeliveredSoFar, WorkIsTouched
<1>2. CASE OperatorResumesRepos
  <2>1. CASE mt' = [mt EXCEPT !.st = mt.from] /\ UNCHANGED <<req, touched>>
    BY <1>2, <2>1 DEF AllTracked, OperatorResumesRepos, TicketRec
  <2>2. CASE mt' = [mt EXCEPT !.st = "DELIVERABLE", !.from = "DELIVERABLE"]
    <3>1. mt'.from = "DELIVERABLE"
      BY <2>2 DEF TicketRec
    <3> QED
      BY <3>1 DEF Shipped
  <2> QED
    BY <1>2, <2>1, <2>2 DEF OperatorResumesRepos
<1>3. CASE ~EndDelivery /\ ~OperatorResumesRepos
  <2>1. req[q].work
    BY <1>3, WorkSame
  <2>2. mt.from \in Shipped /\ man' = man
    <3>1. CASE Ending
      <4>1. mt'.from \in {mt.st, "DONE"} /\ mt.from = mt.st
        BY <1>3, <3>1, EndingEnds, DoneEnds DEF WherePassRuns
      <4>2. man' = man
        BY <3>1 DEF Ending, MergeGuard, EndDelivery, DecideClosed, DecideRebase, Rebase, DecideDone, DecideMissing,
           DecidePending, EndMerge, FixReread
      <4> QED
        BY <4>1, <4>2 DEF Shipped
    <3>2. CASE StartDelivery
      BY <1>0, <3>2, EndsInTypes DEF StartDelivery, Shipped
    <3>3. CASE Deliver
      <4>1. PICK r \in pass.todo : DeliverFails(r) \/ DeliverRepo(r) \/ SkipRepo(r)
        BY <3>3 DEF Deliver
      <4>2. mt.st = "DELIVERABLE" /\ mt.from = "DELIVERABLE"
        BY <3>3 DEF Deliver, WherePassRuns
      <4>3. mt'.from = "DELIVERABLE"
        BY <1>0, <4>1, <4>2, EndsInTypes DEF DeliverFails, DeliverRepo, SkipRepo
      <4> QED
        BY <4>3 DEF Shipped
    <3>4. CASE DecideMerge
      <4>1. mt.from \in Shipped
        BY <3>4 DEF DecideMerge, Settled, Polled, WherePassRuns, Shipped
      <4> QED
        BY <3>4, <4>1 DEF DecideMerge
    <3>5. CASE DecideFix
      BY <3>5 DEF DecideFix, TicketRec
    <3>6. CASE MergeOne
      <4>1. mt.from = mt.st
        BY <3>6 DEF MergeOne, WherePassRuns
      <4> QED
        BY <1>0, <3>6, <4>1, EndsInTypes DEF MergeOne
    <3>7. CASE FixTriage
      <4>1. mt.from = mt.st
        BY <3>7 DEF FixTriage, WherePassRuns
      <4>2. [mt EXCEPT !.triaged = TRUE] \in TicketRec /\ [mt EXCEPT !.triaged = TRUE].from = mt.from
        BY DEF TicketRec
      <4> QED
        BY <1>0, <3>7, <4>1, <4>2, EndsTyped DEF FixTriage
    <3>8. CASE FixLimits
      <4>1. mt.from = mt.st
        BY <3>8 DEF FixLimits, WherePassRuns
      <4> QED
        BY <1>0, <3>8, <4>1, EndsInTypes DEF FixLimits
    <3>9. CASE FixAgent
      <4>1. mt.from = mt.st
        BY <3>9 DEF FixAgent, WherePassRuns
      <4> QED
        BY <1>0, <3>9, <4>1, EndsInTypes DEF FixAgent
    <3> QED
      BY <1>3, <3>1, <3>2, <3>3, <3>4, <3>5, <3>6, <3>7, <3>8, <3>9 DEF XNext, XStage, Ending, StartPoll, PollRepo,
         CiEnds, PersonActs, MainMoves, XCrash
  <2> QED
    BY <2>1, <2>2 DEF AllTracked
<1> QED
  BY <1>1, <1>2, <1>3

\* While a poll goes on, only it and the forge take steps.
LEMMA PollingSteps ==
    ASSUME ShipTypes, WherePassRuns, XNext, pass'.pc = "poll", ~StartPoll, ~PollRepo
    PROVE  /\ pass' = pass
           /\ \A q \in Repos : /\ req[q].pr = "merged" => req'[q].pr = "merged"
                               /\ req[q].ci = "red" => req'[q].ci = "red"
<1> USE DEF ShipTypes
<1>0. mt.st \in XStates /\ {"DONE", "BLOCKED", "IMPLEMENT_COMPLETE", "HUMAN_MR_APPROVAL", "ADDRESSING_REVIEW"} \subseteq XStates
  BY DEF TicketRec, XStates
<1>1. pass' # NoPass
  BY DEF NoPass
<1>2. ~Ending /\ ~XCrash
  BY <1>1, EndingEnds DEF XCrash
<1>3. \A d \in XStates : ~EndsIn(d)
  BY <1>1, EndsInTypes
<1>4. ~StartDelivery
  BY <1>0, <1>3, NoPassTyped DEF StartDelivery, PassRec
<1>5. ~Deliver
  BY <1>0, <1>3 DEF Deliver, DeliverFails, DeliverRepo, SkipRepo, PassRec
<1>6. ~DecideFix
  <2>1. SUFFICES ASSUME DecideFix PROVE FALSE
    OBVIOUS
  <2>2. PICK r \in Repos : pass' = [NoPass EXCEPT !.pc = "fix", !.opened = {r}]
    BY <2>1 DEF DecideFix, With
  <2> QED
    BY <2>2, NoPassTyped DEF PassRec
<1>7. ~DecideMerge
  BY <1>0, <1>3, NoPassTyped DEF DecideMerge, PassRec
<1>8. ~MergeOne
  BY <1>0, <1>3 DEF MergeOne, PassRec
<1>9. ~FixTriage
  BY <1>1 DEF FixTriage, EndsWith
<1>10. ~FixLimits
  BY <1>0, <1>3 DEF FixLimits, PassRec
<1>11. ~FixAgent
  BY <1>0, <1>3 DEF FixAgent
<1>12. ~OperatorResumesRepos
  BY DEF OperatorResumesRepos
<1>13. CASE CiEnds \/ PersonActs
  BY <1>13 DEF CiEnds, PersonActs, BranchRec
<1>14. CASE MainMoves
  <2>1. PICK r \in Repos, c \in BOOLEAN : req' = [req EXCEPT ![r].behind = TRUE, ![r].clean = c]
    BY <1>14 DEF MainMoves
  <2> QED
    BY <1>14, <2>1 DEF MainMoves, BranchRec
<1> QED
  BY <1>2, <1>4, <1>5, <1>6, <1>7, <1>8, <1>9, <1>10, <1>11, <1>12, <1>13, <1>14 DEF XNext, XStage, Ending

\* A poll sees only the forge move: what is merged stays merged, and a red check
\* stays red until a new commit.
LEMMA PollKept ==
    ASSUME ShipTypes, WherePassRuns, PollIsTrue, XNext
    PROVE  PollIsTrue'
<1> SUFFICES ASSUME pass'.pc = "poll", NEW q \in Repos
             PROVE  /\ pass'.got[q] = "merged" => req'[q].pr = "merged"
                    /\ pass'.got[q] = "failing_ci" => req'[q].ci = "red"
  BY DEF PollIsTrue
<1> USE DEF ShipTypes
<1>1. CASE StartPoll
  <2>1. pass'.got[q] = "none"
    BY <1>1 DEF StartPoll, NoPass
  <2> QED
    BY <2>1
<1>2. CASE PollRepo
  <2>1. PICK r \in pass.todo : \E x \in StatusOf(r) : pass' = [pass EXCEPT !.todo = @ \ {r}, !.got[r] = x]
    BY <1>2 DEF PollRepo
  <2>2. PICK x \in StatusOf(r) : pass' = [pass EXCEPT !.todo = @ \ {r}, !.got[r] = x]
    BY <2>1
  <2>3. req' = req /\ r \in Repos
    BY <1>2 DEF PollRepo, PassRec
  <2>4. CASE q = r
    <3>1. pass'.got[q] = x
      BY <2>2, <2>4 DEF PassRec
    <3>2. (x = "merged" => req[r].pr = "merged") /\ (x = "failing_ci" => req[r].ci = "red")
      BY <2>2, Zenon DEF StatusOf
    <3> QED
      BY <2>3, <2>4, <3>1, <3>2
  <2>5. CASE q # r
    <3>1. pass'.got[q] = pass.got[q]
      BY <2>2, <2>5 DEF PassRec
    <3> QED
      BY <1>2, <2>3, <3>1 DEF PollRepo, PollIsTrue
  <2> QED
    BY <2>4, <2>5
<1>3. CASE ~StartPoll /\ ~PollRepo
  <2>1. pass' = pass
    BY <1>3, PollingSteps
  <2>2. \A p \in Repos : (req[p].pr = "merged" => req'[p].pr = "merged") /\ (req[p].ci = "red" => req'[p].ci = "red")
    BY <1>3, PollingSteps
  <2> QED
    BY <2>1, <2>2 DEF PollIsTrue
<1> QED
  BY <1>1, <1>2, <1>3

\* A step that neither runs an agent nor takes a count back.
Calm ==
  /\ \A q \in Repos : /\ world'.runs[q] = world.runs[q] /\ cnt'[q].cycles = cnt[q].cycles
                      /\ req'[q].behind => req[q].behind
                      /\ Due(q)' + Behind(q)' <= Due(q) + Behind(q)
  /\ world'.moves = world.moves
  /\ mt.st = "BLOCKED" => mt'.st = "BLOCKED"

LEMMA DueRange == \A q \in Repos : Due(q) \in {0, 1} /\ Behind(q) \in {0, 1}
  BY DEF Due, Behind

LEMMA NotDue ==
    ASSUME pass'.pc \notin {"fix", "agent"}
    PROVE  \A q \in Repos : Due(q)' = 0
  BY DEF Due

LEMMA StaysCalm ==
    ASSUME pass'.pc \notin {"fix", "agent"}, mt.st = "BLOCKED" => mt'.st = "BLOCKED", UNCHANGED world,
           \A q \in Repos : (req'[q].behind => req[q].behind) /\ cnt'[q].cycles = cnt[q].cycles
    PROVE  Calm
<1>1. \A q \in Repos : Due(q)' = 0
  BY NotDue
<1>2. ASSUME NEW q \in Repos PROVE Due(q)' + Behind(q)' <= Due(q) + Behind(q)
  <2>1. Due(q)' = 0 /\ Due(q) \in {0, 1}
    BY <1>1, DueRange
  <2>2. Behind(q)' \in {0, 1} /\ Behind(q) \in {0, 1} /\ Behind(q)' <= Behind(q)
    BY DEF Behind
  <2> QED
    BY <2>1, <2>2
<1> QED
  BY <1>2 DEF Calm

LEMMA CalmKept ==
    ASSUME ShipTypes, ShipTypes', FixRunsBounded, RunsCharged, Calm
    PROVE  FixRunsBounded' /\ RunsCharged'
<1> USE ConstantsAreNumbers
<1>1. ASSUME NEW q \in Repos
      PROVE  /\ world.runs[q] \in Nat /\ cnt[q].cycles \in Nat /\ world.moves \in Nat
             /\ Due(q) \in {0, 1} /\ Behind(q) \in {0, 1} /\ Due(q)' \in {0, 1} /\ Behind(q)' \in {0, 1}
  BY DueRange DEF ShipTypes, WorldRec, CountRec, Due, Behind
<1>2. FixRunsBounded'
  BY <1>1 DEF FixRunsBounded, Calm
<1>3. \A r \in Repos : req'[r].behind => world'.moves > 0
  BY DEF RunsCharged, Calm
<1>4. ASSUME mt'.st # "BLOCKED", MaxFixCycles > 0, NEW q \in Repos
      PROVE  world'.runs[q] + Due(q)' + Behind(q)' <= cnt'[q].cycles + world'.moves
  <2>1. world.runs[q] + Due(q) + Behind(q) <= cnt[q].cycles + world.moves
    BY <1>4 DEF RunsCharged, Calm
  <2>2. Due(q)' + Behind(q)' <= Due(q) + Behind(q) /\ world'.runs[q] = world.runs[q]
        /\ cnt'[q].cycles = cnt[q].cycles /\ world'.moves = world.moves
    BY DEF Calm
  <2> QED
    BY <1>1, <2>1, <2>2
<1> QED
  BY <1>2, <1>3, <1>4 DEF RunsCharged

\* A step that clears the counts of one repository.
LEMMA ClearedKept ==
    ASSUME ShipTypes, FixRunsBounded, RunsCharged, NEW r \in Repos,
           pass'.pc \notin {"fix", "agent"}, UNCHANGED req, mt.st # "BLOCKED",
           cnt' = [cnt EXCEPT ![r].cycles = 0], world' = [world EXCEPT !.runs[r] = 0]
    PROVE  FixRunsBounded' /\ RunsCharged'
<1> USE ConstantsAreNumbers
<1>1. world'.moves = world.moves /\ world.moves \in Nat
  BY DEF ShipTypes, WorldRec
<1>2. \A q \in Repos : /\ world'.runs[q] = IF q = r THEN 0 ELSE world.runs[q]
                       /\ cnt'[q].cycles = IF q = r THEN 0 ELSE cnt[q].cycles
                       /\ world.runs[q] \in Nat /\ cnt[q].cycles \in Nat
  BY DEF ShipTypes, WorldRec, CountRec
<1>3. \A q \in Repos : Due(q)' = 0 /\ Due(q) \in {0, 1}
  BY NotDue, DueRange
<1>4. \A q \in Repos : Behind(q)' = Behind(q) /\ Behind(q) \in {0, 1} /\ (Behind(q) = 1 => world.moves > 0)
  BY DEF Behind, RunsCharged
<1>5. FixRunsBounded'
  BY <1>1, <1>2 DEF FixRunsBounded
<1>6. \A q \in Repos : req'[q].behind => world'.moves > 0
  BY <1>1 DEF RunsCharged
<1>7. ASSUME MaxFixCycles > 0, NEW q \in Repos
      PROVE  world'.runs[q] + Due(q)' + Behind(q)' <= cnt'[q].cycles + world'.moves
  <2>1. world.runs[q] + Due(q) + Behind(q) <= cnt[q].cycles + world.moves
    BY <1>7 DEF RunsCharged
  <2>2. CASE q = r
    BY <1>1, <1>2, <1>3, <1>4, <2>2
  <2>3. CASE q # r
    BY <1>1, <1>2, <1>3, <1>4, <2>1, <2>3
  <2> QED
    BY <2>2, <2>3
<1> QED
  BY <1>5, <1>6, <1>7 DEF RunsCharged

\* The last step before an agent run charges it, unless the branch was just
\* brought up to date.
LEMMA LimitsKept ==
    ASSUME ShipTypes, WherePassRuns, FixRunsBounded, RunsCharged, FixLimits, ShipTypes'
    PROVE  FixRunsBounded' /\ RunsCharged'
<1> USE ConstantsAreNumbers
<1>0. {"BLOCKED"} \subseteq XStates /\ mt.st # "BLOCKED"
  BY DEF XStates, FixLimits, WherePassRuns
<1>1. PICK r \in Repos : Fixing = r /\ pass.opened = {r}
  BY OneFixed DEF WherePassRuns, FixLimits
<1>2. UNCHANGED <<req, world>>
  BY DEF FixLimits
<1>3. FixRunsBounded'
  BY <1>2 DEF FixRunsBounded
<1>4. \A q \in Repos : req'[q].behind => world'.moves > 0
  BY <1>2 DEF RunsCharged
<1>5. CASE mt'.st = "BLOCKED"
  BY <1>3, <1>4, <1>5 DEF RunsCharged
<1>6. CASE mt'.st # "BLOCKED"
  <2>1. ~EndsIn("BLOCKED")
    BY <1>0, <1>6, EndsInTypes DEF ShipTypes
  <2>2. /\ cnt' = [cnt EXCEPT ![r].cycles = ChargedCycles(r)]
        /\ pass' = [pass EXCEPT !.pc = "agent"] /\ pass.pc = "fix" /\ req[r].ci # "green"
    BY <1>1, <2>1 DEF FixLimits
  <2>3. pass'.pc = "agent" /\ pass'.opened = {r}
    BY <1>1, <2>2 DEF ShipTypes, PassRec
  <2>4. ChargedCycles(r) = IF req[r].ci = "red" /\ MaxFixCycles > 0 THEN cnt[r].cycles + 1 ELSE cnt[r].cycles
    BY DEF ChargedCycles
  <2> DEFINE charged == ChargedCycles(r)
  <2>5. charged = ChargedCycles(r)
    OBVIOUS
  <2> HIDE DEF charged
  <2>6. \A q \in Repos : cnt'[q].cycles = IF q = r THEN charged ELSE cnt[q].cycles
    BY <2>2, <2>5 DEF ShipTypes, CountRec
  <2>7. \A q \in Repos : Behind(q)' = Behind(q) /\ Behind(q) \in {0, 1}
    BY <1>2 DEF Behind
  <2>8. ASSUME MaxFixCycles > 0, NEW q \in Repos
        PROVE  world'.runs[q] + Due(q)' + Behind(q)' <= cnt'[q].cycles + world'.moves
    <3>1. /\ world.runs[q] + Due(q) + Behind(q) <= cnt[q].cycles + world.moves
          /\ world.runs[q] \in Nat /\ cnt[q].cycles \in Nat /\ world.moves \in Nat
      BY <1>0, <2>8 DEF RunsCharged, ShipTypes, WorldRec, CountRec
    <3>2. CASE q # r
      <4>1. Due(q)' = 0 /\ Due(q) \in {0, 1}
        BY <2>3, <3>2 DEF Due
      <4> QED
        BY <1>2, <2>6, <2>7, <3>1, <3>2, <4>1
    <3>3. CASE q = r
      <4>1. Due(q)' = 1
        BY <2>3, <3>3 DEF Due
      <4>2. CASE req[r].ci = "red"
        <5>1. Due(q) = 0 /\ charged = cnt[r].cycles + 1
          BY <1>1, <2>2, <2>4, <2>5, <2>8, <3>3, <4>2 DEF Due
        <5> QED
          BY <1>2, <2>6, <2>7, <3>1, <3>3, <4>1, <5>1
      <4>3. CASE req[r].ci = "running"
        <5>1. Due(q) = 1 /\ charged = cnt[r].cycles
          BY <1>1, <2>2, <2>4, <2>5, <3>3, <4>3 DEF Due
        <5> QED
          BY <1>2, <2>6, <2>7, <3>1, <3>3, <4>1, <5>1
      <4> QED
        BY <2>2, <4>2, <4>3 DEF ShipTypes, BranchRec
    <3> QED
      BY <3>2, <3>3
  <2> QED
    BY <1>3, <1>4, <2>8 DEF RunsCharged
<1> QED
  BY <1>5, <1>6

LEMMA AgentKept ==
    ASSUME ShipTypes, WherePassRuns, FixRunsBounded, RunsCharged, FixAgent, ShipTypes'
    PROVE  FixRunsBounded' /\ RunsCharged'
<1> USE ConstantsAreNumbers
<1>0. /\ mt.st \in XStates /\ "BLOCKED" \in XStates /\ mt.st # "BLOCKED"
      /\ NoPass.pc = "idle"
  BY DEF ShipTypes, TicketRec, XStates, FixAgent, WherePassRuns, NoPass
<1>1. PICK r \in Repos : Fixing = r /\ pass.opened = {r}
  BY OneFixed DEF WherePassRuns, FixAgent
<1>2. world' = [world EXCEPT !.runs[r] = @ + 1] /\ (req' = req \/ req' = NewTip(r)) /\ pass' = NoPass
  BY <1>0, <1>1, EndsInTypes DEF FixAgent, ShipTypes
<1>3. \A q \in Repos : cnt'[q].cycles = cnt[q].cycles
  BY <1>1 DEF FixAgent, ShipTypes, CountRec
<1>4. world'.moves = world.moves
      /\ \A q \in Repos : world'.runs[q] = IF q = r THEN world.runs[q] + 1 ELSE world.runs[q]
  <2> DEFINE more == [world.runs EXCEPT ![r] = @ + 1]
  <2>1. more \in [Repos -> Nat] /\ \A q \in Repos : more[q] = IF q = r THEN world.runs[q] + 1 ELSE world.runs[q]
    BY DEF ShipTypes, WorldRec
  <2>2. world' = [world EXCEPT !.runs = more]
    BY <1>2
  <2> HIDE DEF more
  <2>3. world'.moves = world.moves /\ world'.runs = more
    BY <2>2 DEF ShipTypes, WorldRec
  <2> QED
    BY <2>1, <2>3
<1>5. \A q \in Repos : req'[q].behind => req[q].behind
  <2>1. CASE req' = req
    BY <2>1
  <2>2. CASE req' = NewTip(r)
    BY <2>2, TipTyped DEF ShipTypes
  <2> QED
    BY <1>2, <2>1, <2>2
<1>6. \A q \in Repos : Due(q)' = 0
  BY <1>0, <1>2, NotDue
<1>7. \A q \in Repos : Behind(q)' <= Behind(q) /\ Behind(q) \in {0, 1} /\ Behind(q)' \in {0, 1}
  BY <1>5 DEF Behind
<1>8. Due(r) = 1 /\ \A q \in Repos : Due(q) \in {0, 1}
  BY <1>1 DEF FixAgent, Due
<1>9. ASSUME MaxFixCycles > 0, NEW q \in Repos
      PROVE  /\ world'.runs[q] + Due(q)' + Behind(q)' <= cnt'[q].cycles + world'.moves
             /\ world'.runs[q] <= MaxFixCycles + world'.moves
  <2>1. /\ world.runs[q] + Due(q) + Behind(q) <= cnt[q].cycles + world.moves
        /\ world.runs[q] \in Nat /\ cnt[q].cycles \in 0..MaxFixCycles /\ world.moves \in Nat
    BY <1>0, <1>9 DEF RunsCharged, ShipTypes, WorldRec, CountRec
  <2>2. CASE q = r
    BY <1>3, <1>4, <1>6, <1>7, <1>8, <2>1, <2>2
  <2>3. CASE q # r
    BY <1>3, <1>4, <1>6, <1>7, <1>8, <2>1, <2>3
  <2> QED
    BY <2>2, <2>3
<1>10. \A q \in Repos : req'[q].behind => world'.moves > 0
  BY <1>4, <1>5 DEF RunsCharged
<1> QED
  BY <1>9, <1>10 DEF RunsCharged, FixRunsBounded

\* Each move of main allows one run more.
LEMMA MovesKept ==
    ASSUME ShipTypes, FixRunsBounded, RunsCharged, MainMoves
    PROVE  FixRunsBounded' /\ RunsCharged'
<1> USE ConstantsAreNumbers
<1>1. PICK r \in Repos, c \in BOOLEAN : req' = [req EXCEPT ![r].behind = TRUE, ![r].clean = c]
  BY DEF MainMoves
<1>2. UNCHANGED <<mt, cnt, pass>> /\ world' = [world EXCEPT !.moves = @ + 1]
  BY DEF MainMoves
<1>3. world'.moves = world.moves + 1 /\ world'.runs = world.runs /\ world.moves \in Nat
  BY <1>2 DEF ShipTypes, WorldRec
<1>4. \A q \in Repos : req'[q].ci = req[q].ci
  BY <1>1 DEF ShipTypes, BranchRec
<1>5. \A q \in Repos : Due(q)' = Due(q) /\ Due(q) \in {0, 1}
  BY <1>2, <1>4 DEF Due
<1>6. \A q \in Repos : Behind(q)' \in {0, 1} /\ Behind(q) \in {0, 1}
  BY DEF Behind
<1>7. ASSUME NEW q \in Repos PROVE world.runs[q] \in Nat /\ cnt[q].cycles \in Nat
  BY DEF ShipTypes, WorldRec, CountRec
<1>8. FixRunsBounded'
  BY <1>3, <1>7 DEF FixRunsBounded
<1>9. ASSUME mt'.st # "BLOCKED", MaxFixCycles > 0, NEW q \in Repos
      PROVE  world'.runs[q] + Due(q)' + Behind(q)' <= cnt'[q].cycles + world'.moves
  <2>1. world.runs[q] + Due(q) + Behind(q) <= cnt[q].cycles + world.moves
    BY <1>2, <1>9 DEF RunsCharged
  <2> QED
    BY <1>2, <1>3, <1>5, <1>6, <1>7, <2>1
<1> QED
  BY <1>3, <1>8, <1>9 DEF RunsCharged

LEMMA OperatorKept ==
    ASSUME ShipTypes, FixRunsBounded, RunsCharged, OperatorResumesRepos, ShipTypes'
    PROVE  FixRunsBounded' /\ RunsCharged'
<1> USE ConstantsAreNumbers
<1>1. pass' = pass /\ pass.pc = "idle" /\ cnt' = cnt
  BY DEF OperatorResumesRepos
<1> DEFINE fresh == [r \in Repos |-> 0]
<1>2. world' = [world EXCEPT !.resumes = @ + 1, !.runs = fresh] /\ fresh \in [Repos -> Nat]
      /\ \A q \in Repos : fresh[q] = 0
  BY DEF OperatorResumesRepos
<1> HIDE DEF fresh
<1>3. world'.moves = world.moves /\ world'.runs = fresh /\ world.moves \in Nat
  BY <1>2 DEF ShipTypes, WorldRec
<1>4. \A q \in Repos : req'[q].behind = req[q].behind
  <2>1. CASE UNCHANGED <<req, touched>>
    BY <2>1
  <2>2. CASE \E w \in SUBSET touched' :
               req' = [r \in Repos |-> [req[r] EXCEPT !.work = r \in w /\ req[r].pr # "merged"]]
    <3>1. PICK w \in SUBSET touched' :
             req' = [r \in Repos |-> [req[r] EXCEPT !.work = r \in w /\ req[r].pr # "merged"]]
      BY <2>2
    <3>2. ASSUME NEW r \in Repos PROVE req'[r].behind = req[r].behind
      <4> DEFINE b == r \in w /\ req[r].pr # "merged"
      <4>1. req'[r] = [req[r] EXCEPT !.work = b]
        BY <3>1
      <4> HIDE DEF b
      <4> QED
        BY <4>1 DEF ShipTypes, BranchRec
    <3> QED
      BY <3>2
  <2> QED
    BY <2>1, <2>2 DEF OperatorResumesRepos
<1>5. \A q \in Repos : Due(q)' = 0
  BY <1>1, NotDue
<1>6. \A q \in Repos : Behind(q)' \in {0, 1} /\ (Behind(q)' = 1 => world.moves > 0) /\ cnt[q].cycles \in Nat
  BY <1>4 DEF Behind, RunsCharged, ShipTypes, CountRec
<1>7. FixRunsBounded'
  BY <1>2, <1>3 DEF FixRunsBounded
<1>8. ASSUME NEW q \in Repos
      PROVE  world'.runs[q] + Due(q)' + Behind(q)' <= cnt'[q].cycles + world'.moves
  BY <1>1, <1>2, <1>3, <1>5, <1>6
<1>9. \A q \in Repos : req'[q].behind => world'.moves > 0
  BY <1>3, <1>4 DEF RunsCharged
<1> QED
  BY <1>7, <1>8, <1>9 DEF RunsCharged

LEMMA RunsKept ==
    ASSUME ShipTypes, WherePassRuns, PollIsTrue, FixRunsBounded, RunsCharged, XNext, ShipTypes'
    PROVE  FixRunsBounded' /\ RunsCharged'
<1> USE ConstantsAreNumbers
<1>0. /\ mt.st \in XStates
      /\ {"DONE", "BLOCKED", "IMPLEMENT_COMPLETE", "HUMAN_MR_APPROVAL", "ADDRESSING_REVIEW"} \subseteq XStates
  BY DEF ShipTypes, TicketRec, XStates
<1>a. NoPass.pc = "idle" /\ NoPass.opened = {}
  BY DEF NoPass
\* Steps that keep the branches and counts.
<1>1. CASE MergeGuard \/ EndDelivery \/ DecideClosed \/ DecideDone \/ DecideMissing \/ DecidePending \/ EndMerge
  <2>1. mt.st # "BLOCKED" /\ pass' = NoPass
    BY <1>1, EndingEnds DEF Ending
  <2>2. UNCHANGED <<cnt, req, world>>
    BY <1>1 DEF MergeGuard, EndDelivery, DecideClosed, DecideDone, DecideMissing, DecidePending, EndMerge
  <2>3. Calm
    BY <1>a, <2>1, <2>2, StaysCalm
  <2> QED
    BY <2>3, CalmKept
<1>2. CASE StartDelivery \/ StartPoll \/ DecideMerge \/ XCrash
  <2>1. pass'.pc \notin {"fix", "agent"}
    BY <1>0, <1>2, <1>a, EndsInTypes, NoPassTyped DEF StartDelivery, StartPoll, DecideMerge, XCrash, PassRec, ShipTypes
  <2>2. UNCHANGED <<cnt, req, world>>
    BY <1>2 DEF StartDelivery, StartPoll, DecideMerge, XCrash
  <2>3. mt.st = "BLOCKED" => mt'.st = "BLOCKED"
    BY <1>2 DEF StartDelivery, StartPoll, DecideMerge, XCrash, WherePassRuns, Settled, Polled
  <2>4. Calm
    BY <2>1, <2>2, <2>3, StaysCalm
  <2> QED
    BY <2>4, CalmKept
\* Steps that push a branch or learn of it.
<1>3. CASE Deliver
  <2>1. PICK r \in Repos : DeliverFails(r) \/ DeliverRepo(r) \/ SkipRepo(r)
    BY <1>3 DEF Deliver, PassRec, ShipTypes
  <2>2. mt.st # "BLOCKED" /\ pass.pc = "deliver"
    BY <1>3 DEF Deliver, WherePassRuns
  <2>3. pass'.pc \notin {"fix", "agent"}
    BY <1>0, <1>a, <2>1, <2>2, EndsInTypes DEF DeliverFails, DeliverRepo, SkipRepo, PassRec, ShipTypes
  <2>4. UNCHANGED <<cnt, world>>
    BY <2>1 DEF DeliverFails, DeliverRepo, SkipRepo
  <2>5. \A q \in Repos : req'[q].behind => req[q].behind
    <3>1. CASE req' = req
      BY <3>1
    <3>2. CASE req' = [NewTip(r) EXCEPT ![r].pr = "open"]
      BY <3>2, TipChanged DEF ShipTypes
    <3> QED
      BY <2>1, <3>1, <3>2 DEF DeliverFails, DeliverRepo, SkipRepo
  <2>6. Calm
    BY <2>2, <2>3, <2>4, <2>5, StaysCalm
  <2> QED
    BY <2>6, CalmKept
<1>4. CASE DecideRebase
  <2>1. PICK r \in Repos : Rebase(r)
    BY <1>4 DEF DecideRebase, With, ShipTypes
  <2>2. mt.st # "BLOCKED" /\ pass' = NoPass
    BY <1>4, EndingEnds DEF Ending
  <2>3. \A q \in Repos : cnt'[q].cycles = cnt[q].cycles
    BY <2>1 DEF Rebase, ShipTypes, CountRec
  <2>4. \A q \in Repos : req'[q].behind => req[q].behind
    <3>1. CASE req' = req
      BY <3>1
    <3>2. CASE req' = NewTip(r)
      BY <3>2, TipTyped DEF ShipTypes
    <3>3. CASE req' = [NewTip(r) EXCEPT ![r].clean = TRUE]
      BY <3>3, TipChanged DEF ShipTypes
    <3> QED
      BY <2>1, <3>1, <3>2, <3>3 DEF Rebase
  <2>5. world' = world
    BY <2>1 DEF Rebase
  <2>6. Calm
    BY <1>a, <2>2, <2>3, <2>4, <2>5, StaysCalm
  <2> QED
    BY <2>6, CalmKept
<1>5. CASE DecideFix
  <2>1. PICK r \in With("failing_ci") : /\ pass' = [NoPass EXCEPT !.pc = "fix", !.opened = {r}]
                                       /\ req' = IF req[r].behind THEN NewTip(r) ELSE req
    BY <1>5 DEF DecideFix
  <2>2. r \in Repos /\ (req[r].ci = "red" \/ req[r].behind)
    BY <1>5, <2>1 DEF With, DecideFix, Repairs, Polled, PollIsTrue, ShipTypes
  <2>3. pass'.pc = "fix" /\ pass'.opened = {r} /\ pass.pc = "poll"
    BY <1>5, <2>1, NoPassTyped DEF PassRec, DecideFix, Repairs, Polled
  <2>4. UNCHANGED <<cnt, world>> /\ mt'.st = mt.st
    BY <1>5 DEF DecideFix, ShipTypes, TicketRec
  <2>5. ASSUME NEW q \in Repos
        PROVE  (req'[q].behind => req[q].behind) /\ Due(q)' + Behind(q)' <= Due(q) + Behind(q)
    <3>1. CASE q # r \/ ~req[r].behind
      <4>1. req'[q] = req[q]
        BY <2>1, <2>2, <3>1, TipTyped DEF ShipTypes
      <4>2. Due(q)' = 0 /\ Due(q) \in {0, 1}
        BY <2>2, <2>3, <3>1, <4>1 DEF Due
      <4>3. Behind(q)' = Behind(q) /\ Behind(q) \in {0, 1}
        BY <4>1 DEF Behind
      <4> QED
        BY <4>1, <4>2, <4>3
    <3>2. CASE q = r /\ req[r].behind
      <4>1. req'[q].behind = FALSE
        BY <2>1, <2>2, <3>2, TipTyped DEF ShipTypes
      <4>2. Behind(q)' = 0 /\ Behind(q) = 1 /\ Due(q)' \in {0, 1} /\ Due(q) \in {0, 1}
        BY <3>2, <4>1 DEF Behind, Due
      <4> QED
        BY <4>1, <4>2
    <3> QED
      BY <3>1, <3>2
  <2>6. Calm
    BY <2>4, <2>5 DEF Calm
  <2> QED
    BY <2>6, CalmKept
<1>6. CASE MergeOne
  <2>1. pass.pc = "merge" /\ mt.st # "BLOCKED"
    BY <1>6 DEF MergeOne, WherePassRuns
  <2>2. pass'.pc \notin {"fix", "agent"}
    BY <1>0, <1>6, <1>a, <2>1, EndsInTypes DEF MergeOne, PassRec, ShipTypes
  <2>3. PICK r \in Repos : req' = [req EXCEPT ![r].pr = "merged"] \/ UNCHANGED req
    BY <1>6 DEF MergeOne, PassRec, ShipTypes
  <2>4. \A q \in Repos : req'[q].behind => req[q].behind
    BY <2>3 DEF BranchRec, ShipTypes
  <2>5. Calm
    BY <1>6, <2>1, <2>2, <2>4, StaysCalm DEF MergeOne
  <2> QED
    BY <2>5, CalmKept
<1>7. CASE CiEnds \/ PersonActs
  <2>1. UNCHANGED <<mt, cnt, pass, world>>
    BY <1>7 DEF CiEnds, PersonActs
  <2>2. ASSUME NEW q \in Repos
        PROVE  req'[q].behind = req[q].behind /\ (req'[q].ci = "running" => req[q].ci = "running")
    BY <1>7 DEF CiEnds, PersonActs, ShipTypes, BranchRec
  <2>3. ASSUME NEW q \in Repos PROVE Due(q)' + Behind(q)' <= Due(q) + Behind(q)
    <3>1. Behind(q)' = Behind(q) /\ Behind(q) \in {0, 1}
      BY <2>2 DEF Behind
    <3>2. Due(q)' \in {0, 1} /\ Due(q) \in {0, 1} /\ Due(q)' <= Due(q)
      BY <2>1, <2>2 DEF Due
    <3> QED
      BY <3>1, <3>2
  <2>4. Calm
    BY <2>1, <2>2, <2>3 DEF Calm
  <2> QED
    BY <2>4, CalmKept
<1>8. CASE FixTriage
  <2>1. PICK r \in Repos : Fixing = r
    BY <1>8, OneFixed DEF WherePassRuns, FixTriage
  <2>2. [mt EXCEPT !.triaged = TRUE] \in TicketRec /\ mt.st # "BLOCKED"
    BY <1>8 DEF TicketRec, ShipTypes, FixTriage, WherePassRuns
  <2>3. CASE EndsWith([mt EXCEPT !.triaged = TRUE], mt.st) /\ req' = NewTip(r)
    <3>1. pass' = NoPass
      BY <1>0, <2>2, <2>3, EndsTyped DEF ShipTypes
    <3>2. \A q \in Repos : req'[q].behind => req[q].behind
      BY <2>3, TipTyped DEF ShipTypes
    <3>3. Calm
      BY <1>8, <1>a, <2>2, <3>1, <3>2, StaysCalm DEF FixTriage
    <3> QED
      BY <3>3, CalmKept
  <2>4. CASE UNCHANGED <<req, pass>>
    <3>1. UNCHANGED <<cnt, world>>
      BY <1>8 DEF FixTriage
    <3>2. \A q \in Repos : Due(q)' = Due(q) /\ Behind(q)' = Behind(q)
      BY <2>4 DEF Due, Behind
    <3>3. Calm
      BY <2>2, <2>4, <3>1, <3>2, DueRange DEF Calm
    <3> QED
      BY <3>3, CalmKept
  <2> QED
    BY <1>8, <2>1, <2>3, <2>4 DEF FixTriage
\* Steps that count, or take a count back.
<1>9. CASE PollRepo
  <2>1. PICK r \in pass.todo, x \in {"pending", "pr_missing", "merged", "closed_unmerged", "conflicting", "failing_ci", "green"} :
           /\ pass' = [pass EXCEPT !.todo = @ \ {r}, !.got[r] = x]
           /\ IF x = "green"
              THEN cnt' = [cnt EXCEPT ![r].cycles = 0] /\ world' = [world EXCEPT !.runs[r] = 0]
              ELSE UNCHANGED <<cnt, world>>
    BY <1>9 DEF PollRepo, StatusOf
  <2>2. r \in Repos /\ mt.st # "BLOCKED" /\ UNCHANGED <<mt, req>>
    BY <1>9 DEF PollRepo, PassRec, ShipTypes, WherePassRuns
  <2>3. pass'.pc = "poll"
    BY <1>9, <2>1 DEF PollRepo, PassRec, ShipTypes
  <2>4. CASE x = "green"
    BY <2>1, <2>2, <2>3, <2>4, ClearedKept
  <2>5. CASE x # "green"
    <3>1. Calm
      BY <2>1, <2>2, <2>3, <2>5, StaysCalm
    <3> QED
      BY <3>1, CalmKept
  <2> QED
    BY <2>4, <2>5
<1>10. CASE FixReread
  <2>1. PICK r \in Repos : Fixing = r
    BY <1>10, OneFixed DEF WherePassRuns, FixReread
  <2>2. mt.st # "BLOCKED" /\ pass' = NoPass /\ req' = req
    BY <1>10, EndingEnds DEF Ending, FixReread
  <2>3. CASE UNCHANGED <<cnt, world>>
    <3>1. Calm
      BY <1>a, <2>2, <2>3, StaysCalm
    <3> QED
      BY <3>1, CalmKept
  <2>4. CASE cnt' = [cnt EXCEPT ![r].cycles = 0] /\ world' = [world EXCEPT !.runs[r] = 0]
    BY <1>a, <2>2, <2>4, ClearedKept
  <2> QED
    BY <1>10, <2>1, <2>3, <2>4 DEF FixReread
<1> QED
  BY <1>1, <1>2, <1>3, <1>4, <1>5, <1>6, <1>7, <1>8, <1>9, <1>10, LimitsKept, AgentKept, MovesKept, OperatorKept
     DEF XNext, XStage

LEMMA ShipInvInit == XInit => ShipInv
<1> SUFFICES ASSUME XInit PROVE ShipInv
  OBVIOUS
<1> USE ConstantsAreNumbers
<1>1. mt \in TicketRec /\ mt.st = "DELIVERABLE" /\ mt.from = "DELIVERABLE"
  BY DEF XInit, TicketRec, XStates
<1>2. cnt \in [Repos -> CountRec] /\ \A r \in Repos : cnt[r].cycles = 0
  BY DEF XInit, CountRec
<1>3. req \in [Repos -> BranchRec] /\ \A r \in Repos : (req[r].work => r \in touched) /\ req[r].behind = FALSE
  <2>1. PICK w \in SUBSET touched :
           req = [r \in Repos |-> [work |-> r \in w, pr |-> "none", ci |-> "running", clean |-> TRUE, behind |-> FALSE]]
    BY DEF XInit
  <2>2. ASSUME NEW r \in Repos
        PROVE  req[r] \in BranchRec /\ (req[r].work => r \in touched) /\ req[r].behind = FALSE
    <3> DEFINE b == r \in w
    <3>1. b \in BOOLEAN
      OBVIOUS
    <3>2. req[r] = [work |-> b, pr |-> "none", ci |-> "running", clean |-> TRUE, behind |-> FALSE]
      BY <2>1
    <3>3. b => r \in touched
      OBVIOUS
    <3> HIDE DEF b
    <3> QED
      BY <3>1, <3>2, <3>3 DEF BranchRec
  <2>3. req \in [Repos -> BranchRec]
    BY <2>1, <2>2
  <2> QED
    BY <2>2, <2>3
<1>4. touched \subseteq Repos /\ man = {} /\ pass = NoPass /\ pass \in PassRec /\ pass.pc = "idle" /\ pass.opened = {}
  BY NoPassTyped DEF XInit, NoPass
<1>5. world \in WorldRec /\ world.moves = 0 /\ world.resumes = 0 /\ \A r \in Repos : world.runs[r] = 0
  BY DEF XInit, WorldRec
<1>6. ShipTypes
  BY <1>1, <1>2, <1>3, <1>4, <1>5 DEF ShipTypes
<1>7. WherePassRuns /\ WorkIsTouched /\ DeliveredSoFar /\ AllTracked /\ PollIsTrue
  BY <1>1, <1>3, <1>4 DEF WherePassRuns, WorkIsTouched, DeliveredSoFar, AllTracked, PollIsTrue, Shipped
<1>8. \A r \in Repos : Due(r) = 0 /\ Behind(r) = 0
  BY <1>3, <1>4 DEF Due, Behind
<1>9. FixRunsBounded /\ RunsCharged
  BY <1>2, <1>3, <1>5, <1>8 DEF FixRunsBounded, RunsCharged
<1> QED
  BY <1>6, <1>7, <1>9 DEF ShipInv

LEMMA ShipInvStep == ShipInv /\ [XNext]_xvars => ShipInv'
<1> SUFFICES ASSUME ShipInv, [XNext]_xvars PROVE ShipInv'
  OBVIOUS
<1>1. CASE XNext
  <2>1. ShipTypes'
    BY <1>1, TypesKept DEF ShipInv
  <2> QED
    BY <1>1, <2>1, WhereKept, WorkKept, DeliveryKept, TrackedKept, PollKept, RunsKept DEF ShipInv
<1>2. CASE UNCHANGED xvars
  BY <1>2 DEF xvars, ShipInv, ShipTypes, WherePassRuns, WorkIsTouched, DeliveredSoFar, AllTracked, PollIsTrue,
     FixRunsBounded, RunsCharged, Due, Behind
<1> QED
  BY <1>1, <1>2

\* The inductive invariant of shipping to several repositories: where a run may
\* be, that all work past delivery is in the manifest, that a poll's answers
\* stay true, and what each agent run was charged to.
THEOREM ShipInvariant == XSpec => []ShipInv
  BY ShipInvInit, ShipInvStep, PTL DEF XSpec

LEMMA ShipInvTypes == ShipInv => XTypeOK /\ FixRunsBounded
<1> SUFFICES ASSUME ShipInv PROVE XTypeOK
  BY DEF ShipInv
<1> USE DEF ShipInv, ShipTypes
<1>1. pass.pc \in {"idle", "deliver", "poll", "fix", "agent", "merge"} /\ pass.todo \subseteq Repos
      /\ pass.got \in [Repos -> Statuses] /\ pass.opened \subseteq Repos
  BY DEF PassRec
<1>2. world.moves \in Nat /\ world.resumes \in Nat /\ world.moves + world.resumes <= MaxOutside
  BY DEF WorldRec
<1> QED
  BY <1>1, <1>2 DEF XTypeOK, TicketRec, CountRec, BranchRec

\* mill starts merging only when all work is in the manifest it polled.
LEMMA MergesWhole ==
    ASSUME ShipInv, [XNext]_xvars
    PROVE  \A r \in Repos : pass.pc = "merge" /\ req[r].pr = "open" /\ req'[r].pr = "merged" /\ mt.st = mt'.st
             => \A q \in touched : req[q].work => q \in man
<1> SUFFICES ASSUME pass.pc = "merge", NEW q \in touched, req[q].work PROVE q \in man
  OBVIOUS
<1>1. mt.from \in Shipped
  BY DEF ShipInv, WherePassRuns, Shipped
<1> QED
  BY <1>1 DEF ShipInv, AllTracked, ShipTypes

LEMMA DoneMerged ==
    ASSUME ShipInv, [XNext]_xvars, mt'.st = "DONE", mt.st # "DONE", NEW r \in Repos, req[r].work
    PROVE  req[r].pr = "merged"
<1> USE DEF ShipInv, ShipTypes
<1>0. mt.st \in XStates /\ {"DONE", "BLOCKED", "IMPLEMENT_COMPLETE", "HUMAN_MR_APPROVAL", "ADDRESSING_REVIEW"} \subseteq XStates
  BY DEF TicketRec, XStates
<1>1. XNext /\ mt' # mt
  BY DEF xvars
<1>2. CASE StartDelivery
  <2>1. touched = {}
    BY <1>1, <1>2 DEF StartDelivery
  <2> QED
    BY <2>1 DEF WorkIsTouched
<1>3. CASE EndDelivery
  <2>1. pass.opened = {} /\ pass.pc = "deliver" /\ pass.todo = {}
    BY <1>0, <1>3, EndsInTypes DEF EndDelivery
  <2> QED
    BY <2>1 DEF WorkIsTouched, DeliveredSoFar
<1>4. CASE DecideDone
  <2>1. mt.from \in Shipped /\ pass.pc = "poll" /\ AllMerged
    BY <1>4 DEF DecideDone, Polled, WherePassRuns, Shipped
  <2>2. pass.got[r] = "merged"
    BY <2>1 DEF AllTracked, AllMerged
  <2> QED
    BY <2>1, <2>2 DEF PollIsTrue
<1>5. ~OperatorResumesRepos
  <2>1. SUFFICES ASSUME OperatorResumesRepos PROVE FALSE
    OBVIOUS
  <2>2. mt.st = "BLOCKED" /\ mt.from = "DONE"
    BY <2>1 DEF OperatorResumesRepos, TicketRec
  <2> QED
    BY <2>2 DEF WherePassRuns
<1>6. CASE Ending /\ ~EndDelivery /\ ~DecideDone
  BY <1>6, EndingEnds
<1>7. CASE Deliver
  <2>1. PICK p \in pass.todo : DeliverFails(p)
    BY <1>1, <1>7 DEF Deliver, DeliverRepo, SkipRepo
  <2> QED
    BY <1>0, <2>1, EndsInTypes DEF DeliverFails
<1>8. CASE DecideFix
  BY <1>8 DEF DecideFix, TicketRec
<1>9. CASE DecideMerge \/ MergeOne \/ FixLimits \/ FixAgent
  BY <1>0, <1>1, <1>9, EndsInTypes DEF DecideMerge, MergeOne, FixLimits, FixAgent
<1>10. CASE FixTriage
  <2>1. [mt EXCEPT !.triaged = TRUE] \in TicketRec /\ [mt EXCEPT !.triaged = TRUE].st = mt.st
    BY DEF TicketRec
  <2> QED
    BY <1>0, <1>10, <2>1, EndsTyped DEF FixTriage
<1> QED
  BY <1>1, <1>2, <1>3, <1>4, <1>5, <1>6, <1>7, <1>8, <1>9, <1>10 DEF XNext, XStage, Ending, StartPoll, PollRepo,
     CiEnds, PersonActs, MainMoves, XCrash

\* What the run checks of a change of several repositories, for any repositories
\* and limits, however often a run is cut short and the operator sends the ticket
\* back: types and the bound on agent runs, no merge while a part was never
\* delivered, and done only when everything is merged.
THEOREM AlwaysShipsTogether == XSpec => ShipsTogether
<1>1. ShipInv /\ [XNext]_xvars =>
        (\A r \in Repos : pass.pc = "merge" /\ req[r].pr = "open" /\ req'[r].pr = "merged" /\ mt.st = mt'.st
           => \A q \in touched : req[q].work => q \in man)
  BY MergesWhole
<1>2. ShipInv /\ [XNext]_xvars =>
        (mt'.st = "DONE" /\ mt.st # "DONE" => \A r \in Repos : req[r].work => req[r].pr = "merged")
  BY DoneMerged
<1>3. ShipInv => XTypeOK /\ FixRunsBounded
  BY ShipInvTypes
<1>4. XSpec => [](XTypeOK /\ FixRunsBounded)
  BY <1>3, ShipInvariant, PTL
<1>5. XSpec => NoPartialShip
  BY <1>1, ShipInvariant, PTL DEF XSpec, NoPartialShip
<1>6. XSpec => DoneIsMergedEverywhere
  BY <1>2, ShipInvariant, PTL DEF XSpec, DoneIsMergedEverywhere
<1> QED
  BY <1>4, <1>5, <1>6 DEF ShipsTogether

(***************************************************************************)
(* The watch over the target branch.                                       *)
(***************************************************************************)

MonRec == [pc : {"idle", "scan", "fetched", "gate"}, mem : States, snap : SUBSET Nat,
           latest : [Workflows -> Listed], todo : SUBSET Workflows, cur : Workflows \cup {"none"}, id : Nat]
LogRec == [faults : Nat, lost : Nat, expired : Nat, dispatched : [Keys -> Nat], excused : SUBSET Keys]

LogTyped == record \in LogRec /\ record.lost <= record.faults /\ record.expired <= record.faults
            /\ record.faults <= MaxFaults

WatchTypes ==
  /\ head \in 1..MaxHeads /\ gone \subseteq Workflows
  /\ runs \in [Workflows -> Seq(Run)] /\ \A w \in Workflows : Len(runs[w]) <= MaxRuns
  /\ board \in Seq(Card) /\ file \in States
  /\ mon \in MonRec /\ mon.snap \subseteq 1..Len(board) /\ mon.id <= Len(board)
  /\ closer \in 0..Len(board)
  /\ LogTyped

\* A ticket, and what the monitor read, is about a run that was there.
BornThere ==
  \A t \in 1..Len(board) :
    /\ board[t].born \in 1..Len(runs[board[t].wf])
    /\ runs[board[t].wf][board[t].born].sha = board[t].sha

LatestThere ==
  \A w \in Workflows :
    \/ mon.latest[w].n = 0 /\ mon.latest[w].res = "green"
    \/ /\ mon.latest[w].n \in 1..Len(runs[w])
       /\ runs[w][mon.latest[w].n].sha = mon.latest[w].sha

\* While a workflow is still to be scanned, its open tickets are those the
\* poll found, and the one it has just filed.
OpenIsKnown ==
  mon.pc # "idle" =>
    \A t \in 1..Len(board) :
      IsOpen(board[t]) => t \in mon.snap \/ board[t].wf \notin mon.todo \/ (mon.pc = "gate" /\ mon.id = t)

AtFetched ==
  mon.pc = "fetched" =>
    /\ mon.cur \in mon.todo /\ Latest(mon.cur).n # 0
    /\ \A t \in mon.snap : board[t].wf # mon.cur

AtGate ==
  mon.pc = "gate" =>
    /\ mon.id \in 1..Len(board) /\ board[mon.id].wf \in mon.todo
    /\ Latest(board[mon.id].wf).sha \in board[mon.id].noted

SeenHeld == file.seen \cup mon.mem.seen \subseteq Noted \cup record.excused

\* How often a key may have been dispatched, by what a state says of it.
Spent(s, k) == (IF k \in s.seen THEN MaxRedispatch ELSE s.tried[k]) + MaxRedispatch * record.expired + record.lost

DispatchesCounted ==
  \A w \in Workflows, h \in 1..MaxHeads :
    /\ mon.pc = "idle" => record.dispatched[<<w, h>>] <= Spent(file, <<w, h>>)
    /\ mon.pc # "idle" =>
         /\ record.dispatched[<<w, h>>] <= Spent(mon.mem, <<w, h>>)
         /\ record.dispatched[<<w, h>>] <= Spent(file, <<w, h>>) + (IF w \in mon.todo THEN 0 ELSE 1)

WatchInv ==
  /\ WatchTypes /\ BornThere /\ LatestThere /\ OpenIsKnown /\ AtFetched /\ AtGate /\ OneOpenTicket
  /\ SeenHeld /\ DispatchesCounted

\* A set of natural numbers has a least element.
LEMMA LeastNumber ==
    ASSUME NEW T \in SUBSET Nat, T # {}
    PROVE  \E n \in T : \A m \in T : n <= m
<1> DEFINE Less == {s \in Nat \X Nat : s[1] < s[2]}
<1>1. IsWellFoundedOn(Less, Nat)
  BY NatLessThanWellFounded, Zenon DEF OpToRel
<1> HIDE DEF Less
<1>2. PICK n \in T : \A m \in T : <<m, n>> \notin Less
  BY <1>1, WFMin
<1>3. \A m \in T : ~(m < n)
  BY <1>2 DEF Less
<1> QED
  BY <1>3

\* A bounded set of natural numbers has a greatest element.
LEMMA GreatestNumber ==
    ASSUME NEW T \in SUBSET Nat, T # {}, NEW b \in Nat, \A n \in T : n <= b
    PROVE  \E n \in T : \A m \in T : m <= n
<1> DEFINE Distances == {b - n : n \in T}
<1>0. \A n \in T : b - n \in Nat
  OBVIOUS
<1>1. Distances \in SUBSET Nat /\ Distances # {}
  BY <1>0, Zenon
<1>2. PICK g \in Distances : \A h \in Distances : g <= h
  BY <1>1, LeastNumber
<1>3. PICK n \in T : g = b - n
  BY <1>2
<1>4. \A m \in T : b - m \in Distances
  OBVIOUS
<1>5. \A m \in T : m <= n
  <2> TAKE m \in T
  <2>1. b - n <= b - m
    BY <1>2, <1>3, <1>4
  <2> QED
    BY <2>1
<1> QED
  BY <1>5

\* A function on a finite set is bounded.
LEMMA BoundedOnFinite ==
    ASSUME NEW S, IsFiniteSet(S), NEW f \in [S -> Nat]
    PROVE  \E b \in Nat : \A x \in S : f[x] <= b
<1> DEFINE Bounded(U) == \E b \in Nat : \A x \in U : f[x] <= b
           Bad == {U \in SUBSET S : ~Bounded(U)}
<1>1. SUFFICES ASSUME Bad # {} PROVE FALSE
  OBVIOUS
<1>2. IsWellFoundedOn(StrictSubsetOrdering(S), SUBSET S)
  BY FS_StrictSubsetOrderingWellFounded, FS_FiniteSubsetsOfFinite
<1>3. PICK U \in Bad : \A V \in Bad : <<V, U>> \notin StrictSubsetOrdering(S)
  <2> HIDE DEF Bounded
  <2> QED
  BY <1>1, <1>2, WFMin, Zenon
<1>4. PICK x \in U : TRUE
  <2>1. U # {}
    <3>1. ~Bounded(U)
      OBVIOUS
    <3> QED
      BY <3>1
  <2> QED
    BY <2>1
<1>5. U \ {x} \notin Bad
  <2>1. <<U \ {x}, U>> \in StrictSubsetOrdering(S)
    BY <1>4, Zenon DEF StrictSubsetOrdering
  <2> QED
    BY <1>3, <2>1, Zenon
<1>6. PICK b \in Nat : \A y \in U \ {x} : f[y] <= b
  BY <1>5
<1>7. \E c \in Nat : \A y \in U : f[y] <= c
  <2>1. CASE f[x] <= b
    BY <1>6, <2>1
  <2>2. CASE ~(f[x] <= b)
    BY <1>4, <1>6, <2>2
  <2> QED
    BY <2>1, <2>2
<1> QED
  BY <1>7

LEMMA WatchNumbers ==
    /\ Window \in Nat /\ MaxDeferrals \in Nat /\ MaxRedispatch \in Nat /\ MaxHeads \in Nat \ {0}
    /\ MaxRuns \in Nat /\ MaxTickets \in Nat /\ MaxFaults \in Nat
    /\ 1 \in 1..MaxHeads
BY WatchConstants

LEMMA CardsAre ==
    ASSUME WatchTypes
    PROVE  /\ Len(board) \in Nat /\ DOMAIN board = 1..Len(board)
           /\ \A t \in 1..Len(board) : board[t] \in Card /\ board[t].wf \in Workflows /\ board[t].noted \subseteq 1..MaxHeads
<1>1. Len(board) \in Nat /\ DOMAIN board = 1..Len(board) /\ \A t \in 1..Len(board) : board[t] \in Card
  BY DEF WatchTypes
<1> QED
  BY <1>1 DEF Card

LEMMA NotedIs ==
    ASSUME NEW k
    PROVE  k \in Noted <=> \E t \in DOMAIN board : \E s \in board[t].noted : k = <<board[t].wf, s>>
BY DEF Noted

LEMMA MonIs ==
    ASSUME WatchTypes
    PROVE  /\ mon.pc \in {"idle", "scan", "fetched", "gate"} /\ mon.mem \in States /\ mon.snap \subseteq 1..Len(board)
           /\ mon.todo \subseteq Workflows /\ mon.id \in Nat /\ mon.cur \in Workflows \cup {"none"}
           /\ \A w \in Workflows : Latest(w) \in Listed /\ Key(w) \in Keys
<1>1. mon \in MonRec
  BY DEF WatchTypes
<1>2. mon.latest \in [Workflows -> Listed]
  BY <1>1 DEF MonRec
<1>3. ASSUME NEW w \in Workflows PROVE Latest(w) \in Listed /\ Key(w) \in Keys
  <2>1. mon.latest[w] \in Listed
    BY <1>2
  <2>2. mon.latest[w].sha \in 1..MaxHeads
    BY <2>1 DEF Listed
  <2> QED
    BY <2>1, <2>2 DEF Latest, Key, Keys
<1> QED
  BY <1>1, <1>3 DEF MonRec, WatchTypes

\* What a step leaves of the tickets, the runs and the record.
CardsKept ==
  /\ board' \in Seq(Card) /\ Len(board') = Len(board)
  /\ \A t \in 1..Len(board) :
       /\ board'[t].wf = board[t].wf /\ board'[t].born = board[t].born /\ board'[t].sha = board[t].sha
       /\ board[t].noted \subseteq board'[t].noted
       /\ IsOpen(board'[t]) => IsOpen(board[t])

HistoryKept ==
  /\ runs' \in [Workflows -> Seq(Run)]
  /\ \A w \in Workflows :
       /\ Len(runs[w]) <= Len(runs'[w]) /\ Len(runs'[w]) <= MaxRuns
       /\ \A n \in 1..Len(runs[w]) : runs'[w][n].sha = runs[w][n].sha

LEMMA NotedGrows == ASSUME WatchTypes, CardsKept PROVE Noted \subseteq Noted'
<1> SUFFICES ASSUME NEW k \in Noted PROVE k \in Noted'
  OBVIOUS
<1>1. PICK t \in DOMAIN board : \E s \in board[t].noted : k = <<board[t].wf, s>>
  BY NotedIs
<1>2. t \in 1..Len(board) /\ DOMAIN board' = 1..Len(board)
  BY CardsAre DEF CardsKept
<1>3. t \in DOMAIN board' /\ \E s \in board'[t].noted : k = <<board'[t].wf, s>>
  BY <1>1, <1>2 DEF CardsKept
<1> QED
  BY <1>3 DEF Noted

LEMMA CardsStayBorn ==
    ASSUME WatchInv, CardsKept, HistoryKept
    PROVE  BornThere' /\ OneOpenTicket'
<1>1. \A t \in 1..Len(board) : board[t].wf \in Workflows
  BY CardsAre DEF WatchInv
<1>2. \A w \in Workflows : Len(runs[w]) \in Nat /\ Len(runs'[w]) \in Nat
  BY DEF WatchInv, WatchTypes, HistoryKept
<1>3. BornThere'
  <2> SUFFICES ASSUME NEW t \in 1..Len(board)
               PROVE  /\ board'[t].born \in 1..Len(runs'[board'[t].wf])
                      /\ runs'[board'[t].wf][board'[t].born].sha = board'[t].sha
    BY DEF BornThere, CardsKept
  <2>1. board[t].born \in 1..Len(runs[board[t].wf]) /\ runs[board[t].wf][board[t].born].sha = board[t].sha
    BY DEF WatchInv, BornThere
  <2> QED
    BY <1>1, <1>2, <2>1 DEF CardsKept, HistoryKept
<1>4. OneOpenTicket'
  BY CardsAre DEF WatchInv, OneOpenTicket, CardsKept
<1> QED
  BY <1>3, <1>4

\* Whatever the forge, people and the closing pass do outside of a scan.
LEMMA OutsideKept ==
    ASSUME WatchInv, CardsKept, HistoryKept, head' \in 1..MaxHeads, gone' \subseteq Workflows,
           mon' = mon, file' = file, closer' \in 0..Len(board),
           LogTyped', record'.dispatched = record.dispatched, record'.lost = record.lost,
           record'.expired = record.expired, record'.excused = record.excused
    PROVE  WatchInv'
<1>1. WatchTypes'
  BY DEF WatchInv, WatchTypes, CardsKept, HistoryKept
<1>2. BornThere' /\ OneOpenTicket'
  BY CardsStayBorn
<1>3. LatestThere'
  <2>1. \A w \in Workflows : Len(runs[w]) \in Nat /\ Len(runs'[w]) \in Nat
    BY DEF WatchInv, WatchTypes, HistoryKept
  <2> QED
    BY <2>1 DEF WatchInv, LatestThere, HistoryKept
<1>4. OpenIsKnown' /\ AtFetched' /\ AtGate'
  <2>1. mon.snap \subseteq 1..Len(board)
    BY DEF WatchInv, WatchTypes
  <2> QED
    BY <2>1 DEF WatchInv, OpenIsKnown, AtFetched, AtGate, CardsKept, Latest
<1>5. SeenHeld'
  BY NotedGrows DEF WatchInv, SeenHeld
<1>6. DispatchesCounted'
  BY DEF WatchInv, DispatchesCounted, Spent
<1> QED
  BY <1>1, <1>2, <1>3, <1>4, <1>5, <1>6 DEF WatchInv

\* What a key may be spent, by what a state says of it and what was lost.
LEMMA SpentIs ==
    ASSUME NEW w \in Workflows, NEW h \in 1..MaxHeads, NEW s \in States, NEW lost \in Nat, NEW expired \in Nat,
           NEW base, base = MaxRedispatch * expired
    PROVE  /\ <<w, h>> \in Keys /\ base \in Nat
           /\ s.tried[<<w, h>>] \in Nat /\ s.tried[<<w, h>>] <= MaxRedispatch
           /\ (IF <<w, h>> \in s.seen THEN MaxRedispatch ELSE s.tried[<<w, h>>]) \in Nat
           /\ (IF <<w, h>> \in s.seen THEN MaxRedispatch ELSE s.tried[<<w, h>>]) <= MaxRedispatch
           /\ s.tried[<<w, h>>] <= (IF <<w, h>> \in s.seen THEN MaxRedispatch ELSE s.tried[<<w, h>>])
<1>1. <<w, h>> \in Keys
  BY DEF Keys
<1>2. s.tried[<<w, h>>] \in 0..MaxRedispatch
  BY <1>1 DEF States
<1> QED
  BY <1>1, <1>2, WatchNumbers

\* The counts stay within their bounds when a key is settled or left.
LEMMA CountsStay ==
    ASSUME WatchInv, mon.pc # "idle", mon'.pc # "idle", mon' \in MonRec, mon'.todo \subseteq mon.todo, file' = file,
           mon.mem.seen \subseteq mon'.mem.seen, mon'.mem.tried = mon.mem.tried,
           record'.dispatched = record.dispatched, record'.lost = record.lost, record'.expired = record.expired
    PROVE  DispatchesCounted'
<1> SUFFICES ASSUME NEW w \in Workflows, NEW h \in 1..MaxHeads
             PROVE  /\ record'.dispatched[<<w, h>>] <= Spent(mon.mem, <<w, h>>)'
                    /\ record'.dispatched[<<w, h>>] <= Spent(file, <<w, h>>)' + (IF w \in mon'.todo THEN 0 ELSE 1)
  BY DEF DispatchesCounted
<1> DEFINE k == <<w, h>>
           base == MaxRedispatch * record.expired
           lost == record.lost
           m == IF k \in mon.mem.seen THEN MaxRedispatch ELSE mon.mem.tried[k]
           m2 == IF k \in mon'.mem.seen THEN MaxRedispatch ELSE mon.mem.tried[k]
           f == IF k \in file.seen THEN MaxRedispatch ELSE file.tried[k]
           d == record.dispatched[k]
<1>1. record.expired \in Nat /\ lost \in Nat /\ record.dispatched \in [Keys -> Nat] /\ mon.mem \in States /\ file \in States
      /\ mon'.mem \in States
  BY DEF WatchInv, WatchTypes, LogTyped, LogRec, MonRec
<1>2. base \in Nat /\ d \in Nat /\ f \in Nat /\ m \in Nat /\ m <= MaxRedispatch
  BY <1>1, SpentIs
<1>3. m2 \in Nat /\ m <= m2
  BY <1>2, WatchNumbers
<1>4. Spent(mon.mem, k) = m + base + lost /\ Spent(file, k) = f + base + lost
  BY DEF Spent
<1>5. Spent(mon.mem, k)' = m2 + base + lost /\ Spent(file, k)' = f + base + lost
  BY DEF Spent
<1>6. d <= Spent(mon.mem, k) /\ d <= Spent(file, k) + (IF w \in mon.todo THEN 0 ELSE 1)
  BY DEF WatchInv, DispatchesCounted
<1> HIDE DEF base, lost, m, m2, f, d
<1>7. d <= m2 + base + lost /\ d <= f + base + lost + (IF w \in mon'.todo THEN 0 ELSE 1)
  BY <1>1, <1>2, <1>3, <1>4, <1>6
<1> QED
  BY <1>5, <1>7 DEF d

\* The scan goes on to the next workflow, whatever it did for this one.
LEMMA ScanGoesOn ==
    ASSUME WatchInv, NEW w \in mon.todo, mon.pc # "idle", mon.pc = "gate" => w = board[mon.id].wf,
           CardsKept, UNCHANGED <<runs, head, gone, file, closer>>,
           mon' \in MonRec, mon'.pc = "scan", mon'.todo = mon.todo \ {w}, mon'.snap = mon.snap,
           mon'.latest = mon.latest, mon'.id = 0,
           LogTyped', record.excused \subseteq record'.excused, mon'.mem.seen \subseteq Noted' \cup record'.excused,
           DispatchesCounted'
    PROVE  WatchInv'
<1>0. HistoryKept
  <2>1. \A v \in Workflows : Len(runs[v]) \in Nat
    BY DEF WatchInv, WatchTypes
  <2> QED
    BY <2>1 DEF HistoryKept, WatchInv, WatchTypes
<1>1. WatchTypes'
  BY <1>0, CardsAre DEF WatchInv, WatchTypes, CardsKept, HistoryKept
<1>2. BornThere' /\ OneOpenTicket'
  BY <1>0, CardsStayBorn
<1>3. LatestThere'
  BY DEF WatchInv, LatestThere
<1>4. OpenIsKnown'
  BY CardsAre DEF WatchInv, OpenIsKnown, CardsKept
<1>5. AtFetched' /\ AtGate'
  BY DEF AtFetched, AtGate
<1>6. SeenHeld'
  BY NotedGrows DEF WatchInv, SeenHeld
<1> QED
  BY <1>1, <1>2, <1>3, <1>4, <1>5, <1>6 DEF WatchInv

\* What the scan makes of its memory.
LEMMA LeftIs ==
    ASSUME WatchInv, NEW w \in mon.todo
    PROVE  /\ w \in Workflows /\ Key(w) \in Keys /\ Latest(w).sha \in 1..MaxHeads
           /\ Left(w) \in MonRec /\ Left(w).pc = "scan" /\ Left(w).todo = mon.todo \ {w} /\ Left(w).snap = mon.snap
           /\ Left(w).latest = mon.latest /\ Left(w).id = 0 /\ Left(w).mem = mon.mem
           /\ SettledKey(w) \in MonRec /\ SettledKey(w).pc = "scan" /\ SettledKey(w).todo = mon.todo \ {w}
           /\ SettledKey(w).snap = mon.snap /\ SettledKey(w).latest = mon.latest /\ SettledKey(w).id = 0
           /\ SettledKey(w).mem.seen = mon.mem.seen \cup {Key(w)} /\ SettledKey(w).mem.tried = mon.mem.tried
<1>1. w \in Workflows /\ Key(w) \in Keys /\ mon \in MonRec
  BY MonIs DEF WatchInv, WatchTypes
<1>2. Latest(w).sha \in 1..MaxHeads
  BY <1>1 DEF Key, Keys
<1>3. /\ Left(w) \in MonRec /\ Left(w).pc = "scan" /\ Left(w).todo = mon.todo \ {w} /\ Left(w).snap = mon.snap
      /\ Left(w).latest = mon.latest /\ Left(w).id = 0 /\ Left(w).mem = mon.mem
  BY <1>1 DEF Left, MonRec
<1>4. mon.mem \in States
  BY <1>1 DEF MonRec
<1> DEFINE put2 == [mon.mem.deferred EXCEPT ![Key(w)] = 0]
           mem2 == [mon.mem EXCEPT !.seen = @ \cup {Key(w)}, !.deferred = put2]
<1>5. mon.mem.seen \cup {Key(w)} \in SUBSET Keys /\ mon.mem.deferred \in [Keys -> 0..MaxDeferrals]
  BY <1>1, <1>4 DEF States
<1>6. put2 \in [Keys -> 0..MaxDeferrals]
  BY <1>5, WatchNumbers
<1>7. SettledKey(w) = [mon EXCEPT !.pc = "scan", !.todo = @ \ {w}, !.cur = "none", !.id = 0, !.mem = mem2]
  BY <1>1, <1>4 DEF SettledKey, MonRec, States
<1> HIDE DEF put2
<1>8. mem2 \in States /\ mem2.seen = mon.mem.seen \cup {Key(w)} /\ mem2.tried = mon.mem.tried
  BY <1>4, <1>5, <1>6 DEF States
<1> HIDE DEF mem2
<1>9. SettledKey(w) \in MonRec
  <2>1. SettledKey(w) = [Left(w) EXCEPT !.mem = mem2]
    BY <1>1, <1>7 DEF Left, MonRec
  <2>2. \A m \in MonRec : [m EXCEPT !.mem = mem2] \in MonRec
    BY <1>8 DEF MonRec
  <2> QED
    BY <1>3, <2>1, <2>2
<1>10. /\ SettledKey(w).pc = "scan" /\ SettledKey(w).todo = mon.todo \ {w}
       /\ SettledKey(w).snap = mon.snap /\ SettledKey(w).latest = mon.latest /\ SettledKey(w).id = 0 /\ SettledKey(w).mem = mem2
  BY <1>1, <1>7 DEF MonRec
<1> QED
  BY <1>1, <1>2, <1>3, <1>8, <1>9, <1>10

LEMMA NothingToDoKeeps == ASSUME WatchInv, NEW w \in Workflows, NothingToDo(w) PROVE WatchInv'
<1>1. /\ mon.pc = "scan" /\ w \in mon.todo /\ mon' = Left(w)
      /\ UNCHANGED <<head, runs, gone, board, file, closer, record>>
  BY DEF NothingToDo
<1>2. CardsKept
  BY <1>1, CardsAre DEF CardsKept, WatchInv, WatchTypes
<1>3. DispatchesCounted'
  BY <1>1, LeftIs, CountsStay
<1>4. LogTyped' /\ Noted' = Noted
  BY <1>1 DEF WatchInv, WatchTypes, LogTyped, Noted
<1> QED
  BY <1>1, <1>2, <1>3, <1>4, LeftIs, ScanGoesOn DEF WatchInv, SeenHeld

\* Another fault is recorded.
LEMMA FaultyIs ==
    ASSUME WatchInv
    PROVE  /\ record \in LogRec /\ Faulty.dispatched = record.dispatched /\ Faulty.lost = record.lost
           /\ Faulty.expired = record.expired /\ Faulty.excused = record.excused /\ Faulty \in LogRec
           /\ Faulty.faults = record.faults + 1 /\ (Fault => Faulty.faults <= MaxFaults)
           /\ record.lost <= record.faults /\ record.expired <= record.faults
           /\ \A E \in SUBSET Keys :
                /\ [record EXCEPT !.excused = @ \cup E] \in LogRec
                /\ [Faulty EXCEPT !.excused = @ \cup E] \in LogRec
<1>1. record \in LogRec
  BY DEF WatchInv, WatchTypes, LogTyped
<1>2. record.faults + 1 \in Nat /\ (Fault => record.faults + 1 <= MaxFaults)
  BY <1>1, WatchNumbers DEF LogRec, Fault
<1>3. Faulty \in LogRec
  BY <1>1, <1>2 DEF Faulty, LogRec
<1> QED
  BY <1>1, <1>2, <1>3 DEF Faulty, LogRec, WatchInv, WatchTypes, LogTyped

\* The key is settled: a step that leaves the tickets alone, or notes the run.
LEMMA SettledKeeps ==
    ASSUME WatchInv, NEW w \in mon.todo, mon.pc # "idle", mon.pc = "gate" => w = board[mon.id].wf,
           CardsKept, UNCHANGED <<runs, head, gone, file, closer>>, mon' = SettledKey(w),
           LogTyped', record.excused \subseteq record'.excused, Key(w) \in Noted' \cup record'.excused,
           record'.dispatched = record.dispatched, record'.lost = record.lost, record'.expired = record.expired
    PROVE  WatchInv'
<1>1. DispatchesCounted'
  BY LeftIs, CountsStay
<1>2. mon'.mem.seen \subseteq Noted' \cup record'.excused
  BY LeftIs, NotedGrows DEF WatchInv, SeenHeld
<1> QED
  BY <1>1, <1>2, LeftIs, ScanGoesOn

\* The key is left for the next poll.
LEMMA LeftKeeps ==
    ASSUME WatchInv, NEW w \in mon.todo, mon.pc # "idle", mon.pc = "gate" => w = board[mon.id].wf,
           CardsKept, UNCHANGED <<runs, head, gone, file, closer>>, mon' \in MonRec,
           mon'.pc = "scan", mon'.todo = mon.todo \ {w}, mon'.snap = mon.snap, mon'.latest = mon.latest, mon'.id = 0,
           mon'.mem.seen = mon.mem.seen, mon'.mem.tried = mon.mem.tried,
           LogTyped', record.excused \subseteq record'.excused,
           record'.dispatched = record.dispatched, record'.lost = record.lost, record'.expired = record.expired
    PROVE  WatchInv'
<1>1. DispatchesCounted'
  BY CountsStay
<1>2. mon'.mem.seen \subseteq Noted' \cup record'.excused
  BY NotedGrows DEF WatchInv, SeenHeld
<1> QED
  BY <1>1, <1>2, ScanGoesOn

\* A step that leaves every ticket as it is, or notes a commit on one.
LEMMA SameCards == ASSUME WatchInv, board' = board PROVE CardsKept /\ Noted' = Noted
BY CardsAre DEF CardsKept, WatchInv, WatchTypes, Noted

LEMMA NoteIs ==
    ASSUME WatchInv, NEW t \in 1..Len(board), NEW w \in Workflows, board[t].wf = w, Note(t, w)
    PROVE  CardsKept /\ Key(w) \in Noted'
<1>1. board[t] \in Card /\ Latest(w).sha \in 1..MaxHeads /\ board \in Seq(Card)
  BY CardsAre, MonIs DEF WatchInv, WatchTypes, Listed
<1> DEFINE c2 == [board[t] EXCEPT !.noted = @ \cup {Latest(w).sha}]
<1>2. c2 \in Card /\ c2.wf = board[t].wf /\ c2.born = board[t].born /\ c2.sha = board[t].sha /\ c2.st = board[t].st
      /\ c2.noted = board[t].noted \cup {Latest(w).sha}
  BY <1>1 DEF Card
<1>3. board' = [board EXCEPT ![t] = c2]
  BY DEF Note
<1> HIDE DEF c2
<1>4. board' \in Seq(Card) /\ Len(board') = Len(board) /\ board'[t] = c2 /\ DOMAIN board' = 1..Len(board)
      /\ \A s \in 1..Len(board) : s # t => board'[s] = board[s]
  BY <1>1, <1>2, <1>3
<1>5. CardsKept
  BY <1>2, <1>4 DEF CardsKept, IsOpen
<1>6. <<board'[t].wf, Latest(w).sha>> \in Noted'
  BY <1>2, <1>4 DEF Noted
<1> QED
  BY <1>2, <1>4, <1>5, <1>6 DEF Key

LEMMA RedispatchKeeps == ASSUME WatchInv, NEW w \in Workflows, _maybe_redispatch_cancelled(w) PROVE WatchInv'
<1>1. /\ mon.pc = "scan" /\ w \in mon.todo /\ Key(w) \notin mon.mem.seen
      /\ UNCHANGED <<head, runs, gone, board, file, closer>>
  BY DEF _maybe_redispatch_cancelled, Concerns
<1>2. CardsKept /\ Noted' = Noted
  BY <1>1, SameCards
<1>3. Key(w) \in Keys
  BY <1>1, LeftIs
<1>4. CASE mon' = SettledKey(w) /\ record' = [record EXCEPT !.excused = @ \cup {Key(w)}]
  <2>1. record' \in LogRec
    BY <1>3, <1>4, FaultyIs
  <2>2. /\ record'.excused = record.excused \cup {Key(w)} /\ record'.dispatched = record.dispatched
        /\ record'.lost = record.lost /\ record'.expired = record.expired /\ record'.faults = record.faults
    BY <1>4, FaultyIs DEF LogRec
  <2>3. LogTyped'
    BY <2>1, <2>2 DEF LogTyped, WatchInv, WatchTypes
  <2> QED
    BY <1>1, <1>2, <1>4, <2>2, <2>3, SettledKeeps
<1>5. CASE mon' = Left(w) /\ UNCHANGED record
  <2>1. LogTyped'
    BY <1>5 DEF WatchInv, WatchTypes, LogTyped
  <2> QED
    BY <1>1, <1>2, <1>5, <2>1, LeftIs, LeftKeeps
<1>6. CASE /\ mon.mem.tried[Key(w)] < MaxRedispatch
           /\ mon' = [Left(w) EXCEPT !.mem.tried[Key(w)] = @ + 1]
           /\ record' = [record EXCEPT !.dispatched[Key(w)] = @ + 1]
  <2>1. mon.mem \in States /\ Left(w) \in MonRec /\ Left(w).mem = mon.mem /\ record \in LogRec
    BY <1>1, LeftIs, MonIs, FaultyIs DEF WatchInv
  <2> DEFINE put2 == [mon.mem.tried EXCEPT ![Key(w)] = @ + 1]
             mem2 == [mon.mem EXCEPT !.tried = put2]
             sent2 == [record.dispatched EXCEPT ![Key(w)] = @ + 1]
  <2>2. mon.mem.tried \in [Keys -> 0..MaxRedispatch] /\ record.dispatched \in [Keys -> Nat]
    BY <2>1 DEF States, LogRec
  <2>3. put2 \in [Keys -> 0..MaxRedispatch] /\ sent2 \in [Keys -> Nat]
    BY <1>3, <1>6, <2>2, WatchNumbers
  <2>4. mon' = [Left(w) EXCEPT !.mem = mem2]
    BY <1>6, <2>1 DEF MonRec, States
  <2>5. record' = [record EXCEPT !.dispatched = sent2]
    BY <1>6, <2>1 DEF LogRec
  <2>6. /\ put2[Key(w)] = mon.mem.tried[Key(w)] + 1 /\ sent2[Key(w)] = record.dispatched[Key(w)] + 1
        /\ \A k \in Keys : k # Key(w) => put2[k] = mon.mem.tried[k] /\ sent2[k] = record.dispatched[k]
    BY <1>3, <2>2
  <2> HIDE DEF put2, sent2
  <2>7. mem2 \in States /\ mem2.seen = mon.mem.seen /\ mem2.tried = put2
    BY <2>1, <2>3 DEF States
  <2> HIDE DEF mem2
  <2>8. \A m \in MonRec : [m EXCEPT !.mem = mem2] \in MonRec
    BY <2>7 DEF MonRec
  <2>9. /\ mon' \in MonRec /\ mon'.pc = "scan" /\ mon'.todo = mon.todo \ {w} /\ mon'.snap = mon.snap
        /\ mon'.latest = mon.latest /\ mon'.id = 0 /\ mon'.mem = mem2
    BY <1>1, <2>1, <2>4, <2>8, LeftIs DEF MonRec
  <2>10. /\ record' \in LogRec /\ record'.dispatched = sent2 /\ record'.lost = record.lost
         /\ record'.expired = record.expired /\ record'.excused = record.excused /\ record'.faults = record.faults
    BY <2>1, <2>3, <2>5 DEF LogRec
  <2>11. LogTyped'
    BY <2>10 DEF LogTyped, WatchInv, WatchTypes
  <2>12. DispatchesCounted'
    <3> SUFFICES ASSUME NEW v \in Workflows, NEW h \in 1..MaxHeads
                 PROVE  /\ record'.dispatched[<<v, h>>] <= Spent(mon.mem, <<v, h>>)'
                        /\ record'.dispatched[<<v, h>>] <= Spent(file, <<v, h>>)' + (IF v \in mon'.todo THEN 0 ELSE 1)
      BY <2>9 DEF DispatchesCounted
    <3> DEFINE k == <<v, h>>
               base == MaxRedispatch * record.expired
               lost == record.lost
               m == IF k \in mon.mem.seen THEN MaxRedispatch ELSE mon.mem.tried[k]
               m2 == IF k \in mon.mem.seen THEN MaxRedispatch ELSE put2[k]
               f == IF k \in file.seen THEN MaxRedispatch ELSE file.tried[k]
               d == record.dispatched[k]
    <3>1. record.expired \in Nat /\ lost \in Nat /\ file \in States
      BY <2>1 DEF WatchInv, WatchTypes, LogRec
    <3>2. base \in Nat /\ f \in Nat /\ m \in Nat /\ k \in Keys /\ mon.mem.tried[k] \in Nat
      BY <2>1, <3>1, SpentIs
    <3>3. d \in Nat
      BY <2>2, <3>2
    <3>4. m + base + lost = Spent(mon.mem, k) /\ f + base + lost = Spent(file, k)
      BY DEF Spent
    <3>5. Spent(mon.mem, k)' = m2 + base + lost /\ Spent(file, k)' = f + base + lost
      BY <1>1, <2>7, <2>9, <2>10 DEF Spent
    <3>6. d <= Spent(mon.mem, k) /\ d <= Spent(file, k) + (IF v \in mon.todo THEN 0 ELSE 1)
      BY <1>1 DEF WatchInv, DispatchesCounted
    <3>7. CASE k = Key(w)
      <4>1. v = w /\ k \notin mon.mem.seen
        BY <1>1, <3>7 DEF Key
      <4>2. m2 = m + 1 /\ sent2[k] = d + 1
        BY <2>6, <3>7, <4>1
      <4> HIDE DEF base, lost, m, m2, f, d, k
      <4>3. d + 1 <= m2 + base + lost /\ d + 1 <= f + base + lost + 1
        BY <1>1, <3>1, <3>2, <3>3, <3>4, <3>6, <4>1, <4>2
      <4>4. v \notin mon'.todo
        BY <2>9, <4>1
      <4> QED
        BY <2>10, <3>5, <4>2, <4>3, <4>4 DEF k
    <3>8. CASE k # Key(w)
      <4>1. m2 = m /\ sent2[k] = d
        BY <2>6, <3>2, <3>8
      <4>2. v \in mon'.todo => v \in mon.todo
        BY <2>9
      <4> HIDE DEF base, lost, m, m2, f, d, k
      <4>3. d <= m2 + base + lost /\ d <= f + base + lost + (IF v \in mon'.todo THEN 0 ELSE 1)
        BY <3>1, <3>2, <3>3, <3>4, <3>6, <4>1, <4>2
      <4> QED
        BY <2>10, <3>5, <4>1, <4>3 DEF k
    <3> QED
      BY <3>7, <3>8
  <2>13. mon'.mem.seen \subseteq Noted' \cup record'.excused
    BY <1>2, <2>7, <2>9, <2>10 DEF WatchInv, SeenHeld
  <2> QED
    BY <1>1, <1>2, <2>9, <2>10, <2>11, <2>12, <2>13, ScanGoesOn
<1> QED
  BY <1>4, <1>5, <1>6 DEF _maybe_redispatch_cancelled

\* A failure is excused, with or without a fault.
LEMMA ExcusedIs ==
    ASSUME WatchInv, NEW w \in mon.todo, NEW base \in {record, Faulty}, base = Faulty => Fault,
           record' = [base EXCEPT !.excused = @ \cup {Key(w)}]
    PROVE  /\ LogTyped' /\ record.excused \subseteq record'.excused /\ Key(w) \in record'.excused
           /\ record'.dispatched = record.dispatched /\ record'.lost = record.lost /\ record'.expired = record.expired
<1>1. Key(w) \in Keys
  BY LeftIs
<1>2. base \in LogRec
  BY FaultyIs
<1>3. /\ base.dispatched = record.dispatched /\ base.lost = record.lost
      /\ base.expired = record.expired /\ base.excused = record.excused /\ base.faults <= MaxFaults
      /\ base.lost <= base.faults /\ base.expired <= base.faults
  <2>1. CASE base = record
    BY <2>1 DEF WatchInv, WatchTypes, LogTyped
  <2>2. CASE base = Faulty
    <3>1. record.lost \in Nat /\ record.expired \in Nat /\ record.faults \in Nat
      BY FaultyIs DEF LogRec
    <3> QED
      BY <2>2, <3>1, FaultyIs
  <2> QED
    BY <2>1, <2>2
<1>4. record' \in LogRec /\ record'.excused = record.excused \cup {Key(w)} /\ record'.dispatched = base.dispatched
      /\ record'.lost = base.lost /\ record'.expired = base.expired /\ record'.faults = base.faults
  BY <1>1, <1>2, <1>3 DEF LogRec
<1> QED
  BY <1>3, <1>4 DEF LogTyped

LEMMA NotOursKeeps == ASSUME WatchInv, NEW w \in Workflows, NotOurs(w) PROVE WatchInv'
<1>1. /\ mon.pc = "scan" /\ w \in mon.todo /\ mon' = SettledKey(w)
      /\ UNCHANGED <<head, runs, gone, board, file, closer>>
  BY DEF NotOurs, Concerns
<1>2. CardsKept
  BY <1>1, SameCards
<1>3. \E base \in {record, Faulty} : (base = Faulty => Fault) /\ record' = [base EXCEPT !.excused = @ \cup {Key(w)}]
  <2>1. CASE w \in gone
    <3>1. record' = [record EXCEPT !.excused = @ \cup {Key(w)}]
      BY <2>1 DEF NotOurs
    <3>2. record # Faulty
      <4>1. Faulty.faults # record.faults
        BY FaultyIs DEF LogRec
      <4> QED
        BY <4>1
    <3> QED
      BY <3>1, <3>2
  <2>2. CASE w \notin gone
    BY <2>2 DEF NotOurs
  <2> QED
    BY <2>1, <2>2
<1> QED
  BY <1>1, <1>2, <1>3, ExcusedIs, SettledKeeps

LEMMA NoteOnCanonicalKeeps == ASSUME WatchInv, NEW w \in Workflows, NoteOnCanonical(w) PROVE WatchInv'
<1>1. /\ mon.pc = "scan" /\ w \in mon.todo /\ mon' = SettledKey(w)
      /\ UNCHANGED <<head, runs, gone, file, closer>>
  BY DEF NoteOnCanonical, Concerns
<1>2. PICK t \in _find_canonical_ci_ticket(w) :
        \/ Note(t, w) /\ UNCHANGED record
        \/ Fault /\ record' = [Faulty EXCEPT !.excused = @ \cup {Key(w)}] /\ UNCHANGED board
  BY DEF NoteOnCanonical
<1>3. t \in 1..Len(board) /\ board[t].wf = w
  BY <1>2, MonIs DEF _find_canonical_ci_ticket, WatchInv
<1>4. CASE Note(t, w) /\ UNCHANGED record
  <2>1. LogTyped'
    BY <1>4 DEF WatchInv, WatchTypes, LogTyped
  <2> QED
    BY <1>1, <1>3, <1>4, <2>1, NoteIs, SettledKeeps
<1>5. CASE Fault /\ record' = [Faulty EXCEPT !.excused = @ \cup {Key(w)}] /\ UNCHANGED board
  BY <1>1, <1>5, SameCards, ExcusedIs, SettledKeeps
<1> QED
  BY <1>2, <1>4, <1>5

\* What a fault leaves of the record.
LEMMA FaultTyped ==
    ASSUME WatchInv, Fault, record' = Faulty
    PROVE  /\ LogTyped' /\ record'.excused = record.excused /\ record'.dispatched = record.dispatched
           /\ record'.lost = record.lost /\ record'.expired = record.expired
<1>1. record.lost \in Nat /\ record.expired \in Nat /\ record.faults \in Nat
  BY FaultyIs DEF LogRec
<1> QED
  BY <1>1, FaultyIs DEF LogTyped

LEMMA FetchLogsKeeps == ASSUME WatchInv, NEW w \in Workflows, FetchLogs(w) PROVE WatchInv'
<1>1. /\ mon.pc = "scan" /\ w \in mon.todo /\ Latest(w).res \in Failing /\ _find_canonical_ci_ticket(w) = {}
      /\ UNCHANGED <<head, runs, gone, board, file, closer>>
  BY DEF FetchLogs, Concerns
<1>2. CardsKept /\ Noted' = Noted
  BY <1>1, SameCards
<1>3. ASSUME UNCHANGED record PROVE LogTyped'
  BY <1>3 DEF WatchInv, WatchTypes, LogTyped
<1>4. CASE Fault /\ mon' = Left(w) /\ record' = Faulty
  BY <1>1, <1>2, <1>4, FaultTyped, LeftIs, LeftKeeps
<1>5. CASE /\ MayDefer(mon.mem.deferred[Key(w)]) /\ UNCHANGED record
           /\ mon' = [Left(w) EXCEPT !.mem.deferred[Key(w)] =
                        IF mon.mem.deferred[Key(w)] = MaxDeferrals THEN mon.mem.deferred[Key(w)]
                        ELSE mon.mem.deferred[Key(w)] + 1]
  <2> DEFINE n2 == IF mon.mem.deferred[Key(w)] = MaxDeferrals THEN mon.mem.deferred[Key(w)]
                   ELSE mon.mem.deferred[Key(w)] + 1
             put2 == [mon.mem.deferred EXCEPT ![Key(w)] = n2]
             mem2 == [mon.mem EXCEPT !.deferred = put2]
  <2>1. mon.mem \in States /\ Left(w) \in MonRec /\ Left(w).mem = mon.mem /\ Key(w) \in Keys
    BY <1>1, LeftIs, MonIs DEF WatchInv
  <2>2. mon.mem.deferred \in [Keys -> 0..MaxDeferrals]
    BY <2>1 DEF States
  <2>3. n2 \in 0..MaxDeferrals
    BY <2>1, <2>2, WatchNumbers
  <2>4. put2 \in [Keys -> 0..MaxDeferrals]
    BY <2>2, <2>3
  <2>5. mon' = [Left(w) EXCEPT !.mem = mem2]
    BY <1>5, <2>1 DEF MonRec, States
  <2> HIDE DEF n2, put2
  <2>6. mem2 \in States /\ mem2.seen = mon.mem.seen /\ mem2.tried = mon.mem.tried
    BY <2>1, <2>4 DEF States
  <2> HIDE DEF mem2
  <2>7. \A m \in MonRec : [m EXCEPT !.mem = mem2] \in MonRec
    BY <2>6 DEF MonRec
  <2>8. /\ mon' \in MonRec /\ mon'.pc = "scan" /\ mon'.todo = mon.todo \ {w} /\ mon'.snap = mon.snap
        /\ mon'.latest = mon.latest /\ mon'.id = 0 /\ mon'.mem = mem2
    BY <1>1, <2>1, <2>5, <2>7, LeftIs DEF MonRec
  <2> QED
    BY <1>1, <1>2, <1>3, <1>5, <2>6, <2>8, LeftKeeps
<1>6. CASE mon' = [mon EXCEPT !.pc = "fetched", !.cur = w] /\ UNCHANGED record
  <2>1. /\ mon' \in MonRec /\ mon'.pc = "fetched" /\ mon'.cur = w /\ mon'.todo = mon.todo /\ mon'.snap = mon.snap
        /\ mon'.latest = mon.latest /\ mon'.id = mon.id /\ mon'.mem = mon.mem
    BY <1>6 DEF WatchInv, WatchTypes, MonRec
  <2>2. WatchTypes'
    BY <1>1, <1>3, <1>6, <2>1 DEF WatchInv, WatchTypes
  <2>3. BornThere' /\ OneOpenTicket' /\ LatestThere'
    BY <1>1, <2>1 DEF WatchInv, BornThere, OneOpenTicket, LatestThere
  <2>4. OpenIsKnown' /\ AtGate'
    BY <1>1, <2>1 DEF WatchInv, OpenIsKnown, AtGate
  <2>5. Latest(w).n # 0
    <3>1. (Latest(w).n = 0 /\ Latest(w).res = "green") \/ Latest(w).n \in 1..Len(runs[w])
      BY DEF WatchInv, LatestThere, Latest
    <3> QED
      BY <1>1, <3>1 DEF Failing, WatchInv, WatchTypes
  <2>6. AtFetched'
    BY <1>1, <2>1, <2>5 DEF AtFetched, _find_canonical_ci_ticket, Latest
  <2>7. SeenHeld'
    BY <1>1, <1>2, <1>6, <2>1 DEF WatchInv, SeenHeld
  <2>8. DispatchesCounted'
    BY <1>1, <1>6, <2>1, CountsStay
  <2> QED
    BY <2>2, <2>3, <2>4, <2>6, <2>7, <2>8 DEF WatchInv
<1> QED
  BY <1>4, <1>5, <1>6 DEF FetchLogs

\* The state of a ticket changes, and it does not open again.
LEMMA CardMoves ==
    ASSUME WatchInv, NEW t \in 1..Len(board), NEW c2 \in Card, board' = [board EXCEPT ![t] = c2],
           c2.wf = board[t].wf, c2.born = board[t].born, c2.sha = board[t].sha, board[t].noted \subseteq c2.noted,
           IsOpen(c2) => IsOpen(board[t])
    PROVE  CardsKept
<1>1. board \in Seq(Card)
  BY DEF WatchInv, WatchTypes
<1>2. board' \in Seq(Card) /\ Len(board') = Len(board) /\ board'[t] = c2
      /\ \A s \in 1..Len(board) : s # t => board'[s] = board[s]
  BY <1>1
<1> QED
  BY <1>2 DEF CardsKept, IsOpen

\* A new ticket: the poll found none of its workflow open, and filed none.
LEMMA CreateKeeps ==
    ASSUME WatchInv, NEW w \in Workflows, mon.pc = "fetched", w = mon.cur, CreateTicket(w),
           UNCHANGED <<head, runs, gone, file, closer>>
    PROVE  WatchInv'
<1>1. PICK l \in {TRUE} \cup (IF Fault THEN {FALSE} ELSE {}) :
        /\ board' = Append(board, [wf |-> w, born |-> Latest(w).n, sha |-> Latest(w).sha, st |-> "open",
                                   noted |-> {Latest(w).sha}, label |-> l, dispatched |-> FALSE])
        /\ record' = IF l THEN record ELSE Faulty
  BY DEF CreateTicket
<1>2. w \in mon.todo /\ Latest(w).n # 0 /\ \A t \in mon.snap : board[t].wf # w
  BY DEF WatchInv, AtFetched
<1>3. Latest(w).n \in 1..Len(runs[w]) /\ runs[w][Latest(w).n].sha = Latest(w).sha
  BY <1>2 DEF WatchInv, LatestThere, Latest
<1>4. Latest(w).sha \in 1..MaxHeads /\ Len(runs[w]) \in Nat /\ Len(runs[w]) <= MaxRuns
  BY <1>2, LeftIs DEF WatchInv, WatchTypes
<1> DEFINE new == [wf |-> w, born |-> Latest(w).n, sha |-> Latest(w).sha, st |-> "open",
                   noted |-> {Latest(w).sha}, label |-> l, dispatched |-> FALSE]
<1>5. Latest(w).n \in 1..MaxRuns
  BY <1>3, <1>4, WatchNumbers
<1>6. new \in Card
  <2>1. l \in BOOLEAN
    BY <1>1
  <2> QED
    BY <1>4, <1>5, <2>1 DEF Card
<1>7. board \in Seq(Card) /\ Len(board) \in Nat
  BY DEF WatchInv, WatchTypes
<1>8. new.wf = w /\ new.born = Latest(w).n /\ new.sha = Latest(w).sha /\ new.noted = {Latest(w).sha}
  OBVIOUS
<1>9. board' = Append(board, new)
  BY <1>1
<1> HIDE DEF new
<1>10. /\ board' \in Seq(Card) /\ Len(board') = Len(board) + 1 /\ board'[Len(board) + 1] = new
       /\ \A t \in 1..Len(board) : board'[t] = board[t]
  BY <1>6, <1>7, <1>9
<1>11. /\ mon' \in MonRec /\ mon'.pc = "gate" /\ mon'.id = Len(board) + 1 /\ mon'.todo = mon.todo
       /\ mon'.snap = mon.snap /\ mon'.latest = mon.latest /\ mon'.mem = mon.mem
  <2>1. mon' = [mon EXCEPT !.pc = "gate", !.id = Len(board) + 1] /\ mon \in MonRec /\ Len(board) + 1 \in Nat
    BY <1>7 DEF CreateTicket, WatchInv, WatchTypes
  <2> QED
    BY <2>1 DEF MonRec
<1>12. LogTyped' /\ record'.excused = record.excused /\ record'.dispatched = record.dispatched
       /\ record'.lost = record.lost /\ record'.expired = record.expired
  <2>1. CASE l
    BY <1>1, <2>1 DEF WatchInv, WatchTypes, LogTyped
  <2>2. CASE ~l
    BY <1>1, <2>2, FaultTyped
  <2> QED
    BY <2>1, <2>2
<1>13. WatchTypes'
  <2>1. mon'.snap \subseteq 1..Len(board') /\ mon'.id <= Len(board') /\ closer' \in 0..Len(board')
    BY <1>7, <1>10, <1>11 DEF WatchInv, WatchTypes
  <2> QED
    BY <1>10, <1>11, <1>12, <2>1 DEF WatchInv, WatchTypes
<1>14. \A t \in 1..Len(board') : t \in 1..Len(board) \/ t = Len(board) + 1
  BY <1>7, <1>10
<1>15. BornThere'
  BY <1>3, <1>8, <1>10, <1>14 DEF WatchInv, BornThere
<1>16. LatestThere'
  BY <1>11 DEF WatchInv, LatestThere
<1>17. OpenIsKnown'
  BY <1>10, <1>11, <1>14 DEF WatchInv, OpenIsKnown
<1>18. \A t \in 1..Len(board) : board[t].wf = w => ~IsOpen(board[t])
  BY <1>2 DEF WatchInv, OpenIsKnown
<1>19. OneOpenTicket'
  <2>1. DOMAIN board' = 1..Len(board') /\ DOMAIN board = 1..Len(board)
    BY <1>7, <1>10
  <2> SUFFICES ASSUME NEW s \in 1..Len(board'), NEW t \in 1..Len(board'),
                      board'[s].wf = board'[t].wf, IsOpen(board'[s]), IsOpen(board'[t])
               PROVE  s = t
    BY <2>1 DEF OneOpenTicket, IsOpen
  <2>2. CASE s \in 1..Len(board) /\ t \in 1..Len(board)
    BY <1>10, <2>1, <2>2 DEF WatchInv, OneOpenTicket
  <2>3. CASE s = Len(board) + 1 \/ t = Len(board) + 1
    BY <1>8, <1>10, <1>14, <1>18, <2>3
  <2> QED
    BY <1>14, <2>2, <2>3
<1>20. AtFetched' /\ AtGate'
  BY <1>2, <1>7, <1>8, <1>10, <1>11 DEF AtFetched, AtGate, Latest
<1>21. SeenHeld'
  <2>1. Noted \subseteq Noted'
    <3> SUFFICES ASSUME NEW k \in Noted PROVE k \in Noted'
      OBVIOUS
    <3>1. PICK t \in DOMAIN board : \E s \in board[t].noted : k = <<board[t].wf, s>>
      BY NotedIs
    <3>2. t \in DOMAIN board' /\ board'[t] = board[t]
      BY <1>7, <1>10, <3>1
    <3> QED
      BY <3>1, <3>2 DEF Noted
  <2> QED
    BY <1>11, <1>12, <2>1 DEF WatchInv, SeenHeld
<1>22. DispatchesCounted'
  BY <1>11, <1>12, CountsStay
<1> QED
  BY <1>13, <1>15, <1>16, <1>17, <1>19, <1>20, <1>21, <1>22 DEF WatchInv

LEMMA NoteOrFileKeeps == ASSUME WatchInv, NEW w \in Workflows, NoteOrFile(w) PROVE WatchInv'
<1>1. mon.pc = "fetched" /\ w = mon.cur /\ w \in mon.todo /\ UNCHANGED <<head, runs, gone, file, closer>>
  BY DEF NoteOrFile, WatchInv, AtFetched
<1>2. CASE Prior(w) # {}
  <2>1. PICK t \in Prior(w) : Note(t, w)
    BY <1>2 DEF NoteOrFile
  <2>2. t \in 1..Len(board) /\ board[t].wf = w /\ mon' = SettledKey(w) /\ UNCHANGED record
    BY <1>2, <2>1, CardsAre DEF NoteOrFile, Prior, WatchInv
  <2>3. LogTyped'
    BY <2>2 DEF WatchInv, WatchTypes, LogTyped
  <2> QED
    BY <1>1, <2>1, <2>2, <2>3, NoteIs, SettledKeeps
<1>3. CASE CreateFails(w)
  <2>1. Fault /\ record' = Faulty /\ mon' = Left(w) /\ board' = board
    BY <1>3 DEF CreateFails
  <2> QED
    BY <1>1, <2>1, SameCards, FaultTyped, LeftIs, LeftKeeps
<1>4. CASE CreateTicket(w)
  BY <1>1, <1>4, CreateKeeps
<1> QED
  BY <1>2, <1>3, <1>4 DEF NoteOrFile

LEMMA GateKeeps == ASSUME WatchInv, NEW w \in Workflows, _apply_stale_ci_gate(w) PROVE WatchInv'
<1>1. /\ mon.pc = "gate" /\ w = board[mon.id].wf /\ mon' = SettledKey(w)
      /\ UNCHANGED <<head, runs, gone, file, closer, record>>
  BY DEF _apply_stale_ci_gate
<1>2. mon.id \in 1..Len(board) /\ w \in mon.todo /\ Latest(w).sha \in board[mon.id].noted
  BY <1>1 DEF WatchInv, AtGate
<1>3. CardsKept
  <2>1. CASE board' = board
    BY <2>1, SameCards
  <2>2. CASE IsOpen(board[mon.id]) /\ board' = [board EXCEPT ![mon.id].st = "done"]
    <3> DEFINE c2 == [board[mon.id] EXCEPT !.st = "done"]
    <3>1. board[mon.id] \in Card
      BY <1>2, CardsAre DEF WatchInv
    <3>2. c2 \in Card /\ c2.wf = board[mon.id].wf /\ c2.born = board[mon.id].born /\ c2.sha = board[mon.id].sha
          /\ c2.noted = board[mon.id].noted
      BY <3>1 DEF Card
    <3>3. board' = [board EXCEPT ![mon.id] = c2]
      BY <2>2
    <3> HIDE DEF c2
    <3> QED
      BY <1>2, <2>2, <3>2, <3>3, CardMoves
  <2> QED
    BY <2>1, <2>2 DEF _apply_stale_ci_gate
<1>4. Key(w) \in Noted
  BY <1>1, <1>2, CardsAre DEF Noted, Key, WatchInv
<1>5. Key(w) \in Noted'
  BY <1>3, <1>4, NotedGrows DEF WatchInv
<1>6. LogTyped'
  BY <1>1 DEF WatchInv, WatchTypes, LogTyped
<1> QED
  BY <1>1, <1>2, <1>3, <1>5, <1>6, SettledKeeps

\* The states a poll starts from and ends in.
LEMMA FreshIs ==
    /\ Fresh \in States /\ Fresh.seen = {} /\ Nothing \in [Keys -> {0}]
    /\ Idle \in MonRec /\ Idle.pc = "idle" /\ Idle.mem = Fresh /\ Idle.snap = {} /\ Idle.todo = {} /\ Idle.id = 0
    /\ \A w \in Workflows : Idle.latest[w].n = 0 /\ Idle.latest[w].res = "green"
<1>1. Nothing \in [Keys -> {0}]
  BY DEF Nothing
<1>2. Fresh \in States /\ Fresh.seen = {}
  BY <1>1, WatchNumbers DEF Fresh, States
<1>3. NoRun \in Listed
  BY WatchNumbers DEF NoRun, Listed
<1>4. [w \in Workflows |-> NoRun] \in [Workflows -> Listed]
  BY <1>3
<1>5. Idle \in MonRec
  BY <1>2, <1>4 DEF Idle, MonRec
<1> QED
  BY <1>1, <1>2, <1>5 DEF Idle, NoRun

\* A poll that is idle keeps nothing that could be wrong.
LEMMA IdleIs ==
    ASSUME mon' = Idle
    PROVE  LatestThere' /\ OpenIsKnown' /\ AtFetched' /\ AtGate' /\ mon' \in MonRec /\ mon'.mem.seen = {}
BY FreshIs DEF LatestThere, OpenIsKnown, AtFetched, AtGate

LEMMA SaveStateKeeps == ASSUME WatchInv, SaveState PROVE WatchInv'
<1>1. /\ mon.pc = "scan" /\ mon.todo = {} /\ file' = mon.mem /\ mon' = Idle
      /\ UNCHANGED <<head, runs, gone, board, closer, record>>
  BY DEF SaveState
<1>2. LatestThere' /\ OpenIsKnown' /\ AtFetched' /\ AtGate' /\ mon' \in MonRec /\ mon'.mem.seen = {}
  BY <1>1, IdleIs
<1>3. mon.mem \in States /\ Len(board) \in Nat
  BY MonIs, CardsAre DEF WatchInv
<1>4. WatchTypes'
  BY <1>1, <1>2, <1>3, FreshIs DEF WatchInv, WatchTypes, LogTyped
<1>5. BornThere' /\ OneOpenTicket'
  BY <1>1 DEF WatchInv, BornThere, OneOpenTicket
<1>6. SeenHeld'
  BY <1>1, <1>2 DEF WatchInv, SeenHeld, Noted
<1>7. DispatchesCounted'
  BY <1>1, FreshIs DEF WatchInv, DispatchesCounted, Spent
<1> QED
  BY <1>2, <1>4, <1>5, <1>6, <1>7 DEF WatchInv

\* The count of a scan that is lost is at most one behind.
LEMMA ScanDiesKeeps == ASSUME WatchInv, ScanDies PROVE WatchInv'
<1>1. /\ mon.pc # "idle" /\ Fault /\ mon' = Idle /\ record' = [Faulty EXCEPT !.lost = @ + 1]
      /\ UNCHANGED <<head, runs, gone, board, file, closer>>
  BY DEF ScanDies
<1>2. LatestThere' /\ OpenIsKnown' /\ AtFetched' /\ AtGate' /\ mon' \in MonRec /\ mon'.mem.seen = {}
  BY <1>1, IdleIs
<1>3. Len(board) \in Nat /\ record \in LogRec /\ Faulty \in LogRec
  BY CardsAre, FaultyIs DEF WatchInv
<1>4. record.lost \in Nat /\ record.expired \in Nat /\ record.faults \in Nat /\ record.dispatched \in [Keys -> Nat]
  BY <1>3 DEF LogRec
<1>5. /\ record' \in LogRec /\ record'.lost = record.lost + 1 /\ record'.expired = record.expired
      /\ record'.dispatched = record.dispatched /\ record'.excused = record.excused /\ record'.faults = record.faults + 1
  <2>1. Faulty.lost + 1 \in Nat
    BY <1>4, FaultyIs
  <2>2. record' \in LogRec /\ record'.lost = Faulty.lost + 1 /\ record'.expired = Faulty.expired
        /\ record'.dispatched = Faulty.dispatched /\ record'.excused = Faulty.excused /\ record'.faults = Faulty.faults
    BY <1>1, <1>3, <2>1 DEF LogRec
  <2> QED
    BY <2>2, FaultyIs
<1>6. LogTyped'
  <2>1. record.faults + 1 <= MaxFaults /\ record.lost <= record.faults /\ record.expired <= record.faults
    BY <1>1, FaultyIs
  <2> QED
    BY <1>4, <1>5, <2>1 DEF LogTyped
<1>7. WatchTypes'
  BY <1>1, <1>2, <1>3, <1>6, FreshIs DEF WatchInv, WatchTypes
<1>8. BornThere' /\ OneOpenTicket'
  BY <1>1 DEF WatchInv, BornThere, OneOpenTicket
<1>9. SeenHeld'
  BY <1>1, <1>2, <1>5 DEF WatchInv, SeenHeld, Noted
<1>10. DispatchesCounted'
  <2> SUFFICES ASSUME NEW w \in Workflows, NEW h \in 1..MaxHeads
               PROVE  record'.dispatched[<<w, h>>] <= Spent(file, <<w, h>>)'
    BY <1>1, FreshIs DEF DispatchesCounted
  <2> DEFINE k == <<w, h>>
             base == MaxRedispatch * record.expired
             f == IF k \in file.seen THEN MaxRedispatch ELSE file.tried[k]
             d == record.dispatched[k]
  <2>1. file \in States
    BY DEF WatchInv, WatchTypes
  <2>2. base \in Nat /\ f \in Nat /\ k \in Keys
    BY <1>4, <2>1, SpentIs
  <2>3. d \in Nat
    BY <1>4, <2>2
  <2>4. Spent(file, k) = f + base + record.lost /\ Spent(file, k)' = f + base + (record.lost + 1)
    BY <1>1, <1>5 DEF Spent
  <2>5. d <= Spent(file, k) + (IF w \in mon.todo THEN 0 ELSE 1)
    BY <1>1 DEF WatchInv, DispatchesCounted
  <2> HIDE DEF base, f, d, k
  <2>6. d <= f + base + (record.lost + 1)
    BY <1>4, <2>2, <2>3, <2>4, <2>5
  <2> QED
    BY <1>5, <2>4, <2>6 DEF d, k
<1> QED
  BY <1>2, <1>7, <1>8, <1>9, <1>10 DEF WatchInv

\* What the forge lists of a workflow is a run that is there.
LEMMA NewestIs ==
    ASSUME WatchInv, NEW w \in Workflows
    PROVE  /\ Newest(w) \in Listed
           /\ \/ Newest(w).n = 0 /\ Newest(w).res = "green"
              \/ Newest(w).n \in 1..Len(runs[w]) /\ runs[w][Newest(w).n].sha = Newest(w).sha
<1>1. runs[w] \in Seq(Run) /\ Len(runs[w]) \in Nat /\ Len(runs[w]) <= MaxRuns
  BY DEF WatchInv, WatchTypes
<1>2. CASE runs[w] = <<>>
  BY <1>2, WatchNumbers DEF Newest, NoRun, Listed
<1>3. CASE runs[w] # <<>>
  <2>1. Len(runs[w]) \in 1..Len(runs[w]) /\ Len(runs[w]) \in 0..MaxRuns
    BY <1>1, <1>3, WatchNumbers
  <2>2. Last(runs[w]) = runs[w][Len(runs[w])]
    BY DEF Last
  <2>3. Last(runs[w]) \in Run
    BY <1>1, <2>1, <2>2
  <2>4. Newest(w) = [n |-> Len(runs[w]), sha |-> Last(runs[w]).sha, res |-> Last(runs[w]).res, how |-> Last(runs[w]).how]
    BY <1>3 DEF Newest
  <2>5. Last(runs[w]).sha \in 1..MaxHeads /\ Last(runs[w]).res \in Results /\ Last(runs[w]).how \in {"push", "rerun", "dispatch"}
    BY <2>3 DEF Run
  <2>6. Newest(w) \in Listed
    BY <2>1, <2>4, <2>5 DEF Listed
  <2> QED
    BY <2>1, <2>2, <2>4, <2>6
<1> QED
  BY <1>2, <1>3

\* What a poll makes of the saved state.
LEMMA PrunedIs ==
    ASSUME NEW f \in States, NEW old \in SUBSET Keys
    PROVE  /\ _prune_ci_state(f, old) \in States /\ _prune_ci_state(f, old).seen = f.seen \ old
           /\ \A k \in Keys : k \notin f.seen \ old => _prune_ci_state(f, old).tried[k] = f.tried[k]
<1>1. f.seen \in SUBSET Keys /\ f.deferred \in [Keys -> 0..MaxDeferrals] /\ f.tried \in [Keys -> 0..MaxRedispatch]
  BY DEF States
<1> QED
  BY <1>1, WatchNumbers DEF _prune_ci_state, States

LEMMA BeginPollKeeps == ASSUME WatchInv, BeginPoll PROVE WatchInv'
<1>1. PICK old \in {{}} \cup (IF Fault THEN {file.seen} ELSE {}) :
        /\ mon' = [Idle EXCEPT !.pc = "scan", !.mem = _prune_ci_state(file, old), !.todo = Workflows,
                               !.latest = [w \in Workflows |-> Newest(w)],
                               !.snap = {t \in DOMAIN board : IsOpen(board[t])}]
        /\ record' = IF old = {} THEN record ELSE [Faulty EXCEPT !.expired = @ + 1]
  BY DEF BeginPoll
<1>2. mon.pc = "idle" /\ UNCHANGED <<head, runs, gone, board, file, closer>>
  BY DEF BeginPoll
<1>3. file \in States /\ file.seen \in SUBSET Keys
  BY DEF WatchInv, WatchTypes, States
<1>4. old \in SUBSET Keys /\ (old # {} => Fault /\ old = file.seen)
  BY <1>1, <1>3
<1> DEFINE mem2 == _prune_ci_state(file, old)
           latest2 == [w \in Workflows |-> Newest(w)]
           snap2 == {t \in DOMAIN board : IsOpen(board[t])}
<1>5. mem2 \in States /\ mem2.seen = file.seen \ old /\ \A k \in Keys : k \notin file.seen \ old => mem2.tried[k] = file.tried[k]
  BY <1>3, <1>4, PrunedIs
<1>6. latest2 \in [Workflows -> Listed] /\ \A w \in Workflows : latest2[w] = Newest(w)
  BY NewestIs
<1>7. Len(board) \in Nat /\ DOMAIN board = 1..Len(board) /\ snap2 \subseteq 1..Len(board) /\ snap2 \in SUBSET Nat
  BY CardsAre DEF WatchInv
<1> HIDE DEF mem2, latest2
<1>8. /\ mon' \in MonRec /\ mon'.pc = "scan" /\ mon'.mem = mem2 /\ mon'.todo = Workflows /\ mon'.latest = latest2
      /\ mon'.snap = snap2 /\ mon'.id = 0
  <2>1. mon' = [Idle EXCEPT !.pc = "scan", !.mem = mem2, !.todo = Workflows, !.latest = latest2, !.snap = snap2]
    BY <1>1 DEF mem2, latest2
  <2> HIDE DEF snap2
  <2> QED
    BY <1>5, <1>6, <1>7, <2>1, FreshIs DEF MonRec
<1>9. /\ record \in LogRec /\ Faulty \in LogRec
      /\ record.lost \in Nat /\ record.expired \in Nat /\ record.faults \in Nat /\ record.dispatched \in [Keys -> Nat]
  BY FaultyIs DEF WatchInv, LogRec
<1>10. /\ record' \in LogRec /\ record'.lost = record.lost /\ record'.dispatched = record.dispatched
       /\ record'.excused = record.excused /\ record'.faults <= MaxFaults
       /\ record'.lost <= record'.faults /\ record'.expired <= record'.faults
       /\ record'.expired = IF old = {} THEN record.expired ELSE record.expired + 1
  <2>1. CASE old = {}
    BY <1>1, <1>9, <2>1 DEF WatchInv, WatchTypes, LogTyped
  <2>2. CASE old # {}
    <3>1. record' = [Faulty EXCEPT !.expired = @ + 1] /\ Fault
      BY <1>1, <1>4, <2>2
    <3>2. Faulty.expired + 1 \in Nat
      BY <1>9, FaultyIs
    <3>3. /\ record' \in LogRec /\ record'.lost = Faulty.lost /\ record'.dispatched = Faulty.dispatched
          /\ record'.excused = Faulty.excused /\ record'.faults = Faulty.faults /\ record'.expired = Faulty.expired + 1
      BY <1>9, <3>1, <3>2 DEF LogRec
    <3>4. /\ Faulty.lost = record.lost /\ Faulty.dispatched = record.dispatched /\ Faulty.excused = record.excused
          /\ Faulty.expired = record.expired
      BY FaultyIs
    <3>5. Faulty.faults = record.faults + 1 /\ Faulty.faults <= MaxFaults
          /\ record.lost <= record.faults /\ record.expired <= record.faults
      BY <3>1, FaultyIs
    <3>6. record.lost <= record.faults + 1 /\ record.expired + 1 <= record.faults + 1
      BY <1>9, <3>5
    <3> QED
      BY <2>2, <3>3, <3>4, <3>5, <3>6
  <2> QED
    BY <2>1, <2>2
<1>11. LogTyped'
  BY <1>10 DEF LogTyped
<1>12. WatchTypes'
  BY <1>2, <1>7, <1>8, <1>11, WatchNumbers DEF WatchInv, WatchTypes
<1>13. BornThere' /\ OneOpenTicket'
  BY <1>2 DEF WatchInv, BornThere, OneOpenTicket
<1>14. LatestThere'
  BY <1>2, <1>6, <1>8, NewestIs DEF LatestThere
<1>15. OpenIsKnown' /\ AtFetched' /\ AtGate'
  BY <1>2, <1>7, <1>8 DEF OpenIsKnown, AtFetched, AtGate
<1>16. SeenHeld'
  BY <1>2, <1>5, <1>8, <1>10 DEF WatchInv, SeenHeld, Noted
<1>17. DispatchesCounted'
  <2> SUFFICES ASSUME NEW w \in Workflows, NEW h \in 1..MaxHeads
               PROVE  /\ record'.dispatched[<<w, h>>] <= Spent(mon.mem, <<w, h>>)'
                      /\ record'.dispatched[<<w, h>>] <= Spent(file, <<w, h>>)' + 0
    BY <1>8 DEF DispatchesCounted
  <2> DEFINE k == <<w, h>>
             f == IF k \in file.seen THEN MaxRedispatch ELSE file.tried[k]
             m == IF k \in mem2.seen THEN MaxRedispatch ELSE mem2.tried[k]
             e == record.expired
             e2 == IF old = {} THEN e ELSE e + 1
             d == record.dispatched[k]
  <2>1. MaxRedispatch * e \in Nat /\ f \in Nat /\ f <= MaxRedispatch /\ k \in Keys /\ m \in Nat
    BY <1>3, <1>5, <1>9, SpentIs
  <2>2. d \in Nat
    BY <1>9, <2>1
  <2>3. MaxRedispatch * e2 = MaxRedispatch * e + (IF old = {} THEN 0 ELSE MaxRedispatch)
    BY <1>9, WatchNumbers
  <2>4. old = {} => m = f
    BY <1>5, <2>1
  <2>5. Spent(file, k) = f + MaxRedispatch * e + record.lost
    BY DEF Spent
  <2>6. Spent(file, k)' = f + MaxRedispatch * e2 + record.lost /\ Spent(mon.mem, k)' = m + MaxRedispatch * e2 + record.lost
    BY <1>2, <1>8, <1>10 DEF Spent
  <2>7. d <= Spent(file, k)
    BY <1>2 DEF WatchInv, DispatchesCounted
  <2> DEFINE a == MaxRedispatch * e
             a2 == MaxRedispatch * e2
  <2> HIDE DEF a, a2, f, m, e, e2, d, k
  <2>8. a \in Nat /\ a2 = a + (IF old = {} THEN 0 ELSE MaxRedispatch)
    BY <2>1, <2>3 DEF a, a2
  <2>9. d <= f + a + record.lost
    BY <2>5, <2>7 DEF a
  <2>10. d <= f + a2 + record.lost + 0 /\ d <= m + a2 + record.lost
    <3>1. CASE old = {}
      BY <1>9, <2>1, <2>2, <2>4, <2>8, <2>9, <3>1
    <3>2. CASE old # {}
      BY <1>9, <2>1, <2>2, <2>8, <2>9, <3>2, WatchNumbers
    <3> QED
      BY <3>1, <3>2
  <2> QED
    BY <1>10, <2>6, <2>10 DEF a2, d, k
<1> QED
  BY <1>12, <1>13, <1>14, <1>15, <1>16, <1>17 DEF WatchInv

LEMMA SameRuns == ASSUME WatchInv, runs' = runs PROVE HistoryKept
<1>1. \A w \in Workflows : Len(runs[w]) \in Nat
  BY DEF WatchInv, WatchTypes
<1> QED
  BY <1>1 DEF HistoryKept, WatchInv, WatchTypes

LEMMA SameRecord == ASSUME WatchInv, record' = record PROVE LogTyped'
BY DEF WatchInv, WatchTypes, LogTyped

LEMMA PushKeeps == ASSUME WatchInv, Push PROVE WatchInv'
<1>1. head \in 1..MaxHeads /\ head < MaxHeads /\ head' = head + 1 /\ closer \in 0..Len(board) /\ gone \subseteq Workflows
      /\ UNCHANGED <<runs, gone, board, file, mon, closer, record>>
  BY DEF Push, WatchInv, WatchTypes
<1>2. head' \in 1..MaxHeads
  BY <1>1, WatchNumbers
<1> QED
  BY <1>1, <1>2, SameCards, SameRuns, SameRecord, OutsideKept

LEMMA DeleteKeeps == ASSUME WatchInv, NEW w \in Workflows, DeleteWorkflow(w) PROVE WatchInv'
<1>1. head \in 1..MaxHeads /\ closer \in 0..Len(board) /\ gone' \subseteq Workflows
      /\ UNCHANGED <<head, runs, board, file, mon, closer, record>>
  BY DEF DeleteWorkflow, WatchInv, WatchTypes
<1> QED
  BY <1>1, SameCards, SameRuns, SameRecord, OutsideKept

LEMMA RunEndsKeeps == ASSUME WatchInv, NEW w \in Workflows, RunEnds(w) PROVE WatchInv'
<1>1. /\ head \in 1..MaxHeads /\ closer \in 0..Len(board) /\ gone \subseteq Workflows
      /\ Len(runs[w]) < MaxRuns /\ UNCHANGED <<head, gone, board, file, mon, closer, record>>
  BY DEF RunEnds, WatchInv, WatchTypes
<1>2. PICK r \in Results, h \in {"push", "dispatch"} :
        runs' = [runs EXCEPT ![w] = Append(@, [sha |-> head, res |-> r, how |-> h])]
  BY DEF RunEnds
<1> DEFINE new == [sha |-> head, res |-> r, how |-> h]
<1>3. new \in Run
  BY <1>1 DEF Run
<1>4. runs \in [Workflows -> Seq(Run)] /\ \A v \in Workflows : Len(runs[v]) \in Nat /\ Len(runs[v]) <= MaxRuns
  BY DEF WatchInv, WatchTypes
<1>5. runs' = [runs EXCEPT ![w] = Append(runs[w], new)]
  BY <1>2
<1> HIDE DEF new
<1>6. runs[w] \in Seq(Run)
  BY <1>4
<1>7. /\ Append(runs[w], new) \in Seq(Run) /\ Len(Append(runs[w], new)) = Len(runs[w]) + 1
      /\ \A n \in 1..Len(runs[w]) : Append(runs[w], new)[n] = runs[w][n]
  BY <1>3, <1>6
<1>8. runs' \in [Workflows -> Seq(Run)] /\ runs'[w] = Append(runs[w], new)
      /\ \A v \in Workflows : v # w => runs'[v] = runs[v]
  BY <1>4, <1>5, <1>7
<1>9. HistoryKept
  <2> SUFFICES ASSUME NEW v \in Workflows
               PROVE  /\ Len(runs[v]) <= Len(runs'[v]) /\ Len(runs'[v]) <= MaxRuns
                      /\ \A n \in 1..Len(runs[v]) : runs'[v][n].sha = runs[v][n].sha
    BY <1>8 DEF HistoryKept
  <2>1. CASE v = w
    BY <1>1, <1>4, <1>7, <1>8, <2>1, WatchNumbers
  <2>2. CASE v # w
    BY <1>4, <1>8, <2>2
  <2> QED
    BY <2>1, <2>2
<1> QED
  BY <1>1, <1>9, SameCards, SameRecord, OutsideKept

LEMMA RerunEndsKeeps == ASSUME WatchInv, NEW w \in Workflows, RerunEnds(w) PROVE WatchInv'
<1>1. /\ head \in 1..MaxHeads /\ closer \in 0..Len(board) /\ gone \subseteq Workflows
      /\ runs[w] # <<>> /\ UNCHANGED <<head, gone, board, file, mon, closer, record>>
  BY DEF RerunEnds, WatchInv, WatchTypes
<1>2. PICK r \in Results : runs' = [runs EXCEPT ![w][Len(runs[w])].res = r, ![w][Len(runs[w])].how = "rerun"]
  BY DEF RerunEnds
<1>3. runs \in [Workflows -> Seq(Run)] /\ \A v \in Workflows : Len(runs[v]) \in Nat /\ Len(runs[v]) <= MaxRuns
  BY DEF WatchInv, WatchTypes
<1>4. runs[w] \in Seq(Run)
  BY <1>3
<1> DEFINE z == Len(runs[w])
<1>5. z \in 1..Len(runs[w]) /\ runs[w][z] \in Run
  BY <1>1, <1>4
<1> DEFINE new == [runs[w][z] EXCEPT !.res = r, !.how = "rerun"]
           s2 == [runs[w] EXCEPT ![z] = new]
<1>6. new \in Run /\ new.sha = runs[w][z].sha
  BY <1>5 DEF Run
<1>7. runs' = [runs EXCEPT ![w] = s2]
  BY <1>2, <1>3, <1>4, <1>5
<1> HIDE DEF new
<1>8. s2 \in Seq(Run) /\ Len(s2) = Len(runs[w]) /\ s2[z] = new /\ \A n \in 1..Len(runs[w]) : n # z => s2[n] = runs[w][n]
  BY <1>4, <1>5, <1>6
<1> HIDE DEF s2
<1>9. runs' \in [Workflows -> Seq(Run)] /\ runs'[w] = s2 /\ \A v \in Workflows : v # w => runs'[v] = runs[v]
  BY <1>3, <1>7, <1>8
<1>10. \A n \in 1..Len(runs[w]) : runs'[w][n].sha = runs[w][n].sha
  BY <1>6, <1>8, <1>9
<1>11. HistoryKept
  <2> SUFFICES ASSUME NEW v \in Workflows
               PROVE  /\ Len(runs[v]) <= Len(runs'[v]) /\ Len(runs'[v]) <= MaxRuns
                      /\ \A n \in 1..Len(runs[v]) : runs'[v][n].sha = runs[v][n].sha
    BY <1>9 DEF HistoryKept
  <2>1. CASE v = w
    BY <1>3, <1>8, <1>9, <1>10, <2>1
  <2>2. CASE v # w
    BY <1>3, <1>9, <2>2
  <2> QED
    BY <2>1, <2>2
<1> QED
  BY <1>1, <1>11, SameCards, SameRecord, OutsideKept

\* A ticket whose state or flag changes.
LEMMA TicketMovesKeeps == ASSUME WatchInv, NEW t \in DOMAIN board, TicketMoves(t) PROVE WatchInv'
<1>1. /\ head \in 1..MaxHeads /\ closer \in 0..Len(board) /\ gone \subseteq Workflows
      /\ UNCHANGED <<head, runs, gone, file, mon, closer>>
  BY DEF TicketMoves, WatchInv, WatchTypes
<1>2. t \in 1..Len(board) /\ board[t] \in Card
  BY CardsAre DEF WatchInv
<1>3. PICK s \in {"mr", "done", "dropped"} : board' = [board EXCEPT ![t].st = s] /\ IsOpen(board[t])
  BY DEF TicketMoves, IsOpen
<1>4. CardsKept
  <2> DEFINE c2 == [board[t] EXCEPT !.st = s]
  <2>1. c2 \in Card /\ c2.wf = board[t].wf /\ c2.born = board[t].born /\ c2.sha = board[t].sha
        /\ c2.noted = board[t].noted
    BY <1>2 DEF Card
  <2>2. board' = [board EXCEPT ![t] = c2]
    BY <1>3
  <2> HIDE DEF c2
  <2> QED
    BY <1>2, <1>3, <2>1, <2>2, CardMoves
<1>5. LogTyped' /\ record'.excused = record.excused /\ record'.dispatched = record.dispatched
      /\ record'.lost = record.lost /\ record'.expired = record.expired
  BY SameRecord, FaultTyped DEF TicketMoves
<1> QED
  BY <1>1, <1>4, <1>5, SameRuns, OutsideKept

LEMMA MaybeCloseKeeps == ASSUME WatchInv, NEW t \in DOMAIN board, _maybe_close(t) PROVE WatchInv'
<1>1. head \in 1..MaxHeads /\ gone \subseteq Workflows /\ closer' = t
      /\ UNCHANGED <<head, runs, gone, board, file, mon, record>>
  BY DEF _maybe_close, WatchInv, WatchTypes
<1>2. closer' \in 0..Len(board)
  BY <1>1, CardsAre DEF WatchInv
<1> QED
  BY <1>1, <1>2, SameCards, SameRuns, SameRecord, OutsideKept

LEMMA CloseKeeps == ASSUME WatchInv, _close PROVE WatchInv'
<1>1. /\ head \in 1..MaxHeads /\ closer \in 0..Len(board) /\ gone \subseteq Workflows /\ Len(board) \in Nat
      /\ closer # 0 /\ closer' = 0 /\ UNCHANGED <<head, runs, gone, file, mon, record>>
  BY CardsAre DEF _close, WatchInv, WatchTypes
<1>2. closer \in 1..Len(board) /\ board[closer] \in Card
  BY <1>1, CardsAre DEF WatchInv
<1>3. CardsKept
  <2>1. CASE board' = board
    BY <2>1, SameCards
  <2>2. CASE IsOpen(board[closer]) /\ board' = [board EXCEPT ![closer].st = "done"]
    <3> DEFINE c2 == [board[closer] EXCEPT !.st = "done"]
    <3>1. c2 \in Card /\ c2.wf = board[closer].wf /\ c2.born = board[closer].born /\ c2.sha = board[closer].sha
          /\ c2.noted = board[closer].noted
      BY <1>2 DEF Card
    <3>2. board' = [board EXCEPT ![closer] = c2]
      BY <2>2
    <3> HIDE DEF c2
    <3> QED
      BY <1>2, <2>2, <3>1, <3>2, CardMoves
  <2> QED
    BY <2>1, <2>2 DEF _close
<1> QED
  BY <1>1, <1>3, SameRuns, SameRecord, OutsideKept

LEMMA DispatchKeeps == ASSUME WatchInv, NEW t \in DOMAIN board, _maybe_dispatch_cron_workflow(t) PROVE WatchInv'
<1>1. /\ head \in 1..MaxHeads /\ closer \in 0..Len(board) /\ gone \subseteq Workflows
      /\ UNCHANGED <<head, runs, gone, file, mon, closer, record>> /\ board' = [board EXCEPT ![t].dispatched = TRUE]
  BY DEF _maybe_dispatch_cron_workflow, WatchInv, WatchTypes
<1>2. t \in 1..Len(board) /\ board[t] \in Card
  BY CardsAre DEF WatchInv
<1>3. CardsKept
  <2> DEFINE c2 == [board[t] EXCEPT !.dispatched = TRUE]
  <2>1. c2 \in Card /\ c2.wf = board[t].wf /\ c2.born = board[t].born /\ c2.sha = board[t].sha
        /\ c2.noted = board[t].noted /\ c2.st = board[t].st
    BY <1>2 DEF Card
  <2>2. board' = [board EXCEPT ![t] = c2]
    BY <1>1
  <2>3. IsOpen(c2) => IsOpen(board[t])
    BY <2>1 DEF IsOpen
  <2> HIDE DEF c2
  <2> QED
    BY <1>2, <2>1, <2>2, <2>3, CardMoves
<1> QED
  BY <1>1, <1>3, SameRuns, SameRecord, OutsideKept

LEMMA WatchStarts == WInit => WatchInv
<1> SUFFICES ASSUME WInit PROVE WatchInv
  OBVIOUS
<1>1. /\ head = 1 /\ runs = [w \in Workflows |-> <<>>] /\ gone = {} /\ board = <<>> /\ file = Fresh
      /\ mon = Idle /\ closer = 0
      /\ record = [faults |-> 0, lost |-> 0, expired |-> 0, dispatched |-> Nothing, excused |-> {}]
  BY DEF WInit
<1>2. Nothing \in [Keys -> Nat] /\ \A k \in Keys : Nothing[k] = 0
  BY DEF Nothing
<1>3. LogTyped
  BY <1>1, <1>2, WatchNumbers DEF LogTyped, LogRec
<1>4. WatchTypes
  BY <1>1, <1>3, FreshIs, WatchNumbers DEF WatchTypes
<1>5. BornThere /\ OneOpenTicket /\ LatestThere
  BY <1>1, FreshIs DEF BornThere, OneOpenTicket, LatestThere
<1>6. OpenIsKnown /\ AtFetched /\ AtGate
  BY <1>1, FreshIs DEF OpenIsKnown, AtFetched, AtGate
<1>7. SeenHeld
  BY <1>1, FreshIs DEF SeenHeld
<1>8. DispatchesCounted
  <2> SUFFICES ASSUME NEW w \in Workflows, NEW h \in 1..MaxHeads
               PROVE  record.dispatched[<<w, h>>] <= Spent(file, <<w, h>>)
    BY <1>1, FreshIs DEF DispatchesCounted
  <2> DEFINE f == IF <<w, h>> \in file.seen THEN MaxRedispatch ELSE file.tried[<<w, h>>]
             base == MaxRedispatch * record.expired
  <2>1. <<w, h>> \in Keys /\ base \in Nat /\ f \in Nat
    BY <1>1, FreshIs, SpentIs
  <2>2. record.dispatched[<<w, h>>] = 0 /\ record.lost = 0
    BY <1>1, <1>2, <2>1
  <2>3. Spent(file, <<w, h>>) = f + base + record.lost
    BY DEF Spent
  <2> HIDE DEF f, base
  <2> QED
    BY <2>1, <2>2, <2>3
<1> QED
  BY <1>4, <1>5, <1>6, <1>7, <1>8 DEF WatchInv

LEMMA WatchStepKeeps == WatchInv /\ [WatchNext]_wvars => WatchInv'
<1> SUFFICES ASSUME WatchInv, [WatchNext]_wvars PROVE WatchInv'
  OBVIOUS
<1>1. CASE UNCHANGED wvars
  <2>1. UNCHANGED <<head, runs, gone, board, file, mon, closer, record>>
    BY <1>1 DEF wvars
  <2>2. head \in 1..MaxHeads /\ gone \subseteq Workflows /\ closer \in 0..Len(board)
    BY DEF WatchInv, WatchTypes
  <2> QED
    BY <2>1, <2>2, SameCards, SameRuns, SameRecord, OutsideKept
<1>2. ASSUME NEW w \in Workflows, ScanStep(w) PROVE WatchInv'
  BY <1>2, NothingToDoKeeps, RedispatchKeeps, NotOursKeeps, NoteOnCanonicalKeeps, FetchLogsKeeps, NoteOrFileKeeps,
     GateKeeps DEF ScanStep
<1> QED
  BY <1>1, <1>2, PushKeeps, RunEndsKeeps, RerunEndsKeeps, DeleteKeeps, BeginPollKeeps, SaveStateKeeps, ScanDiesKeeps,
     CloseKeeps, TicketMovesKeeps, MaybeCloseKeeps, DispatchKeeps DEF WatchNext, Monitor

THEOREM WatchInvariant == WatchSpec => []WatchInv
BY WatchStarts, WatchStepKeeps, PTL DEF WatchSpec

\* The newest of the completed runs the forge lists.
LEMMA MaxIs ==
    ASSUME NEW T \in SUBSET Nat, T # {}, NEW b \in Nat, \A n \in T : n <= b
    PROVE  Max(T) \in T /\ \A n \in T : n <= Max(T)
<1>1. \E x \in T : \A y \in T : x >= y
  <2>1. PICK x \in T : \A y \in T : y <= x
    BY GreatestNumber
  <2>2. \A y \in T : x >= y
    BY <2>1
  <2> QED
    BY <2>2
<1>2. Max(T) \in T /\ \A y \in T : Max(T) >= y
  BY <1>1, Zenon DEF Max
<1>3. \A n \in T : n <= Max(T)
  BY <1>2
<1> QED
  BY <1>2, <1>3

LEMMA CompletedIs ==
    ASSUME WatchInv, NEW w \in Workflows
    PROVE  /\ Len(runs[w]) \in Nat /\ Visible(w) \subseteq 1..Len(runs[w])
           /\ Completed(w) \in SUBSET Nat /\ Completed(w) \subseteq 1..Len(runs[w])
           /\ Completed(w) # {} => Max(Completed(w)) \in Completed(w) /\ \A n \in Completed(w) : n <= Max(Completed(w))
<1>1. Len(runs[w]) \in Nat /\ DOMAIN runs[w] = 1..Len(runs[w])
  <2>1. runs[w] \in Seq(Run)
    BY DEF WatchInv, WatchTypes
  <2> QED
    BY <2>1
<1>2. Visible(w) \subseteq 1..Len(runs[w])
  BY <1>1 DEF Visible
<1>3. Completed(w) \subseteq Visible(w)
  BY DEF Completed
<1>4. Completed(w) \in SUBSET Nat /\ \A n \in Completed(w) : n <= Len(runs[w])
  BY <1>1, <1>2, <1>3
<1> QED
  BY <1>1, <1>2, <1>3, <1>4, MaxIs

\* A decision to close is taken on a success.
LEMMA FixedIsNewest ==
    ASSUME WatchInv, NEW w \in Workflows, NEW sha, NEW born, NEW fix \in BOOLEAN,
           _green_since_failure(w, sha, born, fix)
    PROVE  Completed(w) # {} /\ runs[w][Max(Completed(w))].res = "green"
<1> DEFINE ns == Since(w, sha, born)
           last == Max(Completed(w))
           at == {n \in Completed(w) : runs[w][n].sha = sha}
           greens == {n \in ns : \A m \in ns : m >= n => runs[w][m].res = "green"}
<1>1. greens # {}
  <2>1. Cardinality(greens) > 0
    BY DEF _green_since_failure, Streak
  <2> QED
    BY <2>1, FS_EmptySet
<1>2. PICK n \in ns : \A m \in ns : m >= n => runs[w][m].res = "green"
  BY <1>1
<1>3. ns \subseteq Completed(w)
  BY DEF Since
<1>4. Completed(w) # {}
  BY <1>2, <1>3
<1>5. last \in Completed(w) /\ last \in Nat /\ \A m \in Completed(w) : m <= last
  BY <1>4, CompletedIs
<1>6. last \in ns
  <2>1. CASE at # {}
    <3>1. at \in SUBSET Nat /\ \A m \in at : m <= last
      BY <1>5, CompletedIs
    <3>2. Max(at) \in at
      BY <1>5, <2>1, <3>1, MaxIs
    <3>3. last >= Max(at)
      BY <1>5, <3>1, <3>2
    <3>4. ns = {m \in Completed(w) : m >= Max(at)}
      BY <2>1 DEF Since
    <3> QED
      BY <1>5, <3>3, <3>4
  <2>2. CASE at = {}
    BY <1>2, <1>5, <2>2 DEF Since
  <2> QED
    BY <2>1, <2>2
<1>7. last >= n
  BY <1>2, <1>3, <1>5, CompletedIs
<1> QED
  BY <1>2, <1>4, <1>6, <1>7

LEMMA ClosesFixed ==
    ASSUME WatchInv, WatchNext, closer = 0, closer' # 0
    PROVE  LET c == board[closer']
           IN c.wf \in gone \/ (runs[c.wf][Max(Completed(c.wf))].res = "green" /\ Later(c))
<1>1. PICK t \in DOMAIN board : _maybe_close(t)
  <2>1. ASSUME NEW w \in Workflows, ScanStep(w) PROVE UNCHANGED closer
    BY <2>1 DEF ScanStep, NothingToDo, _maybe_redispatch_cancelled, NotOurs, NoteOnCanonical, FetchLogs, NoteOrFile,
                _apply_stale_ci_gate
  <2> QED
    BY <2>1 DEF WatchNext, Monitor, Push, RunEnds, RerunEnds, DeleteWorkflow, BeginPoll, SaveState, ScanDies, _close,
                TicketMoves, _maybe_dispatch_cron_workflow
<1> DEFINE c == board[t]
           w == c.wf
<1>2. t \in 1..Len(board) /\ w \in Workflows /\ closer' = t
  BY <1>1, CardsAre DEF _maybe_close, WatchInv
<1>3. CASE w \in gone
  BY <1>2, <1>3
<1>4. CASE w \notin gone
  <2>1. Completed(w) # {} /\ runs[w][Max(Completed(w))].res = "green"
    <3>1. _green_since_failure(w, c.sha, c.born, TRUE)
      BY <1>1, <1>4 DEF _maybe_close
    <3> QED
      BY <1>2, <3>1, FixedIsNewest
  <2>2. Max(Completed(w)) \in Completed(w) /\ \A n \in Completed(w) : n <= Max(Completed(w))
    BY <1>2, <2>1, CompletedIs
  <2>3. c.born \in 1..Len(runs[w]) /\ Len(runs[w]) \in Nat /\ DOMAIN runs[w] = 1..Len(runs[w])
    <3>1. runs[w] \in Seq(Run)
      BY <1>2 DEF WatchInv, WatchTypes
    <3> QED
      BY <1>2, <3>1 DEF WatchInv, BornThere
  <2>4. Later(c)
    <3> SUFFICES ASSUME runs[w][c.born].res \in {"red", "green"} PROVE Max(Completed(w)) >= c.born
      BY DEF Later
    <3> DEFINE m == Max(Completed(w))
    <3>1. m \in Nat /\ m + Window > Len(runs[w])
      BY <1>2, <2>2, CompletedIs DEF Completed, Visible
    <3>2. CASE c.born + Window > Len(runs[w])
      <4>1. c.born \in Completed(w)
        BY <2>3, <3>2 DEF Completed, Visible
      <4>2. c.born <= m
        BY <2>2, <4>1
      <4> QED
        BY <2>3, <3>1, <4>2
    <3>3. CASE ~(c.born + Window > Len(runs[w]))
      BY <2>3, <3>1, <3>3, WatchNumbers
    <3> QED
      BY <3>2, <3>3
  <2> QED
    BY <1>2, <2>1, <2>4
<1> QED
  BY <1>3, <1>4

LEMMA WatchSafe == WatchInv => WTypeOK /\ OneOpenTicket /\ SeenIsNoted /\ DispatchesAreBounded
<1> SUFFICES ASSUME WatchInv PROVE WTypeOK /\ OneOpenTicket /\ SeenIsNoted /\ DispatchesAreBounded
  OBVIOUS
<1>1. DOMAIN board = 1..Len(board) /\ Len(board) \in Nat
  BY CardsAre DEF WatchInv
<1>2. \A w \in Workflows : runs[w] \in Seq(Run) /\ Len(runs[w]) <= MaxRuns
  BY DEF WatchInv, WatchTypes
<1>3. mon \in [pc : {"idle", "scan", "fetched", "gate"}, mem : States, snap : SUBSET DOMAIN board,
               latest : [Workflows -> Listed], todo : SUBSET Workflows,
               cur : Workflows \cup {"none"}, id : 0..Len(board)]
  <2>1. mon \in MonRec /\ mon.snap \subseteq 1..Len(board) /\ mon.id <= Len(board)
    BY DEF WatchInv, WatchTypes
  <2>2. mon.id \in 0..Len(board)
    BY <1>1, <2>1 DEF MonRec
  <2> QED
    BY <1>1, <2>1, <2>2 DEF MonRec
<1>4. record \in LogRec /\ record.lost <= record.faults /\ record.expired <= record.faults /\ record.faults <= MaxFaults
  BY DEF WatchInv, WatchTypes, LogTyped
<1>5. /\ record.faults \in Nat /\ record.lost \in Nat /\ record.expired \in Nat
      /\ record.dispatched \in [Keys -> Nat] /\ record.excused \in SUBSET Keys
  BY <1>4 DEF LogRec
<1>6. record \in [faults : 0..MaxFaults, lost : 0..MaxFaults, expired : 0..MaxFaults,
                  dispatched : [Keys -> Nat], excused : SUBSET Keys]
  <2>1. record.faults \in 0..MaxFaults /\ record.lost \in 0..MaxFaults /\ record.expired \in 0..MaxFaults
    BY <1>4, <1>5, WatchNumbers
  <2> QED
    BY <1>4, <1>5, <2>1 DEF LogRec
<1>7. WTypeOK
  BY <1>2, <1>3, <1>6 DEF WTypeOK, WatchInv, WatchTypes
<1>8. SeenIsNoted
  BY DEF WatchInv, SeenHeld, SeenIsNoted
<1>9. DispatchesAreBounded
  <2> SUFFICES ASSUME NEW w \in Workflows, NEW h \in 1..MaxHeads
               PROVE  record.dispatched[<<w, h>>] <= MaxRedispatch * (1 + record.expired) + record.lost
    BY DEF DispatchesAreBounded, Keys
  <2> DEFINE base == MaxRedispatch * record.expired
             f == IF <<w, h>> \in file.seen THEN MaxRedispatch ELSE file.tried[<<w, h>>]
             m == IF <<w, h>> \in mon.mem.seen THEN MaxRedispatch ELSE mon.mem.tried[<<w, h>>]
             d == record.dispatched[<<w, h>>]
  <2>1. file \in States /\ mon.mem \in States
    BY MonIs DEF WatchInv, WatchTypes
  <2>2. base \in Nat /\ f \in Nat /\ f <= MaxRedispatch /\ m \in Nat /\ m <= MaxRedispatch /\ <<w, h>> \in Keys
    BY <1>5, <2>1, SpentIs
  <2>3. d \in Nat
    BY <1>5, <2>2
  <2>4. Spent(file, <<w, h>>) = f + base + record.lost /\ Spent(mon.mem, <<w, h>>) = m + base + record.lost
    BY DEF Spent
  <2>5. d <= Spent(file, <<w, h>>) \/ d <= Spent(mon.mem, <<w, h>>)
    BY DEF WatchInv, DispatchesCounted
  <2>6. MaxRedispatch * (1 + record.expired) = MaxRedispatch + base
    BY <1>5, WatchNumbers
  <2> HIDE DEF base, f, m, d
  <2>7. d <= MaxRedispatch + base + record.lost
    BY <1>5, <2>2, <2>3, <2>4, <2>5, WatchNumbers
  <2> QED
    BY <2>6, <2>7 DEF d
<1> QED
  BY <1>7, <1>8, <1>9 DEF WatchInv

THEOREM CiWatchAlwaysSound == WatchSpec => CiWatchIsSound
<1>1. WatchInv /\ [WatchNext]_wvars =>
        [closer = 0 /\ closer' # 0 =>
           LET c == board[closer']
           IN c.wf \in gone \/ (runs[c.wf][Max(Completed(c.wf))].res = "green" /\ Later(c))]_wvars
  BY ClosesFixed DEF wvars
<1>2. WatchSpec => [][WatchNext]_wvars
  BY PTL DEF WatchSpec
<1> QED
  BY <1>1, <1>2, WatchInvariant, WatchSafe, PTL DEF CiWatchIsSound, ClosesOnlyFixed

=============================================================================
