------------------------------ MODULE MCCiFix ------------------------------
(***************************************************************************)
(* What is done about a red CI: parts that share no state, one run.        *)
(*   "fix"    the ci_fix stage with two sets of failing checks;            *)
(*   "file"   the monitor files what fails on the target branch, with a    *)
(*            fault; "cancel" the same where runs are cancelled or cannot  *)
(*            start;                                                       *)
(*   "close"  tickets are closed when a scheduled workflow works again.    *)
(* The parts not chosen keep their initial state.                          *)
(***************************************************************************)
EXTENDS CiFix, CiWatch

VARIABLE part

File == INSTANCE CiWatch WITH Results <- {"red"}, CronOnly <- {}, MaxRuns <- 2
Cancel == INSTANCE CiWatch WITH Results <- {"startup", "cancelled"}, CronOnly <- {}, MaxRuns <- 1
Close == INSTANCE CiWatch WITH Results <- {"red", "green"}, MaxFaults <- 0, MaxDeferrals <- 0, MaxTickets <- 1, MaxRuns <- 2

Parts == {"fix", "file", "cancel", "close"}

MCInit ==
  /\ part \in Parts /\ FInit
  /\ IF part = "file" THEN File!WInit ELSE IF part = "cancel" THEN Cancel!WInit ELSE Close!WInit

MCNext ==
  \/ part = "fix" /\ FNext /\ UNCHANGED <<part, wvars>>
  \/ part = "file" /\ File!WatchNext /\ UNCHANGED <<part, fvars>>
  \/ part = "cancel" /\ Cancel!WatchNext /\ UNCHANGED <<part, fvars>>
  \/ part = "close" /\ Close!WatchNext /\ UNCHANGED <<part, fvars>>

\* The fairness of FSpec and of WatchSpec: part never changes.
Progress ==
  \/ part = "fix" /\ FStage /\ UNCHANGED <<part, wvars>>
  \/ part = "file" /\ File!Monitor /\ UNCHANGED <<part, fvars>>
  \/ part = "cancel" /\ Cancel!Monitor /\ UNCHANGED <<part, fvars>>
  \/ part = "close" /\ Close!Monitor /\ UNCHANGED <<part, fvars>>

MCSpec == MCInit /\ [][MCNext]_<<part, fvars, wvars>> /\ WF_<<part, fvars, wvars>>(Progress)

\* Where the stage runs, a ticket leaves FIXING_CI in the end (FixEnds); where
\* the monitor does, a workflow that stays red is noted in the end (RedIsNoted).
FixingEnds == (part = "fix" => FixEnds) /\ RedIsNoted

=============================================================================
