---------------------------- MODULE MCImplement ----------------------------
(***************************************************************************)
(* The implement stage in one run of two parts that share no state: "runs" *)
(* is the budget kept across the runs of the stage, with two specs and two *)
(* summaries, "loop" the fix loop inside a run, with two files out of      *)
(* scope.  The part not chosen keeps its initial state.                    *)
(***************************************************************************)
EXTENDS ImplementBudget, ImplementLoop, TLC

VARIABLE part

MCInit == part \in {"runs", "loop"} /\ BInit /\ LInit

MCNext ==
  \/ part = "runs" /\ BNext /\ UNCHANGED <<part, lvars>>
  \/ part = "loop" /\ LNext /\ UNCHANGED <<part, bvars>>

MCSpec == MCInit /\ [][MCNext]_<<part, bvars, lvars>>

Symmetry ==
  Permutations(Specs) \cup Permutations(Summaries) \cup Permutations(Tickets)
  \cup Permutations(OutFiles)

=============================================================================
