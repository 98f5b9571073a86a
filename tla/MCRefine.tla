------------------------------ MODULE MCRefine ------------------------------
(***************************************************************************)
(* The two stages that judge, in one run of two parts that share no state: *)
(* "refine" with two passes, one edit of the draft, one fault, one         *)
(* reviewer thread and tickets that between them meet every gate, and      *)
(* "review" with two diffs, of which one touches a file out of scope and   *)
(* has a bad pin, and two asks.  The part not chosen keeps its state.      *)
(***************************************************************************)
EXTENDS Refine, Review

VARIABLE part

MCProfiles ==
  {[source |-> "user", branch |-> "none", child |-> FALSE],
   [source |-> "audit", branch |-> "unmerged", child |-> FALSE],
   [source |-> "ci", branch |-> "merged", child |-> TRUE]}

MCAskFiles == [a \in Asks |-> IF a = "in" THEN {"f"} ELSE {"g"}]
MCTouched == [d \in Diffs |-> IF d = "d1" THEN {"f"} ELSE {"f", "g"}]

MCInit ==
  /\ part \in {"refine", "review"}
  /\ RInit /\ VInit
  /\ part = "refine" => tip = "d1"
  /\ part = "review" => doc = "empty" /\ card.source = "user" /\ ~card.unmet

MCNext ==
  \/ part = "refine" /\ RNext /\ UNCHANGED <<part, vvars>>
  \/ part = "review" /\ VNext /\ UNCHANGED <<part, rvars>>

\* The fairness of RSpec and of VSpec.
MCFairness ==
  /\ WF_rvars(part = "refine" /\ RStage)
  /\ WF_vvars(part = "review" /\ VStage)
  /\ WF_vvars(part = "review" /\ ImplementAgain)

MCSpec == MCInit /\ [][MCNext]_<<part, rvars, vvars>> /\ MCFairness

\* A draft whose dependencies are met is decided, whatever crashes, cached
\* outcomes and migrations come in between (DraftIsDecided of Refine).
DraftsAreDecided == part = "refine" => DraftIsDecided

\* Left alone, a ticket leaves the loop of review and implement (LoopEnds of
\* Review).
ReviewLoopEnds == part = "review" => LoopEnds

=============================================================================
