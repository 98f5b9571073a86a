------------------------------ MODULE MCTickets -----------------------------
(***************************************************************************)
(* Tickets that depend on, block or split into one another, in  *)
(* one run of four parts that share no state.                              *)
(*   "fix"    a ticket parked on up to two fix tickets;                    *)
(*   "cycle"  the cycle search over every graph of three blocked tickets;  *)
(*   "plan"   the dependencies of three children over three repositories;  *)
(*   "epic"   an epic, its breakdown, one re-evaluation thread, the sweep; *)
(* The parts not chosen keep an initial state.                             *)
(***************************************************************************)
EXTENDS DependencyFix, CycleSearch, ChildDependencies, Epics, TLC

VARIABLE part

MCInit ==
  /\ part \in {"fix", "cycle", "plan", "epic"}
  /\ IF part = "fix" THEN DInit ELSE DInit /\ limit = 1
  /\ IF part = "cycle" THEN KInit ELSE KInit /\ graph = [n \in Nodes |-> {}]
  /\ IF part = "plan" THEN DepInit
     ELSE /\ DepInit
          /\ needs = [k \in Kids |-> {}] /\ repo = [k \in Kids |-> 1]
          /\ init = 0 /\ ~after
  /\ EInit

MCNext ==
  \/ part = "fix" /\ DNext /\ UNCHANGED <<part, kvars, depvars, evars>>
  \/ part = "cycle" /\ KNext /\ UNCHANGED <<part, dvars, depvars, evars>>
  \/ part = "plan" /\ DepNext /\ UNCHANGED <<part, dvars, kvars, evars>>
  \/ part = "epic" /\ ENext /\ UNCHANGED <<part, dvars, kvars, depvars>>

MCSpec == MCInit /\ [][MCNext]_<<part, dvars, kvars, depvars, evars>>

Symmetry == Permutations(Tickets) \cup Permutations(Fixes)

=============================================================================
