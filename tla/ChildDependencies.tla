------------------------ MODULE ChildDependencies ------------------------
(***************************************************************************)
(* The dependencies of an epic's children, as plan_child_dependencies of   *)
(* src/robotsix_mill/agents/epic_breakdown.py plans them: a chain, or a    *)
(* star around the child that creates a repository, and for a child that   *)
(* imports from another child's repository a bump ticket in between.       *)
(* The plan is built pair by pair, as _detect_cross_repo_deps does, since  *)
(* the creation of a bump ticket may fail.                                 *)
(***************************************************************************)
EXTENDS Naturals, FiniteSets

CONSTANTS
    NumChildren,    \* children of one breakdown, in the agent's order
    NumRepos        \* the repositories they are filed in

ASSUME ChildAssumption == NumChildren \in Nat \ {0} /\ NumRepos \in Nat \ {0}

Kids == 1..NumChildren
DepRepos == 1..NumRepos
Pairs == {p \in DepRepos \X DepRepos : p[1] # p[2]}

(* The bump ticket of a pair (consumer, producer), and the sibling a later *)
(* breakdown is appended to.                                               *)
Predecessor == 0
Bump(p) == NumChildren + (p[1] - 1) * NumRepos + p[2]
DepNodes == Kids \cup {Predecessor} \cup {Bump(p) : p \in Pairs}

VARIABLES
    repo,     \* the repository of each child
    needs,    \* _parse_prereq_packages: the repositories a child imports from
    init,     \* the index of the init-repo child, 0 if there is none
    after,    \* the batch is appended to an existing sibling
    todo,     \* the pairs still to be given a bump ticket
    bumps,    \* the bump tickets created
    cross,    \* extra_edges
    plan      \* the edges handed to set_depends_on

depvars == <<repo, needs, init, after, todo, bumps, cross, plan>>

NoEdges == [x \in DepNodes |-> {}]

-----------------------------------------------------------------------------
(* _compute_base_edges.                                                    *)
ChainEdges ==
    [x \in DepNodes |-> IF x \notin Kids THEN {}
                     ELSE IF x = 1 THEN IF after THEN {Predecessor} ELSE {}
                     ELSE {x - 1}]

StarEdges ==
    [x \in DepNodes |-> IF x \notin Kids THEN {}
                     ELSE IF x = init THEN IF after THEN {Predecessor} ELSE {}
                     ELSE {init}]

(* Mutant: the init-repo child is only recognised in the first place. *)
BaseEdges_First == IF init = 1 THEN StarEdges ELSE ChainEdges

BaseEdges == IF init # 0 THEN StarEdges ELSE ChainEdges

(* _group_bump_candidates: the pairs with a child that imports from the    *)
(* other's repository, where the producer has a child of its own.          *)
Consumers(p) == {k \in Kids : repo[k] = p[1] /\ p[2] \in needs[k]}
Producers(p) == {k \in Kids : repo[k] = p[2]}

Candidates == {p \in Pairs : Consumers(p) # {} /\ Producers(p) # {}}

(* _create_bump_child: the bump waits for every producer, every consumer   *)
(* for the bump.                                                           *)
(* Mutant: the bump waits for the first producer. *)
BumpEdges_First(p) ==
    [x \in DepNodes |-> IF x = Bump(p) THEN {CHOOSE k \in Producers(p) : \A j \in Producers(p) : k <= j}
                     ELSE IF x \in Consumers(p) THEN {Bump(p)} ELSE {}]

BumpEdges(p) ==
    [x \in DepNodes |-> IF x = Bump(p) THEN Producers(p)
                     ELSE IF x \in Consumers(p) THEN {Bump(p)} ELSE {}]

(* extra_edges.update(edges): an entry of an earlier pair is replaced.     *)
(* Mutant: the edges of the earlier pairs are lost. *)
Updated_Drops(old, new) == new

Updated(old, new) == [x \in DepNodes |-> IF new[x] # {} THEN new[x] ELSE old[x]]

-----------------------------------------------------------------------------
(* The repositories are numbered from the one of the first child.          *)
DepInit ==
    /\ repo \in {f \in [Kids -> DepRepos] : f[1] = 1}
    /\ needs \in {n \in [Kids -> SUBSET DepRepos] : \A k \in Kids : repo[k] \notin n[k]}
    /\ init \in 0..NumChildren
    /\ after \in BOOLEAN
    /\ todo = Candidates
    /\ bumps = {}
    /\ cross = NoEdges
    /\ plan = NoEdges

CreateBump(p) ==
    /\ p \in todo
    /\ todo' = todo \ {p}
    /\ bumps' = bumps \cup {p}
    /\ cross' = Updated(cross, BumpEdges(p))
    /\ UNCHANGED <<repo, needs, init, after, plan>>

(* create_child raises: the pair is skipped.                               *)
BumpFails(p) ==
    /\ p \in todo
    /\ todo' = todo \ {p}
    /\ UNCHANGED <<repo, needs, init, after, bumps, cross, plan>>

(* plan_child_dependencies: edges[cid].extend(deps).                       *)
(* Mutant: the edges of the cross-repository step replace the others. *)
Merged_Replaced == Updated(BaseEdges, cross)

Merged == [x \in DepNodes |-> BaseEdges[x] \cup cross[x]]

Planned ==
    /\ todo = {} /\ plan = NoEdges /\ plan # Merged
    /\ plan' = Merged
    /\ UNCHANGED <<repo, needs, init, after, todo, bumps, cross>>

DepNext == (\E p \in Pairs : CreateBump(p) \/ BumpFails(p)) \/ Planned

-----------------------------------------------------------------------------
(* The nodes x waits for, directly or not: the least set that has what x   *)
(* waits for and is closed under the edges.                                *)
PlanNodes == Kids \cup {Predecessor} \cup {Bump(p) : p \in bumps}

ClosedUnder(S) == \A y \in S : plan[y] \subseteq S

ChildWaitsFor(x) ==
    LET closed == {S \in SUBSET PlanNodes : plan[x] \subseteq S /\ ClosedUnder(S)}
    IN  {z \in PlanNodes : \A S \in closed : z \in S}

IsPlanned == todo = {} /\ plan = Merged

DepSpec == DepInit /\ [][DepNext]_depvars

(* Every other child waits until the repository has been created, whatever *)
(* the bump tickets add.                                                   *)
PopulatorsWaitForInit ==
    (IsPlanned /\ init # 0) => \A k \in Kids \ {init} : init \in ChildWaitsFor(k)

(* A bump waits for everything its producer's repository gets in this      *)
(* epic, and is itself waited for by a child.                              *)
BumpsAreInBetween ==
    IsPlanned => \A p \in bumps :
        /\ Producers(p) \subseteq ChildWaitsFor(Bump(p))
        /\ \E k \in Kids : k \in Consumers(p)

(* When no child imports from a repository whose children come after it,   *)
(* the plan has no cycle, and with one producer per child each consumer    *)
(* waits for its bump and through it for every producer.                   *)
InOrder == \A k, j \in Kids : repo[j] \in needs[k] => j < k
OneProducer == \A k \in Kids : Cardinality({p \in Candidates : k \in Consumers(p)}) <= 1

OrderlyPlanWorks ==
    (IsPlanned /\ InOrder /\ init = 0) =>
        /\ \A x \in DepNodes : x \notin ChildWaitsFor(x)
        /\ OneProducer => \A p \in bumps : \A k \in Consumers(p) :
               {Bump(p)} \cup Producers(p) \subseteq ChildWaitsFor(k)

(* The edges written for an epic's children are sound: populators wait for *)
(* the child that creates the repository, a bump stands between producers  *)
(* and consumers, and an orderly plan has no cycle.                        *)
PlanIsSound == PopulatorsWaitForInit /\ BumpsAreInBetween /\ OrderlyPlanWorks

(* The docstring's promise: a consumer stays blocked until the pin of      *)
(* every repository it imports from is bumped.                             *)
ConsumerWaitsForBumps ==
    IsPlanned => \A p \in bumps : \A k \in Consumers(p) : Bump(p) \in ChildWaitsFor(k)

(* No child waits for itself: everything can run at last.                  *)
PlanIsAcyclic == IsPlanned => \A x \in DepNodes : x \notin ChildWaitsFor(x)
=============================================================================
