---------------------------- MODULE CycleSearch ----------------------------
(***************************************************************************)
(* Kosaraju's search of agents/runners/blocked_auto_resume_runner.py for   *)
(* the tickets that wait for each other: a depth-first pass that records   *)
(* the order in which visits end, then a sweep of the transposed graph in  *)
(* the opposite order.  The neighbours of a node are a Python set, so the  *)
(* order they are taken in is open.                                        *)
(***************************************************************************)
EXTENDS Naturals, Sequences, FiniteSets

CONSTANT Nodes   \* the blocked tickets

ASSUME CycleSearchConstants == IsFiniteSet(Nodes)

VARIABLES
  graph,     \* who waits for whom
  seen,      \* visited by the first pass
  stack,     \* the first pass's stack of [node, rest], rest = neighbours not tried yet
  order,     \* nodes whose visit ended, in that order
  swept,     \* nodes of order the second pass has taken, from its end
  frontier,  \* the second pass's stack, as a set
  comps      \* the components found, the one being collected last

kvars == <<graph, seen, stack, order, swept, frontier, comps>>

KTypeOK ==
  /\ graph \in [Nodes -> SUBSET Nodes]
  /\ seen \subseteq Nodes /\ frontier \subseteq Nodes
  /\ stack \in Seq([node : Nodes, rest : SUBSET Nodes])
  /\ order \in Seq(Nodes) /\ swept \in 0..Cardinality(Nodes)
  /\ comps \in Seq(SUBSET Nodes)

KInit ==
  /\ graph \in [Nodes -> SUBSET Nodes]
  /\ seen = {} /\ stack = <<>> /\ order = <<>>
  /\ swept = 0 /\ frontier = {} /\ comps = <<>>

Frame(n) == [node |-> n, rest |-> graph[n]]
Pushes(s, n) == seen' = seen \cup {n} /\ stack' = Append(s, Frame(n))

\* _dfs_finish_order: the next node no visit has reached.
StartVisit ==
  /\ stack = <<>>
  /\ \E n \in Nodes \ seen : Pushes(stack, n)
  /\ UNCHANGED <<graph, order, swept, frontier, comps>>

top == stack[Len(stack)]

\* Its inner loop: the next neighbour, entered if it is new.
NextNeighbour ==
  /\ stack # <<>>
  /\ \E n \in top.rest :
       LET s == [stack EXCEPT ![Len(stack)].rest = @ \ {n}]
       IN IF n \in seen THEN stack' = s /\ UNCHANGED seen ELSE Pushes(s, n)
  /\ UNCHANGED <<graph, order, swept, frontier, comps>>

\* No neighbour is left: the visit ends.
EndVisit ==
  /\ stack # <<>> /\ top.rest = {}
  /\ order' = Append(order, top.node)
  /\ stack' = SubSeq(stack, 1, Len(stack) - 1)
  /\ UNCHANGED <<graph, seen, swept, frontier, comps>>

assigned == UNION {comps[k] : k \in 1..Len(comps)}

\* Mutant: the second sweep follows the order of the first.
StartComponent_Forward ==
  /\ Len(order) = Cardinality(Nodes) /\ frontier = {} /\ swept < Len(order)
  /\ LET n == order[swept + 1]
     IN IF n \in assigned THEN UNCHANGED <<frontier, comps>>
        ELSE frontier' = {n} /\ comps' = Append(comps, {n})
  /\ swept' = swept + 1
  /\ UNCHANGED <<graph, seen, stack, order>>

\* _strongly_connected_components: over the reversed order.
StartComponent ==
  /\ Len(order) = Cardinality(Nodes) /\ frontier = {} /\ swept < Len(order)
  /\ LET n == order[Len(order) - swept]
     IN IF n \in assigned THEN UNCHANGED <<frontier, comps>>
        ELSE frontier' = {n} /\ comps' = Append(comps, {n})
  /\ swept' = swept + 1
  /\ UNCHANGED <<graph, seen, stack, order>>

\* _transpose: who waits for n.
transposed(n) == {m \in Nodes : n \in graph[m]}

\* _collect_component: one node is popped, its unassigned neighbours join.
Collect ==
  /\ \E n \in frontier :
       LET new == transposed(n) \ assigned
       IN /\ frontier' = (frontier \ {n}) \cup new
          /\ comps' = [comps EXCEPT ![Len(comps)] = @ \cup new]
  /\ UNCHANGED <<graph, seen, stack, order, swept>>

KNext == StartVisit \/ NextNeighbour \/ EndVisit \/ StartComponent \/ Collect

KSpec == KInit /\ [][KNext]_kvars /\ WF_kvars(KNext)

-----------------------------------------------------------------------------
(* Properties. *)

\* By a path of any length: in every set that holds m and is closed.
Reaches(g, m, n) ==
  \A C \in SUBSET Nodes :
    (m \in C /\ \A x \in C : g[x] \subseteq C) => n \in C

MutuallyWaiting(g, n) == {m \in Nodes : Reaches(g, m, n) /\ Reaches(g, n, m)}

(* Whatever the order the sets are walked in, each component found is      *)
(* exactly a set of tickets that all wait for each other: no deadlock is   *)
(* missed, and no ticket outside one is kept from being resumed.           *)
ComponentsAreExact ==
  \A k \in 1..Len(comps) :
    \/ k = Len(comps) /\ frontier # {}
    \/ comps[k] # {} /\ \A n \in comps[k] : comps[k] = MutuallyWaiting(graph, n)

(* The search ends with every ticket in some component.                    *)
SearchEnds == <>(assigned = Nodes /\ frontier = {})

=============================================================================
