---------------------------- MODULE SlotPool ----------------------------
(***************************************************************************)
(* What a sandbox slot pool promises its callers: at most SlotCap of them  *)
(* hold a slot, a free slot goes to the waiter of the best rank and, among *)
(* equals, to the one that came first, and it does not stay free while     *)
(* somebody waits.  Locks, condition variables, timeouts and the counter   *)
(* are the business of the implementation (module Sandbox).                *)
(***************************************************************************)
EXTENDS Naturals, Sequences, FiniteSets

CONSTANTS Callers, SlotCap, RankOf

VARIABLES
    pqueue,     \* the waiting callers, in order of arrival
    pholders    \* the callers that hold a slot

pvars == <<pqueue, pholders>>

(* i is the index of the waiter to serve next: the least rank, then the    *)
(* earliest arrival.                                                       *)
BestAt(q, i) ==
    /\ i \in DOMAIN q
    /\ \A j \in DOMAIN q \ {i} :
           \/ RankOf[q[i]] < RankOf[q[j]]
           \/ RankOf[q[i]] = RankOf[q[j]] /\ i < j

IsBest(c, q) == \E i \in DOMAIN q : q[i] = c /\ BestAt(q, i)

(* The queue once the entry of c, at index k, is gone.                     *)
Without(q, c) ==
    LET k == CHOOSE i \in DOMAIN q : q[i] = c
    IN  [i \in 1..(Len(q) - 1) |-> IF i < k THEN q[i] ELSE q[i + 1]]

Waits(c) == \E i \in DOMAIN pqueue : pqueue[i] = c

Room == Cardinality(pholders) < SlotCap

PInit == pqueue = <<>> /\ pholders = {}

PArrive(c) ==
    /\ ~Waits(c) /\ c \notin pholders
    /\ IF Room /\ IsBest(c, Append(pqueue, c))
         THEN pholders' = pholders \cup {c} /\ UNCHANGED pqueue
         ELSE pqueue' = Append(pqueue, c) /\ UNCHANGED pholders

PGrant(c) ==
    /\ Room /\ IsBest(c, pqueue)
    /\ pqueue' = Without(pqueue, c)
    /\ pholders' = pholders \cup {c}

PLeave(c) ==
    /\ Waits(c)
    /\ pqueue' = Without(pqueue, c)
    /\ UNCHANGED pholders

PFree(c) ==
    /\ c \in pholders
    /\ pholders' = pholders \ {c}
    /\ UNCHANGED pqueue

PRestart == pqueue' = <<>> /\ pholders' = {}

PNext ==
    \/ \E c \in Callers : PArrive(c) \/ PGrant(c) \/ PLeave(c) \/ PFree(c)
    \/ PRestart

(* What never happens, without the promise that a free slot is given out.   *)
PSafe == PInit /\ [][PNext]_pvars

PSpec == PSafe /\ WF_pvars(\E c \in Callers : PGrant(c))
=============================================================================
