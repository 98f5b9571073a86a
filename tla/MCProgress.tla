----------------------------- MODULE MCProgress -----------------------------
(***************************************************************************)
(* What must happen in the end, in six small systems of one run.           *)
(* part = "escalate" is the escalation pass with one ticket, "unblock" a   *)
(* solver t1 whose completion unblocks t2, "cap" a worker with one         *)
(* consumer whose in-flight cap is taken by a ticket in the merge lane,    *)
(* "gate" three tasks at a gate with one slot, "pool" three calls of a     *)
(* sandbox with one slot, of which one can be abandoned and one outranks   *)
(* the others, "recovery" the passes that bring a blocked ticket back.     *)
(* The parts not chosen keep an initial state.                             *)
(***************************************************************************)
EXTENDS BlockedRecovery

CONSTANTS t1, t2, c1, c2, c3

VARIABLES part, tk, pending, aged, candidates, escalating, heard, tk2, pending2,
          st, prio, queue, dedupe, in_flight, cap_deferred, draining, con, api,
          value, pc, rank, priv, heap, arrived,
          spc, waiters, inUse, expired, abandoned, attempt, box, orphans, booted, pruning

One == {t1}
SolverOfT2 == [t \in {t1, t2} |-> IF t = t1 THEN {t2} ELSE {}]

Escalation ==
  INSTANCE TimeoutEscalation WITH
    Unblocks <- [t \in One |-> {}], Requests <- {"awaiting_user_reply", "ready"},
    InitialStates <- {"draft"}, Reasons <- {FALSE}, MaxThreads <- 2, MaxAttempt <- 0, MaxPending <- 1

Pair ==
  INSTANCE TicketService WITH
    Tickets <- {t1, t2}, Unblocks <- SolverOfT2, Requests <- {"blocked", "done"},
    InitialStates <- {"draft"}, Reasons <- {FALSE}, MaxThreads <- 0, MaxAttempt <- 0,
    MaxPending <- 4, tk <- tk2, pending <- pending2

Board ==
  INSTANCE WorkerQueue WITH
    Tickets <- {t1, t2}, Consumers <- {c1}, Threads <- {}, Slots <- 1, MaxInflight <- 1,
    Play <- {"ready", "implement_complete"}, MaxCopies <- 2, DbFails <- FALSE, CanDrain <- FALSE

Gate ==
  INSTANCE PriorityGate WITH Callers <- {c1, c2, c3}, Value <- 1, ReservedArg <- 1, Ranks <- {0, 1}

Sandboxes ==
  INSTANCE Sandbox WITH
    Users <- {c1, c2, c3}, SlotCap <- 1, RankOf <- [c \in {c1, c2, c3} |-> IF c = c3 THEN 0 ELSE 1],
    Polled <- {c1}, OpTimeout <- 1, CommandTimeout <- 1, MaxAttempts <- 1,
    ReapFloor <- 2, MaxAge <- 3

tvars == <<tk, pending, aged, candidates, escalating, heard>>
pairVars == <<tk2, pending2>>
boardVars == <<st, prio, queue, dedupe, in_flight, cap_deferred, draining, con, api>>
gateVars == <<value, pc, rank, priv, heap, arrived>>
poolVars == <<spc, waiters, inUse, expired, abandoned, attempt, box, orphans, booted, pruning>>

MCInit ==
  /\ part \in {"escalate", "unblock", "cap", "gate", "pool", "recovery"}
  /\ Escalation!TInit /\ Pair!Init /\ Board!WInit /\ Gate!Init /\ Sandboxes!SInit /\ BInit
  /\ part # "cap" => \A t \in {t1, t2} : st[t] = "ready" /\ ~prio[t]

MCNext ==
  \/ part = "escalate" /\ Escalation!TNext /\ UNCHANGED <<part, pairVars, boardVars, gateVars, poolVars, bvars>>
  \/ part = "unblock" /\ Pair!Step /\ UNCHANGED <<part, tvars, boardVars, gateVars, poolVars, bvars>>
  \/ part = "cap" /\ Board!WNextUp /\ UNCHANGED <<part, tvars, pairVars, gateVars, poolVars, bvars>>
  \/ part = "gate" /\ Gate!Next /\ UNCHANGED <<part, tvars, pairVars, boardVars, poolVars, bvars>>
  \/ part = "pool" /\ Sandboxes!SNext /\ UNCHANGED <<part, tvars, pairVars, boardVars, gateVars, bvars>>
  \/ part = "recovery" /\ RecoveryNext /\ UNCHANGED <<part, tvars, pairVars, boardVars, gateVars, poolVars>>

\* The fairness of TFairSpec, of TicketService's FairSpec, of WFairSpec, of
\* PriorityGate's Fairness, of SSpec and of RecoverySpec, or as much of it as is needed: of the
\* continuations only those that move t2.
MCFairness ==
  /\ WF_tvars(part = "escalate" /\ Escalation!Pass)
  /\ \A c \in [op : {"unblock", "transition"}, t : {t2}, dst : {"none", "draft", "ready", "done"}] :
       WF_pairVars(part = "unblock" /\ c \in pending2 /\ Pair!Continue(c))
  /\ WF_boardVars(part = "cap" /\ Board!ConsumerGoesOn(c1))
  /\ \A t \in {t1, t2} : SF_boardVars(part = "cap" /\ Board!Sweep(t))
  /\ \A c \in {c1, c2, c3} :
       /\ WF_gateVars(part = "gate" /\ Gate!Release(c))
       /\ WF_gateVars(part = "gate" /\ Gate!Resume(c))
       /\ WF_gateVars(part = "gate" /\ Gate!AbandonWait(c))
       /\ WF_gateVars(part = "gate" /\ Gate!PassOn(c))
       /\ WF_poolVars(part = "pool" /\ Sandboxes!LooksAgain(c))
       /\ WF_poolVars(part = "pool" /\ Sandboxes!Poll(c))
  /\ WF_bvars(part = "recovery" /\ Recheck)
  /\ WF_bvars(part = "recovery" /\ Upstream)
  /\ WF_bvars(part = "recovery" /\ Account)
  /\ WF_bvars(part = "recovery" /\ AutoResume)
  /\ WF_bvars(part = "recovery" /\ Cools(t1))

MCSpec == MCInit /\ [][MCNext]_<<part, tvars, pairVars, boardVars, gateVars, poolVars, bvars>> /\ MCFairness

\* Silence on a question is escalated in the end.
SilenceIsEscalated == Escalation!SilenceIsEscalated

\* A blocked ticket comes back: once a completion has fired, the target leaves
\* BLOCKED, whatever happens between _fire_unblocks' look-up and its transition;
\* and once CI passes, what was parked on it is resumed by the pass that owns
\* its reason.
BlockedComesBack == Pair!UnblockFires /\ DebtIsLifted /\ ParkedComesBack

\* The merge lane that holds the only slot is reached although a priority
\* ticket over the cap keeps coming back to the head of the queue.
CapDoesNotStall == Board!CapDoesNotStall

\* A privileged waiter of the best rank is served however the others come and go.
TopRankServed == Gate!TopRankServed

\* The sandbox's slots are the abstract pool: no barging, and a free slot is taken.
IsSlotPool == Sandboxes!IsSlotPool

\* A waiter whose run was abandoned leaves the queue of the sandbox's slots.
AbandonedLeaves == Sandboxes!AbandonedLeaves

=============================================================================
