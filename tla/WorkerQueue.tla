---------------------------- MODULE WorkerQueue ----------------------------
(***************************************************************************)
(* The worker's queue of one board and its pool of consumers               *)
(* (runtime/worker/core.py): enqueue and its dedupe set _pending, the      *)
(* pop-time checks that put an entry back, the claim that keeps two        *)
(* consumers off one ticket, and the merge lane.                           *)
(*                                                                         *)
(* The consumers and the reconcile sweep run on the event loop.  A         *)
(* consumer keeps the loop from its pop to its first real await (a sleep,  *)
(* the gate, the run), and from the end of one entry to the pop of the     *)
(* next when there is one: get() of a queue that is not empty does not     *)
(* suspend.  The API routes and the stages run in threads: they go on in  *)
(* between, and an enqueue() of theirs may itself be overtaken between its *)
(* test of _pending and its put.                                           *)
(*                                                                         *)
(* The global gate is PriorityGate; here it is only its number of slots.   *)
(* What a run does to the ticket is Processing; here a run moves the       *)
(* ticket along TRANSITIONS.  Dependencies, retries in backoff and the     *)
(* stuck-cycle counters are left out.                                      *)
(***************************************************************************)
EXTENDS TicketStates, Integers, FiniteSets, SequencesExt

CONSTANTS
  Tickets,      \* the tickets of the board
  Consumers,    \* its consumer tasks (max_concurrency)
  Threads,      \* API threads that may be inside enqueue()
  Slots,        \* max_global_concurrency
  MaxInflight,  \* max_inflight_prs; 0 is no cap
  Play,         \* bound: the states tickets are in
  MaxCopies,    \* bound: entries of one ticket in the queue when one more is put
  DbFails,      \* whether the look-up inside enqueue() may raise
  CanDrain      \* whether the caretaker uses drain mode

ASSUME WorkerConstants ==
  /\ Play \subseteq State
  /\ Slots \in Nat \ {0}
  /\ MaxInflight \in Nat
  /\ MaxCopies \in Nat \ {0}
  /\ DbFails \in BOOLEAN
  /\ CanDrain \in BOOLEAN

VARIABLES
  st,           \* the state column of each ticket
  prio,         \* its priority flag
  queue,        \* the entries, in the order of their seq
  dedupe,       \* _pending
  in_flight,    \* _in_flight: the claimed tickets
  cap_deferred, \* _cap_deferred
  draining,     \* drain mode is armed
  con,          \* the consumers
  api           \* where each API thread is, and for which ticket

wvars == <<st, prio, queue, dedupe, in_flight, cap_deferred, draining, con, api>>

MergeLane == {"implement_complete", "human_mr_approval", "waiting_auto_merge"}

InFlightPR ==
  {"deliverable", "implement_complete", "waiting_auto_merge", "rebasing",
   "fixing_ci", "addressing_review"}

CapGated == {"ready", "draft"}

Heavy == {"implement", "ci_fix", "refine"}

\* _STAGE_RANK: later stages first.
StageRank(s) ==
  CASE s \in {"classifying", "done"} -> 0
    [] s = "deliverable" -> 1
    [] s = "documenting" -> 2
    [] s = "code_review" -> 3
    [] s = "addressing_review" -> 4
    [] s = "fixing_ci" -> 5
    [] s = "rebasing" -> 6
    [] s = "human_mr_approval" -> 7
    [] s = "waiting_auto_merge" -> 8
    [] s = "implement_complete" -> 9
    [] s = "ready" -> 11
    [] s = "draft" -> 12
    [] s = "asked" -> 13
    [] OTHER -> 99

PrioRank(t) == IF prio[t] THEN 0 ELSE 1

Ranked(t) == [prio |-> PrioRank(t), stage |-> StageRank(st[t]), t |-> t]

Before(e, f) == e.prio < f.prio \/ (e.prio = f.prio /\ e.stage < f.stage)

\* The index of the entry PriorityQueue.get returns: the best rank, then the
\* lowest seq.
HeadOf(q) ==
  {i \in DOMAIN q : \A j \in DOMAIN q : IF j < i THEN Before(q[i], q[j]) ELSE ~Before(q[j], q[i])}

NoEntry == [prio |-> 1, stage |-> 99, t |-> None]

\* Waiting in queue.get().
Free == [pc |-> "free", e |-> NoEntry, at |-> None, pr |-> 1]

Idle == [pc |-> "idle", t |-> None]

WInit ==
  /\ st \in [Tickets -> Play \intersect {"draft", "ready", "implement_complete"}]
  /\ prio \in [Tickets -> BOOLEAN]
  /\ queue = <<>>
  /\ dedupe = {}
  /\ in_flight = {}
  /\ cap_deferred = {}
  /\ draining = FALSE
  /\ con = [c \in Consumers |-> Free]
  /\ api = [h \in Threads |-> Idle]

-----------------------------------------------------------------------------
(* Enqueue. *)

Active(t) == st[t] \in ActiveStates

Room(t) == Cardinality({i \in DOMAIN queue : queue[i].t = t}) < MaxCopies

\* No consumer keeps the event loop.
LoopFree == \A c \in Consumers : con[c].pc \notin {"next", "popped", "swapped"}

\* enqueue() from the event loop, in full; d is the _pending it finds.
EnqueueTo(t, d) ==
  IF t \in d THEN dedupe' = d /\ UNCHANGED queue
  ELSE queue' = Append(queue, Ranked(t)) /\ dedupe' = d \union {t}

\* The reconcile sweep, and requeue_unfinished after a restart.
Sweep(t) ==
  /\ LoopFree
  /\ Active(t)
  /\ Room(t)
  /\ EnqueueTo(t, dedupe)
  /\ UNCHANGED <<st, prio, in_flight, cap_deferred, draining, con, api>>

\* The look-up of the ticket raises after the id went into _pending.
SweepFails(t) ==
  /\ DbFails
  /\ LoopFree
  /\ Active(t)
  /\ t \notin dedupe
  /\ dedupe' = dedupe \union {t}
  /\ UNCHANGED <<st, prio, queue, in_flight, cap_deferred, draining, con, api>>

\* A route calls maybe_enqueue from its thread: the test of _pending...
ApiTest(h, t) ==
  /\ api[h] = Idle
  /\ Active(t)
  /\ Room(t)
  /\ t \notin dedupe
  /\ api' = [api EXCEPT ![h] = [pc |-> "tested", t |-> t]]
  /\ UNCHANGED <<st, prio, queue, dedupe, in_flight, cap_deferred, draining, con>>

\* ... then the add and the put.
ApiPut(h) ==
  /\ api[h].pc = "tested"
  /\ queue' = Append(queue, Ranked(api[h].t))
  /\ dedupe' = dedupe \union {api[h].t}
  /\ api' = [api EXCEPT ![h] = Idle]
  /\ UNCHANGED <<st, prio, in_flight, cap_deferred, draining, con>>

\* POST /tickets/{id}/priority: the write of the flag...
SetPriority(h, t) ==
  /\ api[h] = Idle
  /\ Room(t)
  /\ prio' = [prio EXCEPT ![t] = ~@]
  /\ api' = [api EXCEPT ![h] = [pc |-> "flipped", t |-> t]]
  /\ UNCHANGED <<st, queue, dedupe, in_flight, cap_deferred, draining, con>>

\* ... then requeue_with_current_priority, if the state has a stage.
ForceRequeue(h) ==
  /\ api[h].pc = "flipped"
  /\ IF Active(api[h].t)
     THEN /\ dedupe' = dedupe \ {api[h].t}
          /\ cap_deferred' = cap_deferred \ {api[h].t}
          /\ api' = [api EXCEPT ![h] = [pc |-> "tested", t |-> api[h].t]]
     ELSE /\ api' = [api EXCEPT ![h] = Idle]
          /\ UNCHANGED <<dedupe, cap_deferred>>
  /\ UNCHANGED <<st, prio, queue, in_flight, draining, con>>

\* Anyone else moves the ticket.
Moves(t) ==
  /\ st' \in {[st EXCEPT ![t] = s] : s \in TRANSITIONS[st[t]] \intersect Play}
  /\ UNCHANGED <<prio, queue, dedupe, in_flight, cap_deferred, draining, con, api>>

\* set_drain, clear_drain and the expiry of its TTL.
Drain ==
  /\ CanDrain
  /\ draining' = ~draining
  /\ UNCHANGED <<st, prio, queue, dedupe, in_flight, cap_deferred, con, api>>

-----------------------------------------------------------------------------
(* A consumer. *)

Set(c, r) == con' = [con EXCEPT ![c] = r]

\* Past the finally block: on to the next entry.
Continue(c) == Set(c, [pc |-> "next", e |-> NoEntry, at |-> None, pr |-> 1])

\* From its claim on, a run no longer needs the ranks of the entry.
Hold(c, pc) ==
  Set(c, [pc |-> pc, e |-> [prio |-> 1, stage |-> 99, t |-> con[c].e.t], at |-> con[c].at, pr |-> 1])

Popped(e, pc) == [pc |-> pc, e |-> e, at |-> st[e.t], pr |-> PrioRank(e.t)]

\* await queue.get(), and the read of the ticket.
Pop(c) ==
  /\ con[c].pc = "next" \/ (con[c].pc = "free" /\ LoopFree)
  /\ \E i \in HeadOf(queue) :
       /\ Set(c, Popped(queue[i], "popped"))
       /\ queue' = RemoveAt(queue, i)
  /\ UNCHANGED <<st, prio, dedupe, in_flight, cap_deferred, draining, api>>

\* await queue.get() on an empty queue.
Wait(c) ==
  /\ con[c].pc = "next"
  /\ queue = <<>>
  /\ Set(c, Free)
  /\ UNCHANGED <<st, prio, queue, dedupe, in_flight, cap_deferred, draining, api>>

\* Rank of the ticket as it was read.
ReadRank(c) == [prio |-> con[c].pr, stage |-> StageRank(con[c].at), t |-> con[c].e.t]

IsStale(c) == con[c].e.t \notin cap_deferred /\ con[c].e # ReadRank(c)

\* The entry is put back at its current rank; the finally block then takes
\* the id out of _pending.
PutBackStale(c) ==
  /\ con[c].pc = "popped"
  /\ IsStale(c)
  /\ queue' = Append(queue, Ranked(con[c].e.t))
  /\ dedupe' = dedupe \ {con[c].e.t}
  /\ Continue(c)
  /\ UNCHANGED <<st, prio, in_flight, cap_deferred, draining, api>>

CurrentRank(c) == IF con[c].e.t \in cap_deferred THEN con[c].e ELSE ReadRank(c)

\* Better entries that have arrived since the pop.
BetterHead(c) ==
  {i \in HeadOf(queue) : queue[i].t \notin cap_deferred /\ Before(queue[i], CurrentRank(c))}

\* Swap for it: the new entry is not checked for staleness.
Swap(c) ==
  /\ con[c].pc \in {"popped", "swapped"}
  /\ con[c].pc = "popped" => ~IsStale(c)
  /\ \E i \in BetterHead(c) :
       /\ queue' = Append(RemoveAt(queue, i), CurrentRank(c))
       /\ Set(c, Popped(queue[i], "swapped"))
  /\ dedupe' = dedupe \union {con[c].e.t}
  /\ UNCHANGED <<st, prio, in_flight, cap_deferred, draining, api>>

Chosen(c) ==
  /\ con[c].pc \in {"popped", "swapped"}
  /\ con[c].pc = "popped" => ~IsStale(c)
  /\ BetterHead(c) = {}

DrainHolds(c) == draining /\ con[c].at \in ActiveStates /\ STAGE_FOR_STATE[con[c].at] \in Heavy

\* Stuck tickets are not counted, so any part of those in flight may be.
AtCap(c) ==
  /\ con[c].at \in CapGated
  /\ MaxInflight > 0
  /\ Cardinality({t \in Tickets : st[t] \in InFlightPR}) >= MaxInflight

\* Mutant: the demotion adds one to the rank.
Demoted_Adds(e) == [prio |-> e.prio + 1, stage |-> e.stage, t |-> e.t]

\* Mutant: the capped entry is not demoted.
Demoted_Keeps(e) == e

\* max(1, popped_prio).
Demoted(e) == [prio |-> 1, stage |-> e.stage, t |-> e.t]

\* Drain mode or the in-flight cap: put the entry back and sleep; the cap
\* also demotes it.
Defer(c) ==
  /\ Chosen(c)
  /\ \/ /\ DrainHolds(c)
        /\ queue' = Append(queue, con[c].e)
        /\ UNCHANGED cap_deferred
     \/ /\ ~DrainHolds(c) /\ AtCap(c)
        /\ queue' = Append(queue, Demoted(con[c].e))
        /\ cap_deferred' = cap_deferred \union {con[c].e.t}
  /\ dedupe' = dedupe \union {con[c].e.t}
  /\ Hold(c, "asleep")
  /\ UNCHANGED <<st, prio, in_flight, draining, api>>

\* The sleep ends; the finally block takes the id out of _pending.
Wake(c) ==
  /\ LoopFree
  /\ con[c].pc = "asleep"
  /\ dedupe' = dedupe \ {con[c].e.t}
  /\ Continue(c)
  /\ UNCHANGED <<st, prio, queue, in_flight, cap_deferred, draining, api>>

\* Mutant: the claim is keyed on the ticket and its stage.
Claimed_PerStage(c) ==
  \E d \in Consumers :
    con[d].pc \in {"gate", "running", "lane", "checking"} /\ con[d].e.t = con[c].e.t /\ con[d].at = con[c].at

\* A live run holds the ticket.
Claimed(c) == con[c].e.t \in in_flight

\* _try_claim: a live run makes the consumer drop the entry.
Claim(c) ==
  /\ Chosen(c)
  /\ ~DrainHolds(c)
  /\ cap_deferred' = cap_deferred \ {con[c].e.t}
  /\ IF Claimed(c)
     THEN /\ dedupe' = dedupe \ {con[c].e.t}
          /\ Continue(c)
          /\ UNCHANGED in_flight
     ELSE /\ in_flight' = in_flight \union {con[c].e.t}
          /\ Hold(c, IF con[c].at \in MergeLane THEN "lane" ELSE "gate")
          /\ UNCHANGED dedupe
  /\ UNCHANGED <<st, prio, queue, draining, api>>

\* The gate admits the run.
Enter(c) ==
  /\ LoopFree
  /\ con[c].pc = "gate"
  /\ Cardinality({d \in Consumers : con[d].pc = "running"}) < Slots
  /\ Hold(c, "running")
  /\ UNCHANGED <<st, prio, queue, dedupe, in_flight, cap_deferred, draining, api>>

\* One stage of the run: a lane run goes on only while the ticket is in the
\* lane.
Advance(c) ==
  /\ con[c].pc = "running" \/ (con[c].pc = "lane" /\ st[con[c].e.t] \in MergeLane)
  /\ Active(con[c].e.t)
  /\ Moves(con[c].e.t)

\* process_ticket returns: the slot is free, the claim is kept while
\* _check_progress runs in a thread.
Returns(c) ==
  /\ LoopFree
  /\ con[c].pc \in {"running", "lane"}
  /\ Hold(c, "checking")
  /\ UNCHANGED <<st, prio, queue, dedupe, in_flight, cap_deferred, draining, api>>

\* Mutant: _requeue_if_left_lane runs before the id leaves _pending.
Finish_KeepsPending(c) ==
  /\ LoopFree
  /\ con[c].pc = "checking"
  /\ in_flight' = in_flight \ {con[c].e.t}
  /\ IF con[c].at \in MergeLane THEN EnqueueTo(con[c].e.t, dedupe)
     ELSE dedupe' = dedupe \ {con[c].e.t} /\ UNCHANGED queue
  /\ Continue(c)
  /\ UNCHANGED <<st, prio, cap_deferred, draining, api>>

\* The finally block.  A lane run that left the lane is enqueued again.
Finish(c) ==
  /\ LoopFree
  /\ con[c].pc = "checking"
  /\ in_flight' = in_flight \ {con[c].e.t}
  /\ IF con[c].at \in MergeLane /\ Active(con[c].e.t) /\ st[con[c].e.t] \notin MergeLane
     THEN EnqueueTo(con[c].e.t, dedupe \ {con[c].e.t})
     ELSE dedupe' = dedupe \ {con[c].e.t} /\ UNCHANGED queue
  /\ Continue(c)
  /\ UNCHANGED <<st, prio, cap_deferred, draining, api>>

\* Mutant: the except block does not release the claim.
Crash_LeaksClaim(c) ==
  /\ con[c].pc \in {"popped", "swapped", "running", "lane"}
  /\ IF con[c].pc \in {"running", "lane"} THEN LoopFree ELSE DbFails
  /\ dedupe' = dedupe \ {con[c].e.t}
  /\ Continue(c)
  /\ UNCHANGED <<st, prio, queue, in_flight, cap_deferred, draining, api>>

\* A look-up or the run raises: the entry is gone, the claim, if there is
\* one, is released, and a lane run is not enqueued again.
Crash(c) ==
  /\ con[c].pc \in {"popped", "swapped", "running", "lane"}
  /\ IF con[c].pc \in {"running", "lane"} THEN LoopFree ELSE DbFails
  /\ in_flight' = IF con[c].pc \in {"running", "lane"} THEN in_flight \ {con[c].e.t} ELSE in_flight
  /\ dedupe' = dedupe \ {con[c].e.t}
  /\ Continue(c)
  /\ UNCHANGED <<st, prio, queue, cap_deferred, draining, api>>

Consume(c) ==
  \/ Pop(c) \/ Wait(c) \/ PutBackStale(c) \/ Swap(c) \/ Defer(c) \/ Wake(c)
  \/ Claim(c) \/ Enter(c) \/ Advance(c) \/ Returns(c) \/ Finish(c) \/ Crash(c)

\* The process starts again: only the table survives.
WRestart ==
  /\ queue' = <<>> /\ dedupe' = {} /\ in_flight' = {} /\ cap_deferred' = {}
  /\ draining' = FALSE
  /\ con' = [c \in Consumers |-> Free]
  /\ api' = [h \in Threads |-> Idle]
  /\ UNCHANGED <<st, prio>>

-----------------------------------------------------------------------------

WNextUp ==
  \/ \E t \in Tickets : Sweep(t) \/ SweepFails(t) \/ Moves(t)
  \/ \E h \in Threads :
       ApiPut(h) \/ ForceRequeue(h) \/ \E t \in Tickets : ApiTest(h, t) \/ SetPriority(h, t)
  \/ \E c \in Consumers : Consume(c)
  \/ Drain

WNext == WNextUp \/ WRestart

WSpec == WInit /\ [][WNext]_wvars

(***************************************************************************)
(* A process that stays up.  The event loop runs every task that is ready: *)
(* a consumer goes on, and the sweep, whose period is finite, finds the    *)
(* loop free again and again and gets its turn.                            *)
(***************************************************************************)
ConsumerGoesOn(c) ==
  \/ Pop(c) \/ Wait(c) \/ PutBackStale(c) \/ Swap(c) \/ Defer(c) \/ Wake(c)
  \/ Claim(c) \/ Enter(c) \/ Returns(c) \/ Finish(c)

WFairSpec ==
  /\ WInit /\ [][WNextUp]_wvars
  /\ \A c \in Consumers : WF_wvars(ConsumerGoesOn(c))
  /\ \A t \in Tickets : SF_wvars(Sweep(t))

-----------------------------------------------------------------------------

Entry == [prio : {0, 1}, stage : Nat, t : Tickets]

Pcs == {"free", "next", "popped", "swapped", "asleep", "gate", "running", "lane", "checking"}

WTypeOK ==
  /\ st \in [Tickets -> State]
  /\ prio \in [Tickets -> BOOLEAN]
  /\ queue \in Seq(Entry)
  /\ dedupe \subseteq Tickets
  /\ in_flight \subseteq Tickets
  /\ cap_deferred \subseteq Tickets
  /\ draining \in BOOLEAN
  /\ con \in [Consumers ->
             [pc : Pcs, e : Entry \union {NoEntry}, at : State \union {None}, pr : {0, 1}]]
  /\ \A c \in Consumers : con[c].pc \notin {"free", "next"} => con[c].e \in Entry
  /\ api \in [Threads -> {Idle} \union [pc : {"tested", "flipped"}, t : Tickets]]

Holds(c) == con[c].pc \in {"gate", "running", "lane", "checking"}

(***************************************************************************)
(* No ticket is worked by two consumers at once, in any stage, although    *)
(* _pending lets several entries of one ticket into the queue, and         *)
(* although a run may outlive several state changes of its ticket.         *)
(***************************************************************************)
OneRunPerTicket ==
  \A c, d \in Consumers : c # d /\ Holds(c) /\ Holds(d) => con[c].e.t # con[d].e.t

(***************************************************************************)
(* Every claim has a run: a leaked claim "would silently block every       *)
(* future run of this ticket".                                             *)
(***************************************************************************)
ClaimsAreHeld == \A t \in in_flight : \E c \in Consumers : Holds(c) /\ con[c].e.t = t

Queued(t) == \E i \in DOMAIN queue : queue[i].t = t

(***************************************************************************)
(* No ghost in _pending: an id that enqueue() would refuse is in the queue *)
(* or in a consumer's hands.  A ghost would never be worked again.         *)
(***************************************************************************)
PendingIsBacked ==
  \A t \in dedupe : Queued(t) \/ \E c \in Consumers : con[c].e.t = t

(***************************************************************************)
(* The consumer loop leaves nothing behind, whatever raises in it: the     *)
(* claim it releases is the claim it took, over a swap of its entry as     *)
(* well, and an id in _pending has an entry in the queue or a step that    *)
(* will remove it.  The last holds while enqueue()'s look-up does not      *)
(* raise: it adds the id first.                                            *)
(***************************************************************************)
NothingIsLeaked == WTypeOK /\ ClaimsAreHeld /\ (~DbFails => PendingIsBacked)

(***************************************************************************)
(* The in-flight cap does not stall the board: while a ticket waits in the *)
(* merge lane, and so holds the slot the capped tickets need, the          *)
(* consumers get to some run and do not hand the capped entries round for  *)
(* ever ("a priority READY/DRAFT ticket deadlocks the board when the cap   *)
(* is saturated"), however many entries of them the sweep adds.            *)
(***************************************************************************)
CapDoesNotStall ==
  \A t \in Tickets :
    st[t] \in MergeLane ~> \/ st[t] \notin MergeLane
                           \/ \E c \in Consumers : con[c].pc \in {"running", "lane"}

-----------------------------------------------------------------------------
(* What the repository says, and the code does not do. *)

(***************************************************************************)
(* core.py, the drain gate: "all lighter stages (merge / document / review *)
(* / deliver / classify) finish normally" while the drain lasts.           *)
(***************************************************************************)
LightStagesFinish ==
  \A t \in Tickets :
    draining /\ st[t] \in MergeLane ~>
      \/ ~draining
      \/ st[t] \notin MergeLane
      \/ \E c \in Consumers : con[c].pc = "lane" /\ con[c].e.t = t

(***************************************************************************)
(* core.py: _pending holds the "ids queued OR in-flight - dedupe", and the *)
(* sweep is "idempotent (enqueue() dedupes via _pending)": an id the sweep *)
(* puts in the queue is not there already.                                 *)
(***************************************************************************)
SweepIsIdempotent ==
  [][\A t \in Tickets : Sweep(t) /\ Queued(t) => queue' = queue]_wvars

(***************************************************************************)
(* core.py: "enqueue is only ever called from the loop thread, so this set *)
(* check needs no lock": the id is still not pending when it is added.     *)
(***************************************************************************)
TestIsStillTrue == [][\A h \in Threads : ApiPut(h) => api[h].t \notin dedupe]_wvars

=============================================================================
