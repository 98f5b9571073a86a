----------------------------- MODULE Processing -----------------------------
(***************************************************************************)
(* The worker's drive of a ticket through its stages                       *)
(* (runtime/worker/processing.py), on top of the ticket service.           *)
(*                                                                         *)
(* A run fetches the ticket once and works from that copy: the stage runs  *)
(* in a thread for minutes while people, other passes and late second      *)
(* sessions go on changing the row.  The stage's outcome, or its error, is *)
(* then applied to whatever the row has become.  A thread abandoned at the *)
(* deadline keeps running: its tools refuse, but ask_user and the stage's  *)
(* own transition do not.                                                  *)
(*                                                                         *)
(* The worker claims a ticket before it processes it, so one ticket has at *)
(* most one run.  Left out: the dependency gate (a ticket it holds back is *)
(* one that is not fetched), tracing, notifications, the infrastructure    *)
(* ticket a full disk files, and the re-evaluation of the parent epic.     *)
(***************************************************************************)
EXTENDS TicketService

CONSTANTS
  Path,            \* bound: the states outcomes lead to in this instance
  StageRetryMax,   \* stage_retry_max_attempts
  OutageParksMax   \* model_outage_max_parks

ASSUME ProcessingConstants ==
  /\ Path \subseteq State
  /\ StageRetryMax \in 0..MaxAttempt
  /\ OutageParksMax \in 0..MaxAttempt
  /\ MaxAttempt > 0

VARIABLES
  run,       \* run[t]: the run of t in this process
  zombie,    \* zombie[t]: the stage thread of t abandoned at its deadline
  fails      \* history: failed or parked runs of t since one succeeded

pvars == <<tk, pending, run, zombie, fails>>

Stage == {STAGE_FOR_STATE[s] : s \in ActiveStates}

FailKinds == {"transient", "network", "disk", "model", "fatal"}

Run ==
  [pc : {"idle", "fetched", "stage", "returned", "preflight", "apply", "force", "failed"},
   at : ActiveStates \union {None},       \* state of the fetched copy
   attempt : 0..MaxAttempt,               \* its retry_attempt
   asked : BOOLEAN,                       \* the run posted a question
   out : State \union {None},             \* outcome to apply
   kind : FailKinds \union {None}]

Idle == [pc |-> "idle", at |-> None, attempt |-> 0, asked |-> FALSE, out |-> None, kind |-> None]

Thread == [stage : Stage \union {None}, asked : BOOLEAN]
NoThread == [stage |-> None, asked |-> FALSE]

PInit ==
  /\ Init
  /\ run = [t \in Tickets |-> Idle]
  /\ zombie = [t \in Tickets |-> NoThread]
  /\ fails = [t \in Tickets |-> 0]

StageOf(t) == STAGE_FOR_STATE[run[t].at]

(***************************************************************************)
(* What each stage returns when it does not raise; returning the fetched   *)
(* state, the no-op, is always possible and left out.                      *)
(***************************************************************************)
ClassifyOutcomes == {"draft", "epic_open", "closed"}

RefineOutcomes == {"draft", "ready", "human_issue_approval", "done", "closed", "epic_open", "blocked"}

ImplementOutcomes ==
  {"ready", "code_review", "documenting", "deliverable", "rebasing", "done", "epic_open", "blocked"}

ReviewOutcomes == {"documenting", "ready", "blocked", "awaiting_user_reply"}

DocumentOutcomes == {"deliverable", "blocked"}

DeliverOutcomes == {"implement_complete", "done", "blocked"}

MergeOutcomes ==
  {"implement_complete", "human_mr_approval", "waiting_auto_merge", "rebasing",
   "addressing_review", "fixing_ci", "ready", "done", "blocked"}

CiFixOutcomes == {"implement_complete", "rebasing", "blocked"}

RetrospectOutcomes == {"closed", "blocked"}

AnswerOutcomes == {"answered", "blocked"}

StageOutcomes == [s \in Stage |->
  CASE s = "classify" -> ClassifyOutcomes
    [] s = "refine" -> RefineOutcomes
    [] s = "implement" -> ImplementOutcomes
    [] s = "review" -> ReviewOutcomes
    [] s = "document" -> DocumentOutcomes
    [] s = "deliver" -> DeliverOutcomes
    [] s = "merge" -> MergeOutcomes
    [] s = "ci_fix" -> CiFixOutcomes
    [] s = "retrospect" -> RetrospectOutcomes
    [] s = "answer" -> AnswerOutcomes]

\* The stages that look for a question in the agent's transcript and pause
\* the ticket themselves before they return.
Pausing == {"refine", "implement", "document"}

Traced == Stage \ {"merge", "deliver", "ci_fix"}

Goto(t, r) == run' = [run EXCEPT ![t] = r]
Finish(t) == Goto(t, Idle)

-----------------------------------------------------------------------------
(* Transitions the worker asks for: refused ones raise and end the run. *)

\* Mutant: the worker writes the state without asking transition().
MoveOrRaise_Unchecked(t, dst) ==
  /\ IF Exists(t) THEN Put(t, Moved(tk[t], dst, FALSE)) ELSE UNCHANGED tk
  /\ UNCHANGED pending

MoveOrRaise(t, dst) ==
  \/ \E reason \in Reasons : (reason => dst = "blocked") /\ Move(t, dst, reason, pending)
  \/ ~CanMove(tk[t], dst) /\ UNCHANGED vars

\* The refusal is only about open questions.
QuestionRefuses(t, dst) ==
  /\ tk[t].state \in State
  /\ can_transition(tk[t].state, dst, tk[t].blocked_from, tk[t].paused_from)
  /\ ~QuestionsAllow(tk[t], dst)

\* set_retry_state; a vanished ticket makes it raise.
Retry(t, attempt, parked) ==
  \/ SetRetryState(t, attempt, parked)
  \/ ~Exists(t) /\ UNCHANGED vars

AtLeast1(n) == IF n > 1 THEN n ELSE 1

Failed(t) == fails' = [fails EXCEPT ![t] = IF @ < MaxAttempt THEN @ + 1 ELSE @]

-----------------------------------------------------------------------------
(* Dispatch. *)

\* Mutant: tickets no stage owns are dispatched too.
Fetch_AnyState(t) ==
  /\ run[t].pc = "idle"
  /\ tk[t].state \in State
  /\ ~tk[t].parked
  /\ Goto(t, [Idle EXCEPT !.pc = "fetched", !.at = tk[t].state, !.attempt = tk[t].attempt])
  /\ UNCHANGED <<tk, pending, zombie, fails>>

Fetch(t) ==
  /\ run[t].pc = "idle"
  /\ tk[t].state \in ActiveStates
  /\ ~tk[t].parked
  /\ Goto(t, [Idle EXCEPT !.pc = "fetched", !.at = tk[t].state, !.attempt = tk[t].attempt])
  /\ UNCHANGED <<tk, pending, zombie, fails>>

\* The disk admission gate: park before dispatch.
DiskPark(t) ==
  /\ run[t].pc = "fetched"
  /\ ~run[t].asked
  /\ Retry(t, AtLeast1(run[t].attempt), TRUE)
  /\ Failed(t)
  /\ Finish(t)
  /\ UNCHANGED zombie

ClearedRetry(t) ==
  IF run[t].attempt > 0 THEN Retry(t, 0, FALSE) ELSE UNCHANGED vars

\* Only implement has a preflight; it refuses by blocking, or returns the
\* fetched state, or pauses (PreflightAsks, Pauses).
Preflight(t) ==
  /\ run[t].pc = "fetched"
  /\ StageOf(t) = "implement"
  /\ ~run[t].asked
  /\ \/ Finish(t) /\ UNCHANGED <<tk, pending, fails>>
     \/ /\ ClearedRetry(t)
        /\ fails' = [fails EXCEPT ![t] = 0]
        /\ Goto(t, [run[t] EXCEPT !.pc = "preflight", !.out = "blocked"])
  /\ UNCHANGED zombie

PreflightAsks(t) ==
  /\ run[t].pc = "fetched"
  /\ StageOf(t) = "implement"
  /\ ~run[t].asked
  /\ AskUser(t)
  /\ Goto(t, [run[t] EXCEPT !.asked = TRUE])
  /\ UNCHANGED <<zombie, fails>>

PreflightPauses(t) ==
  /\ run[t].pc = "fetched"
  /\ run[t].asked
  /\ IF CanMove(tk[t], "awaiting_user_reply")
     THEN /\ Move(t, "awaiting_user_reply", FALSE, pending)
          /\ Goto(t, [run[t] EXCEPT !.pc = "preflight", !.out = "awaiting_user_reply"])
     ELSE Finish(t) /\ UNCHANGED vars
  /\ UNCHANGED <<zombie, fails>>

\* The preflight outcome; a refused transition is logged.
ApplyPreflight(t) ==
  /\ run[t].pc = "preflight"
  /\ MoveOrRaise(t, run[t].out)
  /\ Finish(t)
  /\ UNCHANGED <<zombie, fails>>

\* The cycle ceiling: the count of this pass is abstracted, so it may be
\* hit at any dispatch of a traced stage.
CycleCeiling(t) ==
  /\ run[t].pc = "fetched"
  /\ ~run[t].asked
  /\ StageOf(t) \in Traced
  /\ MoveOrRaise(t, "blocked")
  /\ Finish(t)
  /\ UNCHANGED <<zombie, fails>>

StartStage(t) ==
  /\ run[t].pc = "fetched"
  /\ ~run[t].asked
  /\ Goto(t, [run[t] EXCEPT !.pc = "stage"])
  /\ UNCHANGED <<tk, pending, zombie, fails>>

-----------------------------------------------------------------------------
(* The stage thread. *)

StageAsks(t) ==
  /\ run[t].pc = "stage"
  /\ ~run[t].asked
  /\ AskUser(t)
  /\ Goto(t, [run[t] EXCEPT !.asked = TRUE])
  /\ UNCHANGED <<zombie, fails>>

\* The stage pauses the ticket, then returns the outcome that repeats it.
\* A refused pause is a fatal error of the stage.
StagePauses(t) ==
  /\ run[t].pc = "stage"
  /\ run[t].asked
  /\ StageOf(t) \in Pausing
  /\ IF CanMove(tk[t], "awaiting_user_reply")
     THEN /\ Move(t, "awaiting_user_reply", FALSE, pending)
          /\ Goto(t, [run[t] EXCEPT !.pc = "returned", !.out = "awaiting_user_reply"])
     ELSE /\ Goto(t, [run[t] EXCEPT !.pc = "failed", !.kind = "fatal", !.attempt = tk[t].attempt])
          /\ UNCHANGED vars
  /\ UNCHANGED <<zombie, fails>>

\* A question turns the outcome of a pausing stage into a pause, unless the
\* stage blocks; review posts the question that goes with its own pause.
StageReturns(t, out) ==
  /\ run[t].pc = "stage"
  /\ out \in (StageOutcomes[StageOf(t)] \intersect Path) \union {run[t].at}
  /\ StageOf(t) \in Pausing /\ run[t].asked => out = "blocked"
  /\ out = "awaiting_user_reply" => run[t].asked
  /\ Goto(t, [run[t] EXCEPT !.pc = "returned", !.out = out])
  /\ UNCHANGED <<tk, pending, zombie, fails>>

\* The handler reads retry_attempt again before it decides.
StageFails(t, kind) ==
  /\ run[t].pc = "stage"
  /\ Goto(t, [run[t] EXCEPT !.pc = "failed", !.kind = kind, !.attempt = tk[t].attempt])
  /\ UNCHANGED <<tk, pending, zombie, fails>>

\* _await_stage_with_deadline gives up on the thread.
Deadline(t) ==
  /\ run[t].pc = "stage"
  /\ zombie[t] = NoThread           \* bound: one abandoned thread per ticket
  /\ zombie' = [zombie EXCEPT ![t] = [stage |-> StageOf(t), asked |-> run[t].asked]]
  /\ CASE StageOf(t) \in {"implement", "ci_fix"} ->
            /\ Goto(t, [run[t] EXCEPT !.pc = "failed", !.kind = "transient",
                                      !.attempt = tk[t].attempt])
            /\ UNCHANGED vars
       [] StageOf(t) = "retrospect" ->
            IF QuestionRefuses(t, "closed")
            THEN /\ Put(t, CloseAll(tk[t])) /\ UNCHANGED pending
                 /\ Goto(t, [run[t] EXCEPT !.pc = "force", !.out = "closed"])
            ELSE MoveOrRaise(t, "closed") /\ Finish(t)
       [] OTHER -> MoveOrRaise(t, "blocked") /\ Finish(t)
  /\ UNCHANGED fails

\* The abandoned thread: ask_user and the stage's own pause still work.
ZombieStep(t) ==
  /\ zombie[t] # NoThread
  /\ \/ /\ ~zombie[t].asked
        /\ AskUser(t)
        /\ zombie' = [zombie EXCEPT ![t].asked = TRUE]
     \/ /\ zombie[t].asked /\ zombie[t].stage \in Pausing
        /\ MoveOrRaise(t, "awaiting_user_reply")
        /\ zombie' = [zombie EXCEPT ![t] = NoThread]
     \/ zombie' = [zombie EXCEPT ![t] = NoThread] /\ UNCHANGED vars
  /\ UNCHANGED <<run, fails>>

-----------------------------------------------------------------------------
(* After the stage. *)

\* Mutant: breadcrumbs are cleared only when the ticket moves on.
StageDone_KeepsBreadcrumbs(t) ==
  /\ run[t].pc = "returned"
  /\ IF run[t].out = run[t].at THEN UNCHANGED vars ELSE ClearedRetry(t)
  /\ fails' = [fails EXCEPT ![t] = 0]
  /\ IF run[t].out = run[t].at THEN Finish(t) ELSE Goto(t, [run[t] EXCEPT !.pc = "apply"])
  /\ UNCHANGED zombie

\* A stage that did not raise clears the retry breadcrumbs of its copy.
StageDone(t) ==
  /\ run[t].pc = "returned"
  /\ ClearedRetry(t)
  /\ fails' = [fails EXCEPT ![t] = 0]
  /\ IF run[t].out = run[t].at THEN Finish(t) ELSE Goto(t, [run[t] EXCEPT !.pc = "apply"])
  /\ UNCHANGED zombie

\* Apply the outcome to what the row has become: skip it if the ticket is
\* already there, close stale questions in the way, or discard it.
ApplyOutcome(t) ==
  /\ run[t].pc = "apply"
  /\ IF tk[t].state # run[t].out /\ QuestionRefuses(t, run[t].out)
     THEN /\ Put(t, CloseAll(tk[t])) /\ UNCHANGED pending
          /\ Goto(t, [run[t] EXCEPT !.pc = "force"])
     ELSE /\ IF tk[t].state = run[t].out THEN UNCHANGED vars ELSE MoveOrRaise(t, run[t].out)
          /\ Finish(t)
  /\ UNCHANGED <<zombie, fails>>

\* Second half of _close_stale_threads_and_transition.
ForceOutcome(t) ==
  /\ run[t].pc = "force"
  /\ MoveOrRaise(t, run[t].out)
  /\ Finish(t)
  /\ UNCHANGED <<zombie, fails>>

\* _handle_stage_error: park, retry after a backoff, or give up.
HandleStageError(t) ==
  /\ run[t].pc = "failed"
  /\ LET n == run[t].attempt
         exhausted == IF StageOf(t) = "retrospect" THEN "closed" ELSE "blocked"
     IN CASE run[t].kind \in {"network", "disk"} -> Retry(t, AtLeast1(n), TRUE)
          [] run[t].kind = "model" ->
               IF n + 1 > OutageParksMax THEN MoveOrRaise(t, "blocked") ELSE Retry(t, n + 1, TRUE)
          [] run[t].kind = "transient" ->
               IF n + 1 > StageRetryMax THEN MoveOrRaise(t, exhausted) ELSE Retry(t, n + 1, TRUE)
          [] run[t].kind = "fatal" -> MoveOrRaise(t, exhausted)
  /\ Failed(t)
  /\ Finish(t)
  /\ UNCHANGED zombie

\* next_retry_at passes.
BackoffExpires(t) ==
  /\ tk[t].parked
  /\ Put(t, [tk[t] EXCEPT !.parked = FALSE])
  /\ UNCHANGED <<pending, run, zombie, fails>>

-----------------------------------------------------------------------------

Worker(t) ==
  \/ Fetch(t) \/ DiskPark(t) \/ CycleCeiling(t) \/ StartStage(t)
  \/ Preflight(t) \/ PreflightAsks(t) \/ PreflightPauses(t) \/ ApplyPreflight(t)
  \/ StageAsks(t) \/ StagePauses(t)
  \/ \E out \in State : StageReturns(t, out)
  \/ \E kind \in FailKinds : StageFails(t, kind)
  \/ Deadline(t) \/ ZombieStep(t)
  \/ StageDone(t) \/ ApplyOutcome(t) \/ ForceOutcome(t) \/ HandleStageError(t)
  \/ BackoffExpires(t)

Others ==
  /\ (\E t \in Tickets : UserCall(t)) \/ (\E c \in pending : Continue(c))
  /\ UNCHANGED <<run, zombie, fails>>

\* The process dies and starts again: rows survive, runs and threads do not.
Restart ==
  /\ pending' = {}
  /\ run' = [t \in Tickets |-> Idle]
  /\ zombie' = [t \in Tickets |-> NoThread]
  /\ UNCHANGED <<tk, fails>>

PStep == Others \/ \E t \in Tickets : Worker(t)

PNext == PStep \/ Restart

PSpec == PInit /\ [][PNext]_pvars


-----------------------------------------------------------------------------

PTypeOK ==
  /\ TypeOK
  /\ run \in [Tickets -> Run]
  /\ zombie \in [Tickets -> Thread]
  /\ fails \in [Tickets -> 0..MaxAttempt]

(***************************************************************************)
(* The retry budget is charged only for failures: retry_attempt is never   *)
(* more than the failed or parked runs since one succeeded.  The clear     *)
(* after a success is guarded by the run's own, possibly stale, copy of    *)
(* the count, and the handler writes back a count it read earlier; neither *)
(* a resume, a restart nor an abandoned thread in between leaves a charge  *)
(* that nothing failed for.                                                *)
(***************************************************************************)
BudgetIsEarned == \A t \in Tickets : tk[t].attempt <= fails[t]

-----------------------------------------------------------------------------
(* What the repository says, and the code does not do. *)

(***************************************************************************)
(* processing.py, where an outcome meets a ticket that moved during the    *)
(* run: "Where the change was an operator park to blocked, the ticket      *)
(* stays parked".                                                          *)
(***************************************************************************)
StaysParked ==
  [][\A t \in Tickets :
       ApplyOutcome(t) /\ tk[t].state = "blocked" => tk'[t].state = "blocked"]_pvars

(***************************************************************************)
(* ask_user.py: "the ticket will resume when the operator replies".  No    *)
(* ticket waits for a reply with a reply given, every question closed, and *)
(* no resume on its way.                                                   *)
(***************************************************************************)
AnsweredIsResumed ==
  \A t \in Tickets :
    tk[t].state = "awaiting_user_reply" /\ tk[t].replied /\ tk[t].closed > 0 /\ tk[t].open = 0
      => \E c \in pending : c.t = t /\ c.op \in {"resume", "transition"}

(***************************************************************************)
(* processing.py: the pipeline auto-completing a ticket (retrospect ->     *)
(* CLOSED among them) "must not be blocked by a stale [ASK_USER] thread".  *)
(***************************************************************************)
RetrospectFailureCloses ==
  [][\A t \in Tickets :
       HandleStageError(t) /\ StageOf(t) = "retrospect" /\ run[t].kind = "fatal"
         /\ tk[t].state = "done" => tk'[t].state = "closed"]_pvars

(***************************************************************************)
(* processing.py: a failing retrospect has "nothing an operator can        *)
(* unblock"; it closes the ticket and does not escalate it to BLOCKED.     *)
(***************************************************************************)
RetrospectNeverBlocks ==
  [][\A t \in Tickets :
       HandleStageError(t) /\ StageOf(t) = "retrospect" /\ tk[t].state = "done"
         => tk'[t].state # "blocked"]_pvars

(***************************************************************************)
(* processing.py, of the parks for an outage: "Park WITHOUT consuming a    *)
(* retry attempt".                                                         *)
(***************************************************************************)
ParkingIsFree ==
  [][\A t \in Tickets :
       HandleStageError(t) /\ run[t].kind \in {"network", "disk", "model"} /\ tk'[t].parked
         => tk'[t].attempt = tk[t].attempt]_pvars

=============================================================================
