---------------------------- MODULE TicketService ----------------------------
(***************************************************************************)
(* The ticket service (core/service/): every operation that moves a ticket *)
(* or touches what decides where it may move next: blocked_from,           *)
(* paused_from, block_reason, the [ASK_USER] threads and the retry fields. *)
(*                                                                         *)
(* The service is called by API request threads, by stage threads, by the  *)
(* worker and by periodic passes at the same time.  One database session   *)
(* is one action.  An operation that goes on in a second session leaves a  *)
(* continuation in "pending"; anything may happen before it runs, and a    *)
(* crash of the process loses it.                                          *)
(*                                                                         *)
(* Texts, comments other than [ASK_USER] threads, and the event history    *)
(* are left out.  So are the budgets kept in workspace files, which no     *)
(* guard below reads.                                                      *)
(***************************************************************************)
EXTENDS TicketStates, Integers, FiniteSets

CONSTANTS
  Tickets,      \* the tickets
  Unblocks,     \* Unblocks[t]: the ids in the unblocks column of t
  InitialStates,  \* the states create() gives the kinds of ticket in play
  Requests,     \* the destinations callers of transition() ask for
  Reasons,      \* whether a caller may give a block_reason
  MaxThreads,   \* bound on the [ASK_USER] threads of one ticket
  MaxAttempt,   \* bound on retry_attempt
  MaxPending    \* bound on the answers and thread closes under way at once

ASSUME ServiceConstants ==
  /\ Unblocks \in [Tickets -> SUBSET Tickets]
  /\ InitialStates \subseteq {"draft", "asked", "epic_open", "classifying"}
  /\ Requests \subseteq State
  /\ FALSE \in Reasons /\ Reasons \subseteq BOOLEAN
  /\ MaxThreads \in Nat
  /\ MaxAttempt \in Nat
  /\ MaxPending \in Nat

VARIABLES
  tk,        \* the rows of the ticket table, with their [ASK_USER] threads
  pending    \* second sessions of operations still under way

vars == <<tk, pending>>

Ticket ==
  [state : State \union {"absent", "deleted"},
   blocked_from : State \union {None},
   paused_from : State \union {None},
   reason : BOOLEAN,              \* block_reason is set
   open : 0..MaxThreads,          \* open [ASK_USER] threads
   closed : 0..MaxThreads,        \* closed ones
   replied : BOOLEAN,             \* some [ASK_USER] thread has a reply
   attempt : 0..MaxAttempt,       \* retry_attempt
   parked : BOOLEAN]              \* next_retry_at is in the future

Continuation ==
  [op : {"resume", "transition", "unblock", "reawait"}, t : Tickets,
   dst : State \union {None}]

Absent ==
  [state |-> "absent", blocked_from |-> None, paused_from |-> None,
   reason |-> FALSE, open |-> 0, closed |-> 0, replied |-> FALSE,
   attempt |-> 0, parked |-> FALSE]

Exists(t) == tk[t].state \in State

Init ==
  /\ tk = [t \in Tickets |-> Absent]
  /\ pending = {}

-----------------------------------------------------------------------------
(* transition *)

UnblockTriggers == {"done", "closed", "epic_closed"}

TerminalStates == {"done", "closed", "errored"}

\* Open questions refuse a terminal state, except for a ticket escalated
\* from the question itself that the operator force-closes.
QuestionsAllow(r, dst) ==
  dst \in TerminalStates /\ r.open > 0 =>
    r.state = "blocked" /\ dst = "closed" /\ r.blocked_from = "awaiting_user_reply"

CanMove(r, dst) ==
  /\ r.state \in State
  /\ can_transition(r.state, dst, r.blocked_from, r.paused_from)
  /\ QuestionsAllow(r, dst)

\* Mutant: the closed threads are counted but stay open.
CloseAll_KeepsOpen(r) == [r EXCEPT !.closed = @ + r.open]

CloseAll(r) == [r EXCEPT !.closed = @ + r.open, !.open = 0]

\* The threads transition() closes on the way.
ClosesThreads(r, dst) ==
  \/ dst \in TerminalStates
  \/ r.state = "awaiting_user_reply" /\ dst = "ready"

\* Mutant: paused_from is cleared whenever AWAITING_USER_REPLY is left.
Moved_ForgetsPause(r, dst, reason) ==
  [(IF ClosesThreads(r, dst) THEN CloseAll(r) ELSE r) EXCEPT
     !.state = dst,
     !.blocked_from = IF dst = "blocked" THEN r.state
                      ELSE IF r.state = "blocked" THEN None ELSE @,
     !.reason = IF dst = "blocked" THEN reason
                ELSE IF r.state = "blocked" THEN FALSE ELSE @,
     !.paused_from = IF dst = "awaiting_user_reply" THEN r.state
                     ELSE IF r.state = "awaiting_user_reply" THEN None ELSE @]

\* Mutant: blocked_from is recorded only for the states a stage owns.
Moved_ForgetsBlock(r, dst, reason) ==
  [(IF ClosesThreads(r, dst) THEN CloseAll(r) ELSE r) EXCEPT
     !.state = dst,
     !.blocked_from = IF dst = "blocked" /\ r.state \in ActiveStates THEN r.state
                      ELSE None,
     !.reason = IF dst = "blocked" THEN reason
                ELSE IF r.state = "blocked" THEN FALSE ELSE @,
     !.paused_from =
        IF dst = "awaiting_user_reply" THEN (IF @ = None THEN r.state ELSE @)
        ELSE IF r.state = "awaiting_user_reply" /\ dst # "blocked" THEN None ELSE @]

Moved(r, dst, reason) ==
  [(IF ClosesThreads(r, dst) THEN CloseAll(r) ELSE r) EXCEPT
     !.state = dst,
     !.blocked_from = IF dst = "blocked" THEN r.state
                      ELSE IF r.state = "blocked" THEN None ELSE @,
     !.reason = IF dst = "blocked" THEN reason
                ELSE IF r.state = "blocked" THEN FALSE ELSE @,
     !.paused_from =
        IF dst = "awaiting_user_reply" THEN (IF @ = None THEN r.state ELSE @)
        ELSE IF r.state = "awaiting_user_reply" /\ dst # "blocked" THEN None ELSE @]

Unblocked(t, dst) ==
  IF dst \in UnblockTriggers
  THEN [op : {"unblock"}, t : Unblocks[t], dst : {None}] ELSE {}

\* The whole of transition(): the row, then the unblocks it still has to
\* fire.  The purge of the oldest archived tickets is a Delete of theirs.
Move(t, dst, reason, rest) ==
  /\ CanMove(tk[t], dst)
  /\ tk' = [tk EXCEPT ![t] = Moved(tk[t], dst, reason)]
  /\ pending' = rest \union Unblocked(t, dst)

Transition(t, dst) ==
  \E reason \in Reasons : (reason => dst = "blocked") /\ Move(t, dst, reason, pending)

-----------------------------------------------------------------------------
(* The other ways to move a ticket.  None of them asks can_transition. *)

Put(t, r) == tk' = [tk EXCEPT ![t] = r]

Create(t, s) ==
  /\ tk[t].state = "absent"
  /\ s \in InitialStates
  /\ Put(t, [Absent EXCEPT !.state = s])
  /\ UNCHANGED pending

Delete(t) ==
  /\ Exists(t)
  /\ Put(t, [Absent EXCEPT !.state = "deleted"])
  /\ UNCHANGED pending

ResumeBlocked(t) ==
  /\ Exists(t)
  /\ tk[t].state = "blocked"
  /\ tk[t].blocked_from # None
  /\ Put(t, [tk[t] EXCEPT !.state = tk[t].blocked_from, !.blocked_from = None,
                          !.reason = FALSE, !.attempt = 0, !.parked = FALSE])
  /\ UNCHANGED pending

SetRetryState(t, attempt, parked) ==
  /\ Exists(t)
  /\ Put(t, [tk[t] EXCEPT !.attempt = attempt, !.parked = parked])
  /\ UNCHANGED pending

RequestChanges(t) ==
  /\ tk[t].state = "human_issue_approval"
  /\ Put(t, [tk[t] EXCEPT !.state = "draft"])
  /\ UNCHANGED pending

RequestImplementationChanges(t) ==
  /\ tk[t].state = "human_mr_approval"
  /\ Put(t, [tk[t] EXCEPT !.state = "ready"])
  /\ UNCHANGED pending

CloseTracker(t) ==
  /\ Exists(t)
  /\ tk[t].state \notin {"done", "closed", "answered", "epic_closed"}
  /\ Put(t, [tk[t] EXCEPT !.state = "closed", !.blocked_from = None,
                          !.reason = FALSE, !.paused_from = None])
  /\ UNCHANGED pending

\* The merge verification is a query of the forge: it may refuse.
MarkDone(t) ==
  /\ Exists(t)
  /\ tk[t].state \notin {"done", "closed", "answered", "epic_closed", "epic_open"}
  /\ Put(t, [CloseAll(tk[t]) EXCEPT !.state = "done"])
  /\ pending' = pending \union Unblocked(t, "done")

\* Mutant: redraft accepts a closed ticket.
Redraft_Closed(t) ==
  /\ Exists(t)
  /\ tk[t].state \notin {"draft", "answered", "epic_closed", "epic_open"}
  /\ Put(t, [tk[t] EXCEPT !.state = "draft", !.open = 0, !.closed = 0, !.replied = FALSE])
  /\ UNCHANGED pending

\* redraft deletes every comment, and with them the threads.
Redraft(t) ==
  /\ Exists(t)
  /\ tk[t].state \notin {"draft", "closed", "answered", "epic_closed", "epic_open"}
  /\ Put(t, [tk[t] EXCEPT !.state = "draft", !.open = 0, !.closed = 0, !.replied = FALSE])
  /\ UNCHANGED pending

-----------------------------------------------------------------------------
(* Questions: the ask_user tool, replies, thread close and reopen. *)

Later(t, op, dst) == [op |-> op, t |-> t, dst |-> dst]

Room == Cardinality(pending) < MaxPending

\* The ask_user tool of an agent posts the question; the pause comes later.
AskUser(t) ==
  /\ Exists(t)
  /\ tk[t].open + tk[t].closed < MaxThreads
  /\ Put(t, [tk[t] EXCEPT !.open = @ + 1])
  /\ UNCHANGED pending

\* add_comment on a question: on a paused ticket it is the answer, and
\* closes the thread; otherwise it is only recorded.
Reply(t) ==
  /\ Exists(t)
  /\ \/ /\ Room
        /\ tk[t].state = "awaiting_user_reply" /\ tk[t].open > 0
        /\ Put(t, [tk[t] EXCEPT !.open = @ - 1, !.closed = @ + 1, !.replied = TRUE])
        /\ pending' = pending \union {Later(t, "resume", None)}
     \/ /\ (tk[t].state # "awaiting_user_reply" /\ tk[t].open > 0) \/ tk[t].closed > 0
        /\ Put(t, [tk[t] EXCEPT !.replied = TRUE])
        /\ UNCHANGED pending

\* close_thread, of a question or of any other thread of the ticket.
CloseThread(t) ==
  /\ Room
  /\ Exists(t)
  /\ \/ tk[t].open > 0 /\ Put(t, [tk[t] EXCEPT !.open = @ - 1, !.closed = @ + 1])
     \/ UNCHANGED tk
  /\ pending' = pending \union {Later(t, "resume", None)}

ReopenThread(t) ==
  /\ Exists(t)
  /\ tk[t].closed > 0
  /\ Put(t, [tk[t] EXCEPT !.open = @ + 1, !.closed = @ - 1])
  /\ UNCHANGED pending

\* answer_pending_question, the first session: reply, close the thread.
AnswerPendingQuestion(t, requires_change) ==
  /\ Room
  /\ Exists(t)
  /\ \/ tk[t].state = "awaiting_user_reply"
     \/ tk[t].state = "blocked" /\ tk[t].blocked_from = "awaiting_user_reply"
  /\ tk[t].open > 0
  /\ Put(t, [tk[t] EXCEPT !.open = @ - 1, !.closed = @ + 1, !.replied = TRUE])
  /\ LET change == IF requires_change THEN "ready" ELSE None IN
     pending' = pending \union
       {IF tk[t].state = "blocked" THEN Later(t, "reawait", change)
        ELSE IF requires_change THEN Later(t, "transition", "ready")
        ELSE Later(t, "resume", None)}

-----------------------------------------------------------------------------
(* Second sessions. *)

\* Mutant: one closed thread resumes the ticket while others are open.
MaybeResume_AnyClosed(c) ==
  /\ c.op = "resume"
  /\ LET r == tk[c.t] IN
     IF r.state = "awaiting_user_reply" /\ r.closed > 0 /\ r.paused_from # None
     THEN Put(c.t, [r EXCEPT !.state = r.paused_from, !.blocked_from = None,
                             !.reason = FALSE, !.paused_from = None])
     ELSE UNCHANGED tk
  /\ pending' = pending \ {c}

\* _maybe_resume_awaiting_user_reply.  A paused row without paused_from is a
\* legacy row (recovered from the history); PausedIsResumable excludes it.
MaybeResume(c) ==
  /\ c.op = "resume"
  /\ LET r == tk[c.t] IN
     IF r.state = "awaiting_user_reply" /\ r.closed > 0 /\ r.open = 0 /\ r.paused_from # None
     THEN Put(c.t, [r EXCEPT !.state = r.paused_from, !.blocked_from = None,
                             !.reason = FALSE, !.paused_from = None])
     ELSE UNCHANGED tk
  /\ pending' = pending \ {c}

\* A call of transition() whose destination was decided in an earlier
\* session; a TransitionError ends the operation.
Deferred(c) ==
  /\ c.op = "transition"
  /\ \/ Move(c.t, c.dst, FALSE, pending \ {c})
     \/ ~CanMove(tk[c.t], c.dst) /\ pending' = pending \ {c} /\ UNCHANGED tk

\* answer_pending_question on a BLOCKED ticket: back to AWAITING_USER_REPLY
\* first, then on to READY or to the resume.
Reawait(c) ==
  /\ c.op = "reawait"
  /\ LET next == IF c.dst = None THEN Later(c.t, "resume", None)
                 ELSE Later(c.t, "transition", c.dst) IN
     \/ Move(c.t, "awaiting_user_reply", FALSE, (pending \ {c}) \union {next})
     \/ /\ ~CanMove(tk[c.t], "awaiting_user_reply")
        /\ pending' = pending \ {c} /\ UNCHANGED tk

\* Mutant: every target is sent back to ASKED, as if only inquiries were
\* ever parked.
FireUnblock_Asked(c) ==
  /\ c.op = "unblock"
  /\ pending' = (pending \ {c}) \union
       (IF tk[c.t].state = "blocked" THEN {Later(c.t, "transition", "asked")} ELSE {})
  /\ UNCHANGED tk

\* _fire_unblocks for one target: look it up, then transition it.
FireUnblock(c) ==
  /\ c.op = "unblock"
  /\ pending' = (pending \ {c}) \union
       (IF tk[c.t].state = "blocked"
        THEN {Later(c.t, "transition",
                    IF tk[c.t].blocked_from # None THEN tk[c.t].blocked_from ELSE "draft")}
        ELSE {})
  /\ UNCHANGED tk

Continue(c) == MaybeResume(c) \/ Deferred(c) \/ Reawait(c) \/ FireUnblock(c)

\* The process dies: what it had still to do is forgotten.
Crash ==
  /\ pending # {}
  /\ pending' = {}
  /\ UNCHANGED tk

-----------------------------------------------------------------------------

\* What people and the API ask for.
UserCall(t) ==
  \/ \E s \in InitialStates : Create(t, s)
  \/ \E dst \in Requests : Transition(t, dst)
  \/ Delete(t)
  \/ ResumeBlocked(t)
  \/ RequestChanges(t)
  \/ RequestImplementationChanges(t)
  \/ CloseTracker(t)
  \/ MarkDone(t)
  \/ Redraft(t)
  \/ Reply(t)
  \/ CloseThread(t)
  \/ ReopenThread(t)
  \/ \E change \in BOOLEAN : AnswerPendingQuestion(t, change)

\* What the worker and the agents ask for, at any time and in any order.
WorkerCall(t) ==
  \/ \E a \in 0..MaxAttempt, p \in BOOLEAN : (p => a > 0) /\ SetRetryState(t, a, p)
  \/ AskUser(t)

Call(t) == UserCall(t) \/ WorkerCall(t)

Step == (\E t \in Tickets : Call(t)) \/ (\E c \in pending : Continue(c))

Next == Step \/ Crash

Spec == Init /\ [][Next]_vars

\* An operation that has begun goes on unless the process dies: with no
\* crash, its thread runs the second session.
FairSpec ==
  Init /\ [][Step]_vars /\ \A c \in Continuation : WF_vars(c \in pending /\ Continue(c))

-----------------------------------------------------------------------------

TypeOK ==
  /\ tk \in [Tickets -> Ticket]
  /\ pending \subseteq Continuation

(***************************************************************************)
(* A blocked ticket can always be resumed: it remembers a state to go back *)
(* to, and that state is one a ticket can be blocked from, so the resume   *)
(* never lands in BLOCKED again or in a finished state.                    *)
(***************************************************************************)
BlockedIsResumable ==
  \A t \in Tickets :
    tk[t].state = "blocked" =>
      tk[t].blocked_from # None /\ "blocked" \in TRANSITIONS[tk[t].blocked_from]

(***************************************************************************)
(* A paused ticket can always be answered: paused_from survives the        *)
(* escalation to BLOCKED and the way back, and names a state a stage may   *)
(* pause in.  Any number of pauses, escalations, overrides and late second *)
(* sessions may have gone before.                                          *)
(***************************************************************************)
Paused(r) ==
  r.state = "awaiting_user_reply" \/
  (r.state = "blocked" /\ r.blocked_from = "awaiting_user_reply")

PausedIsResumable ==
  \A t \in Tickets :
    Paused(tk[t]) =>
      tk[t].paused_from # None /\ "awaiting_user_reply" \in TRANSITIONS[tk[t].paused_from]

\* However transition, resume_blocked, redraft, answers and late second
\* sessions interleave, a ticket that is parked, blocked or waiting for a reply,
\* remembers a state it can legally go back to.
ParkedIsResumable == TypeOK /\ BlockedIsResumable /\ PausedIsResumable

(***************************************************************************)
(* Finished is final: no call, no late second session (an unblock, an      *)
(* answer, a resume) moves a ticket out of CLOSED, ANSWERED or             *)
(* EPIC_CLOSED; it can only be deleted.                                    *)
(***************************************************************************)
Finished == {"closed", "answered", "epic_closed"}

FinishedIsFinal ==
  [][\A t \in Tickets :
       tk[t].state \in Finished => tk'[t].state \in {tk[t].state, "deleted"}]_vars

(***************************************************************************)
(* A ticket leaves the question for implement only with every question     *)
(* closed, by whichever of the three ways (answer, reply, override): "an   *)
(* open [ASK_USER] thread would later refuse the DONE transition".         *)
(***************************************************************************)
ImplementsOnlyAnswered ==
  [][\A t \in Tickets :
       tk[t].state = "awaiting_user_reply" /\ tk'[t].state = "ready" => tk'[t].open = 0]_vars

(***************************************************************************)
(* Completing a ticket frees the tickets it unblocks: once the solver's    *)
(* completion has fired, a blocked target leaves BLOCKED, whatever happens *)
(* between the look-up of where it was parked and its transition.  The one *)
(* exception: a target parked from DONE with an open question, which the   *)
(* transition back to DONE refuses.                                        *)
(***************************************************************************)
UnblockFires ==
  \A t \in Tickets :
    (\E c \in pending : c.op = "unblock" /\ c.t = t) ~>
      (tk[t].state # "blocked" \/ (tk[t].blocked_from = "done" /\ tk[t].open > 0))

-----------------------------------------------------------------------------
(* What the repository says, and the code does not do. *)

(***************************************************************************)
(* models.py: block_reason is the "reason for the CURRENT BLOCKED state",  *)
(* "cleared when leaving BLOCKED".                                         *)
(***************************************************************************)
ReasonIsCurrent == \A t \in Tickets : tk[t].reason => tk[t].state = "blocked"

(***************************************************************************)
(* _transition_mixin.py: "A ticket auto-unblocks its unblocks targets when *)
(* it reaches one of these completion states".                             *)
(***************************************************************************)
CompletionFires ==
  [][\A t \in Tickets :
       tk[t].state \notin UnblockTriggers /\ tk'[t].state \in UnblockTriggers
         => [op : {"unblock"}, t : Unblocks[t], dst : {None}] \subseteq pending']_vars

(***************************************************************************)
(* models.py: each unblocked ticket "is transitioned BLOCKED -> DRAFT".    *)
(***************************************************************************)
UnblocksToDraft ==
  [][\A c \in pending :
       FireUnblock(c) => \A d \in pending' \ pending : d.dst = "draft"]_vars

=============================================================================
