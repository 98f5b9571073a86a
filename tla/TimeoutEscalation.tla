------------------------- MODULE TimeoutEscalation -------------------------
(***************************************************************************)
(* The periodic pass that escalates tickets stuck in AWAITING_USER_REPLY   *)
(* to BLOCKED (agents/runners/timeout_escalation_runner.py), beside the    *)
(* ticket service it reads and writes through.                             *)
(*                                                                         *)
(* The pass lists the stale tickets in one session, reads the comments of  *)
(* each in another and moves it in a third; the service's other callers go *)
(* on in between.  A ticket is "aged" when its updated_at is older than    *)
(* the threshold: time passes it into the set, and any write of its row    *)
(* takes it out (replies and thread closes do not write the row).          *)
(***************************************************************************)
EXTENDS TicketService

VARIABLES
  aged,         \* tickets whose updated_at is older than the cutoff
  candidates,   \* the pass: tickets listed and still to be looked at
  escalating,   \* the pass: the ticket it has decided to escalate
  heard         \* history: a reply came since the last question was asked

tvars == <<tk, pending, aged, candidates, escalating, heard>>

TInit ==
  /\ Init
  /\ aged = {}
  /\ candidates = {}
  /\ escalating = {}
  /\ heard = [t \in Tickets |-> FALSE]

Waiting(t) == tk[t].state = "awaiting_user_reply"

\* updated_at of the rows a step of the service wrote.
Touch == aged' = {t \in aged : tk'[t].state = tk[t].state}

Hear ==
  heard' = [t \in Tickets |->
    IF tk'[t].open + tk'[t].closed > tk[t].open + tk[t].closed THEN FALSE
    ELSE heard[t] \/ Reply(t) \/ \E change \in BOOLEAN : AnswerPendingQuestion(t, change)]

\* Everything but the pass.
Service ==
  /\ Step
  /\ Touch
  /\ Hear
  /\ UNCHANGED <<candidates, escalating>>

Age(t) ==
  /\ Waiting(t)
  /\ t \notin aged
  /\ aged' = aged \union {t}
  /\ UNCHANGED <<tk, pending, candidates, escalating, heard>>

Stale == {t \in aged : Waiting(t)}

\* The query for stale tickets.
Scan ==
  /\ candidates = {} /\ escalating = {}
  /\ Stale # {}
  /\ candidates' = Stale
  /\ UNCHANGED <<tk, pending, aged, escalating, heard>>

\* Mutant: a ticket that has had a question closed counts as answered.
Examine_AnyClosed(t) ==
  /\ escalating = {}
  /\ t \in candidates
  /\ candidates' = candidates \ {t}
  /\ escalating' = IF tk[t].replied \/ tk[t].closed > 0 THEN {} ELSE {t}
  /\ UNCHANGED <<tk, pending, aged, heard>>

\* A reply in any [ASK_USER] thread of the ticket, open or closed, makes
\* the pass skip it.  (The BLOCKED test looks at the listed copy, which was
\* listed because it was not BLOCKED.)
Examine(t) ==
  /\ escalating = {}
  /\ t \in candidates
  /\ candidates' = candidates \ {t}
  /\ escalating' = IF tk[t].replied THEN {} ELSE {t}
  /\ UNCHANGED <<tk, pending, aged, heard>>

\* The transition; its failure is logged and the pass goes on.
Escalate(t) ==
  /\ t \in escalating
  /\ \/ Move(t, "blocked", FALSE, pending)
     \/ ~CanMove(tk[t], "blocked") /\ UNCHANGED vars
  /\ escalating' = {}
  /\ Touch
  /\ UNCHANGED <<candidates, heard>>

Pass == Scan \/ \E t \in Tickets : Examine(t) \/ Escalate(t)

TNext == Service \/ Pass \/ \E t \in Tickets : Age(t)

\* The pass runs every interval (its poll loop never ends), and operations
\* under way are completed; nobody is obliged to ask, answer or decide.
TFairSpec ==
  /\ TInit /\ [][TNext]_tvars
  /\ WF_tvars(Pass)
  /\ \A c \in Continuation : WF_tvars(c \in pending /\ Continue(c) /\ Service)

-----------------------------------------------------------------------------

TTypeOK ==
  /\ TypeOK
  /\ aged \subseteq Tickets
  /\ candidates \subseteq Tickets
  /\ escalating \subseteq Tickets
  /\ heard \in [Tickets -> BOOLEAN]

(***************************************************************************)
(* A ticket no operator ever replied to does not wait past the threshold:  *)
(* the pass moves it on, whatever the other callers do between its query,  *)
(* its look at the comments and its transition.                            *)
(***************************************************************************)
SilenceIsEscalated ==
  \A t \in Tickets :
    (Waiting(t) /\ t \in aged /\ ~tk[t].replied)
      ~> (~Waiting(t) \/ t \notin aged \/ tk[t].replied)

-----------------------------------------------------------------------------
(* What the repository says, and the code does not do. *)

(***************************************************************************)
(* timeout_escalation_runner.py: the pass "detects AWAITING_USER_REPLY     *)
(* tickets stuck beyond a configurable threshold and escalates them to     *)
(* BLOCKED".  The ticket has an open question that nobody has replied to   *)
(* since it was asked.                                                     *)
(***************************************************************************)
StuckIsEscalated ==
  \A t \in Tickets :
    (Waiting(t) /\ t \in aged /\ tk[t].open > 0 /\ ~heard[t])
      ~> (~Waiting(t) \/ t \notin aged \/ heard[t])

(***************************************************************************)
(* The same docstring: only tickets in AWAITING_USER_REPLY are escalated;  *)
(* "AC4: guard against race".                                              *)
(***************************************************************************)
EscalatesOnlyWaiting ==
  [][\A t \in Tickets : Escalate(t) /\ tk'[t].state # tk[t].state => Waiting(t)]_tvars

=============================================================================
