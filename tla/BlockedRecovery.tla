-------------------------- MODULE BlockedRecovery --------------------------
(***************************************************************************)
(* The passes that bring blocked tickets back without a person: the        *)
(* recovery of tickets parked on a red target branch                       *)
(* (agents/runners/upstream_ci_recovery_runner.py) or on a blocked account *)
(* (infra_account_block_runner.py), the bounded retry of what may pass     *)
(* (blocked_auto_resume_runner.py), the recheck of a recorded reason       *)
(* (runtime/worker/periodic_passes.py), and the maintenance that cuts the  *)
(* history they read (core/service/_maintenance_mixin.py).                 *)
(*                                                                         *)
(* The history of a ticket is kept from its last entry into BLOCKED on:    *)
(* the note it was blocked with and the annotations recorded since.  A     *)
(* pass reads the list of blocked tickets once and then goes through it.   *)
(***************************************************************************)
EXTENDS Naturals, Sequences, FiniteSets, SequencesExt, TicketStates

CONSTANTS
  Tickets,
  MaxPer,        \* blocked_auto_resume_max_per_ticket
  MaxEvents,     \* max_events_per_ticket
  MaxNotes,      \* bound: annotations per blocked spell
  MaxBlocks,     \* bound: times a ticket is blocked
  MaxTurns,      \* bound: changes of the target branch's CI
  MaxCrashes     \* bound: restarts

VARIABLES
  cards,     \* the tickets; why tells, for the properties, what one was blocked for
  events,    \* events[t]: notes since the ticket was blocked, oldest first
  ci,        \* the target branch: its conclusion and how often it changed
  passes,    \* the list each running pass has still to go through
  escalated, \* the operator was told in this window; how often; windows; crashes
  before     \* where each pass saw its tickets: the number of its blocked spell

bvars == <<cards, events, ci, passes, escalated, before>>

\* The reasons a ticket is blocked for, by the text of the note.
BlockReasons == {"upstream", "account", "debt", "timeout", "setting"}
Notes == BlockReasons \cup {"note"}
PassNames == {"upstream", "account", "auto", "recheck"}
Origin(r) == IF r = "debt" THEN "implement_complete" ELSE IF r \in {"upstream", "account"} THEN "fixing_ci" ELSE "ready"

NoEscalation == [recent |-> FALSE, sent |-> 0, windows |-> 0, crashes |-> 0]

Ticket == [st : State, blocked_from : State \cup {None}, block_reason : {"none", "debt"},
           resumes : Nat, cooled : BOOLEAN,
           blocks : 0..MaxBlocks, why : BlockReasons \cup {"none"}]

BTypeOK ==
  /\ cards \in [Tickets -> Ticket]
  /\ \A t \in Tickets : events[t] \in Seq(Notes)
  /\ ci \in [state : {"green", "red", "pending"}, turns : 0..MaxTurns]
  /\ passes \in [PassNames -> SUBSET Tickets]
  /\ escalated \in [recent : BOOLEAN, sent : Nat, windows : 0..MaxTurns, crashes : 0..MaxCrashes]
  /\ before \in [PassNames -> [Tickets -> 0..MaxBlocks]]

BInit ==
  /\ cards = [t \in Tickets |-> [st |-> "ready", blocked_from |-> None, block_reason |-> "none",
                                 resumes |-> 0, cooled |-> FALSE, blocks |-> 0, why |-> "none"]]
  /\ events = [t \in Tickets |-> <<>>]
  /\ ci = [state |-> "red", turns |-> 0]
  /\ passes = [p \in PassNames |-> {}]
  /\ escalated = NoEscalation
  /\ before = [p \in PassNames |-> [t \in Tickets |-> 0]]

IsBlocked(t) == cards[t].st = "blocked"
Blocked == {t \in Tickets : IsBlocked(t)}

----------------------------------------------------------------------------
(* The tickets, the target branch and the people *)

\* A stage blocks a ticket; the merge stage records the reason it has a
\* rechecker for, and tickets of an older version have none on record.
Block(t) ==
  /\ ~IsBlocked(t) /\ cards[t].blocks < MaxBlocks
  /\ \E r \in BlockReasons :
       /\ \E s \in (IF r = "debt" THEN {"none", "debt"} ELSE {"none"}) :
            cards' = [cards EXCEPT ![t].st = "blocked", ![t].blocked_from = Origin(r), ![t].block_reason = s,
                                   ![t].cooled = FALSE, ![t].blocks = @ + 1, ![t].why = r]
       /\ events' = [events EXCEPT ![t] = <<r>>]
  /\ UNCHANGED <<ci, passes, escalated, before>>

\* add_step_event: a note in the ticket's current state.
add_step_event(t) ==
  /\ IsBlocked(t) /\ Len(events[t]) <= MaxNotes
  /\ events' = [events EXCEPT ![t] = Append(@, "note")]
  /\ cards' = [cards EXCEPT ![t].cooled = FALSE]
  /\ UNCHANGED <<ci, passes, escalated, before>>

\* blocked_auto_resume_cooldown_seconds have passed since the newest note.
Cools(t) ==
  /\ IsBlocked(t) /\ ~cards[t].cooled
  /\ cards' = [cards EXCEPT ![t].cooled = TRUE]
  /\ UNCHANGED <<events, ci, passes, escalated, before>>

\* _maybe_purge_ticket_events: the oldest notes go.
_maybe_purge_ticket_events(t) ==
  /\ Len(events[t]) > MaxEvents
  /\ events' = [events EXCEPT ![t] = SubSeq(@, Len(@) - MaxEvents + 1, Len(@))]
  /\ UNCHANGED <<cards, ci, passes, escalated, before>>

Turns(s) ==
  /\ ci.turns < MaxTurns /\ ci.state # s /\ ci' = [state |-> s, turns |-> ci.turns + 1]
  /\ UNCHANGED <<cards, events, passes, escalated, before>>

----------------------------------------------------------------------------
(* What the passes read of a blocked ticket *)

\* _last_blocked_note and its copies: the newest event in state BLOCKED.
_last_blocked_note(t) == IF events[t] = <<>> THEN "note" ELSE Last(events[t])

\* _last_block_reason: the event that entered BLOCKED, as far as it is kept.
_last_block_reason(t) == Head(events[t])

\* The reason on record, else the note.
OnDebt(t) == cards[t].block_reason = "debt" \/ _last_block_reason(t) = "debt"

----------------------------------------------------------------------------
(* The passes *)

\* resume_blocked: back to where the ticket was blocked from, with a comment.
resume_blocked(t, n) ==
  cards' = [cards EXCEPT ![t].st = cards[t].blocked_from, ![t].blocked_from = None,
                         ![t].block_reason = "none", ![t].resumes = @ + n]

Listed(p) == passes[p] = {}
Goes(p, L) ==
  /\ passes' = [passes EXCEPT ![p] = L]
  /\ before' = [before EXCEPT ![p] = [t \in Tickets |-> IF t \in L THEN cards[t].blocks ELSE 0]]
Done(p, t) ==
  /\ passes' = [passes EXCEPT ![p] = @ \ {t}]
  /\ before' = [before EXCEPT ![p][t] = 0]

\* run_upstream_ci_recovery: the parked tickets, if the branch is green.
run_upstream_ci_recovery ==
  LET parked == {t \in Blocked : _last_blocked_note(t) = "upstream"}
  IN /\ Listed("upstream") /\ parked # {} /\ ci.state = "green" /\ Goes("upstream", parked)
     /\ UNCHANGED <<cards, events, ci, escalated>>

AccountParked == {t \in Blocked : _last_blocked_note(t) = "account"}

\* run_infra_account_block_recovery: the operator is told once a window, and
\* the parked tickets come back when hosted CI works.  The marker is written
\* after the message is sent.
SendEscalation ==
  /\ Listed("account") /\ AccountParked # {} /\ ~escalated.recent
  /\ \E lost \in {FALSE} \cup (IF escalated.crashes < MaxCrashes THEN {TRUE} ELSE {}) :
       escalated' = [escalated EXCEPT !.sent = @ + 1, !.recent = ~lost,
                                      !.crashes = IF lost THEN @ + 1 ELSE @]
  /\ UNCHANGED <<cards, events, ci, passes, before>>

run_infra_account_block_recovery ==
  /\ Listed("account") /\ AccountParked # {} /\ escalated.recent
  /\ ci.state = "green" /\ Goes("account", AccountParked)
  /\ UNCHANGED <<cards, events, ci, escalated>>

WindowEnds ==
  /\ escalated.recent /\ escalated.windows < MaxTurns
  /\ escalated' = [escalated EXCEPT !.recent = FALSE, !.windows = @ + 1]
  /\ UNCHANGED <<cards, events, ci, passes, before>>

\* Both resume what they listed; the branch is updated first, which takes time.
ResumeParked(p, t) ==
  /\ t \in passes[p] /\ Done(p, t)
  /\ IF IsBlocked(t) THEN resume_blocked(t, 0) ELSE UNCHANGED cards
  /\ UNCHANGED <<events, ci, escalated>>

\* run_blocked_auto_resume; that it leaves tickets in a deadlock alone is in
\* CycleSearch.
run_blocked_auto_resume ==
  /\ Listed("auto") /\ Blocked # {} /\ Goes("auto", Blocked)
  /\ UNCHANGED <<cards, events, ci, escalated>>

\* Mutant: one retry too many.
MayRetry_OneMore(t) == cards[t].resumes <= MaxPer

\* The resumes of the ticket's whole life, as its comments tell (the oldest
\* comments are purged at max_comments_per_ticket, which is not modelled).
MayRetry(t) == cards[t].resumes < MaxPer

_resume_one(t) ==
  /\ t \in passes["auto"] /\ Done("auto", t)
  /\ IF IsBlocked(t) /\ _last_blocked_note(t) = "timeout" /\ cards[t].cooled /\ MayRetry(t)
     THEN resume_blocked(t, 1) ELSE UNCHANGED cards
  /\ UNCHANGED <<events, ci, escalated>>

\* _blocked_recheck_pass: tickets blocked on workflows that fail on the target.
_blocked_recheck_pass ==
  /\ Listed("recheck") /\ \E t \in Blocked : OnDebt(t)
  /\ Goes("recheck", {t \in Blocked : OnDebt(t)})
  /\ UNCHANGED <<cards, events, ci, escalated>>

\* An ordinary transition, legal from wherever the ticket is by now.
_maybe_resume_target_ci(t) ==
  /\ t \in passes["recheck"] /\ Done("recheck", t)
  /\ IF ci.state = "green" /\ can_transition(cards[t].st, "implement_complete", cards[t].blocked_from, None)
     THEN cards' = [cards EXCEPT ![t].st = "implement_complete", ![t].blocked_from = None, ![t].block_reason = "none"]
     ELSE UNCHANGED cards
  /\ UNCHANGED <<events, ci, escalated>>

\* A person resumes a ticket.
Operator(t) ==
  /\ IsBlocked(t) /\ resume_blocked(t, 0)
  /\ UNCHANGED <<events, ci, passes, escalated, before>>

----------------------------------------------------------------------------

Recheck == _blocked_recheck_pass \/ \E t \in Tickets : _maybe_resume_target_ci(t)
Upstream == run_upstream_ci_recovery \/ \E t \in Tickets : ResumeParked("upstream", t)
Account == SendEscalation \/ run_infra_account_block_recovery \/ \E t \in Tickets : ResumeParked("account", t)
AutoResume == run_blocked_auto_resume \/ \E t \in Tickets : _resume_one(t)

RecoveryNext ==
  \/ \E t \in Tickets : Block(t) \/ add_step_event(t) \/ Cools(t) \/ _maybe_purge_ticket_events(t) \/ Operator(t)
  \/ \E s \in {"green", "red", "pending"} : Turns(s)
  \/ WindowEnds \/ Recheck \/ Upstream \/ Account \/ AutoResume

\* The loops never end, and each survives what its pass raises.
RecoveryFairness ==
  /\ WF_bvars(Recheck) /\ WF_bvars(Upstream) /\ WF_bvars(Account) /\ WF_bvars(AutoResume)
  /\ \A t \in Tickets : WF_bvars(Cools(t))

RecoverySpec == BInit /\ [][RecoveryNext]_bvars /\ RecoveryFairness

----------------------------------------------------------------------------
(* Properties *)

Annotated(t) == IsBlocked(t) /\ Len(events[t]) > 1

\* The reason is neither on record nor in the history any more.
Forgotten(t) == IsBlocked(t) /\ cards[t].block_reason = "none" /\ Head(events[t]) # cards[t].why

\* A ticket blocked on workflows of the target branch comes back once they
\* pass, whatever is noted on it meanwhile, unless its reason was purged.
DebtIsLifted ==
  \A t \in Tickets : <>[](ci.state = "green") =>
    (IsBlocked(t) /\ cards[t].why = "debt" ~> ~IsBlocked(t) \/ Forgotten(t))

\* A ticket parked on a red target or a blocked account comes back once CI
\* passes, if nothing is noted on it while it waits.
ParkedComesBack ==
  \A t \in Tickets : <>[](ci.state = "green") =>
    (IsBlocked(t) /\ events[t] \in {<<"upstream">>, <<"account">>} ~> ~IsBlocked(t) \/ Annotated(t))

\* A retry is taken as often as the budget allows and no more, over the life of
\* the ticket.
RetriesAreBounded == \A t \in Tickets : cards[t].resumes <= MaxPer

\* The operator is told of a blocked account once a window, and once more for
\* every restart between the message and its record.
ToldOnce == escalated.sent <= 1 + escalated.windows + escalated.crashes

\* The reason each pass is for.
Owned == [upstream |-> "upstream", account |-> "account", auto |-> "timeout", recheck |-> "debt"]

Leaves(t) == IsBlocked(t) /\ cards'[t].st # "blocked"

\* A blocked ticket is resumed by the pass that owns what it was blocked for,
\* if it is still in the spell the pass saw, whatever was noted or purged.
ByItsOwner ==
  [][\A t \in Tickets, p \in PassNames :
       Leaves(t) /\ t \in passes[p] /\ t \notin passes'[p] /\ before[p][t] = cards[t].blocks
         => cards[t].why = Owned[p]]_bvars

\* Recovery is sound: nothing comes back for another's reason or too often, and
\* the operator is not told again and again.
RecoveryIsSound == [](BTypeOK /\ RetriesAreBounded /\ ToldOnce) /\ ByItsOwner

\* False: an annotation hides the reason from the upstream and account passes,
\* the shortcut that periodic_passes.py:92 warns of.
AnnotatedComesBack ==
  \A t \in Tickets : <>[](ci.state = "green") =>
    (IsBlocked(t) /\ events[t] = <<"upstream">> ~> ~IsBlocked(t))

\* False once the event that entered BLOCKED is purged.
OldDebtIsLifted ==
  \A t \in Tickets : <>[](ci.state = "green") => (IsBlocked(t) /\ events[t] = <<"debt">> ~> ~IsBlocked(t))

\* False: a ticket blocked anew, for another reason, between a pass's look and
\* its turn is resumed for the old one.
OnlyItsOwner ==
  [][\A t \in Tickets : Leaves(t) /\ events[t] = <<"setting">> => \A p \in PassNames : passes'[p] = passes[p]]_bvars

\* False: the recheck moves a ticket that has left BLOCKED out of its repair.
RecheckOnlyUnblocks ==
  [][\A t \in Tickets : cards[t].st = "fixing_ci" => cards'[t].st \in {"fixing_ci", "blocked"}]_bvars

=============================================================================
