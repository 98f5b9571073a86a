--------------------------- MODULE DependencyFix ---------------------------
(***************************************************************************)
(* Tickets that wait for a fix ticket (stages/dependency_fix.py), the      *)
(* completion that wakes them (_fire_unblocks of the ticket service) and   *)
(* the pass that resumes blocked tickets and reports dependency deadlocks  *)
(* (agents/runners/blocked_auto_resume_runner.py).                         *)
(*                                                                         *)
(* Every ticket meets the same out-of-scope failure, so every run asks for *)
(* the same fix.  A run is the thread of one ticket's stage; its reads and *)
(* writes of the database are separate steps.  Resumes count: a ticket is  *)
(* "active" in whatever state it works in.  Left out: depends_on, whose    *)
(* edge to the fix is set and cleared in one call of the ci_fix stage;     *)
(* priorities, boards, errored fixes, the recency limits of the searches.  *)
(***************************************************************************)
EXTENDS Naturals, FiniteSets

CONSTANTS
  Tickets,       \* the tickets of the board
  Fixes,         \* ids of the fix tickets created later (bounds their number)
  Limits,        \* values of max_concurrency
  MaxPerTicket,  \* blocked_auto_resume_max_per_ticket
  NoTicket

ASSUME DependencyFixConstants ==
  /\ IsFiniteSet(Tickets \cup Fixes) /\ Tickets \cap Fixes = {}
  /\ NoTicket \notin Tickets \cup Fixes
  /\ Limits \subseteq Nat \ {0} /\ MaxPerTicket \in Nat

VARIABLES
  limit,       \* the worker's max_concurrency
  tstate,      \* the ticket's state
  unblocks,    \* its unblocks column
  reason,      \* why it is blocked
  park,        \* history: the fix it was parked on
  thr,         \* the run of its stage
  resumes,     \* [auto-resume comments on it
  reported     \* tickets with a [cycle-detected] comment

dvars == <<limit, tstate, unblocks, reason, park, thr, resumes, reported>>

All == Tickets \cup Fixes

Idle == [pc |-> "idle", fix |-> NoTicket, read |-> {}]

Thread ==
  [pc : {"idle", "create", "enqueue", "check", "wire", "write", "park", "fire"},
   fix : Fixes \cup {NoTicket}, read : SUBSET All]

DTypeOK ==
  /\ limit \in Limits
  /\ tstate \in [All -> {"absent", "draft", "active", "blocked", "done"}]
  /\ unblocks \in [All -> SUBSET All]
  /\ reason \in [All -> {"none", "parked", "resumable", "human"}]
  /\ park \in [All -> Fixes \cup {NoTicket}]
  /\ thr \in [All -> Thread]
  /\ resumes \in [All -> 0..MaxPerTicket]
  /\ reported \subseteq All

DInit ==
  /\ limit \in Limits
  /\ tstate = [t \in All |-> IF t \in Tickets THEN "active" ELSE "absent"]
  /\ unblocks = [t \in All |-> {}]
  /\ reason = [t \in All |-> "none"]
  /\ park = [t \in All |-> NoTicket]
  /\ thr = [t \in All |-> Idle]
  /\ resumes = [t \in All |-> 0]
  /\ reported = {}

Running == {t \in All : thr[t].pc # "idle"}

\* A consumer takes up ticket t.
Starts(t) ==
  /\ tstate[t] = "active" /\ thr[t].pc = "idle"
  /\ Cardinality(Running) < limit

Steps(t, label) == thr' = [thr EXCEPT ![t].pc = label]

-----------------------------------------------------------------------------
(* spawn_dependency_fix *)

\* _label_dedup and _title_dedup: an open ticket for the same failure.
OpenFixes(t) == {x \in Fixes \ {t} : tstate[x] \in {"draft", "active", "blocked"}}

Dedup(t) ==
  /\ Starts(t)
  /\ IF OpenFixes(t) = {} THEN Steps(t, "create")
     ELSE \E x \in OpenFixes(t) : thr' = [thr EXCEPT ![t].pc = "check", ![t].fix = x]
  /\ UNCHANGED <<limit, tstate, unblocks, reason, park, resumes, reported>>

\* _create_fix: the ticket appears as a draft ...
CreateFix(t) ==
  /\ thr[t].pc = "create"
  /\ \E x \in Fixes :
       /\ tstate[x] = "absent"
       /\ tstate' = [tstate EXCEPT ![x] = "draft"]
       /\ thr' = [thr EXCEPT ![t].pc = "enqueue", ![t].fix = x]
  /\ UNCHANGED <<limit, unblocks, reason, park, resumes, reported>>

\* The bound of the model: no more fix tickets to create.
NoMoreFixes(t) ==
  /\ thr[t].pc = "create"
  /\ \A x \in Fixes : tstate[x] # "absent"
  /\ thr' = [thr EXCEPT ![t] = Idle]
  /\ UNCHANGED <<limit, tstate, unblocks, reason, park, resumes, reported>>

\* ... is labelled and made READY.
EnqueueFix(t) ==
  /\ thr[t].pc = "enqueue"
  /\ tstate' = [tstate EXCEPT ![thr[t].fix] = IF @ = "draft" THEN "active" ELSE @]
  /\ Steps(t, "wire")
  /\ UNCHANGED <<limit, unblocks, reason, park, resumes, reported>>

\* _reaches_via_unblocks, by a path of at least one edge: target is in every
\* set that holds what start unblocks and, with a ticket, what that unblocks.
reaches_via_unblocks(start, target) ==
  \A C \in SUBSET All :
    unblocks[start] \subseteq C /\ (\A x \in C : unblocks[x] \subseteq C) => target \in C

Blocks(t, why, fix) ==
  /\ tstate' = [tstate EXCEPT ![t] = "blocked"]
  /\ reason' = [reason EXCEPT ![t] = why]
  /\ park' = [park EXCEPT ![t] = fix]
  /\ thr' = [thr EXCEPT ![t] = Idle]

\* Mutant: the walk goes the wrong way.
CycleRefusal_Reversed(t) ==
  /\ thr[t].pc = "check"
  /\ IF reaches_via_unblocks(thr[t].fix, t) THEN Blocks(t, "human", NoTicket)
     ELSE Steps(t, "wire") /\ UNCHANGED <<tstate, reason, park>>
  /\ UNCHANGED <<limit, unblocks, resumes, reported>>

\* _cycle_refusal_outcome, for a fix that already existed.
CycleRefusal(t) ==
  /\ thr[t].pc = "check"
  /\ IF reaches_via_unblocks(t, thr[t].fix) THEN Blocks(t, "human", NoTicket)
     ELSE Steps(t, "wire") /\ UNCHANGED <<tstate, reason, park>>
  /\ UNCHANGED <<limit, unblocks, resumes, reported>>

\* _existing_unblocks_of
ReadUnblocks(t) ==
  LET x == thr[t].fix
  IN /\ thr[t].pc = "wire"
     /\ thr' = [thr EXCEPT ![t].pc = "write", ![t].read = unblocks[x] \ {x}]
     /\ UNCHANGED <<limit, tstate, unblocks, reason, park, resumes, reported>>

\* Mutant: the fix resumes only the last ticket wired to it.
SetUnblocks_Replace(t) ==
  /\ thr[t].pc = "write"
  /\ unblocks' = [unblocks EXCEPT ![thr[t].fix] = {t}]
  /\ Steps(t, "park")
  /\ UNCHANGED <<limit, tstate, reason, park, resumes, reported>>

\* set_unblocks replaces the column.
SetUnblocks(t) ==
  /\ thr[t].pc = "write"
  /\ unblocks' = [unblocks EXCEPT ![thr[t].fix] = thr[t].read \cup {t}]
  /\ Steps(t, "park")
  /\ UNCHANGED <<limit, tstate, reason, park, resumes, reported>>

\* The outcome is applied.
Park(t) ==
  /\ thr[t].pc = "park"
  /\ Blocks(t, "parked", thr[t].fix)
  /\ UNCHANGED <<limit, unblocks, resumes, reported>>

-----------------------------------------------------------------------------
(* Completion. *)

\* transition() to DONE commits and reads the tickets to wake ...
Completes(t) ==
  /\ Starts(t)
  /\ tstate' = [tstate EXCEPT ![t] = "done"]
  /\ thr' = [thr EXCEPT ![t] = [pc |-> "fire", fix |-> NoTicket, read |-> unblocks[t]]]
  /\ UNCHANGED <<limit, unblocks, reason, park, resumes, reported>>

Wakes(x) ==
  /\ tstate' = [tstate EXCEPT ![x] = "active"]
  /\ reason' = [reason EXCEPT ![x] = "none"]
  /\ park' = [park EXCEPT ![x] = NoTicket]

\* ... and _fire_unblocks resumes each that is blocked.
Fire(t) ==
  /\ thr[t].pc = "fire"
  /\ IF thr[t].read = {} THEN thr' = [thr EXCEPT ![t] = Idle] /\ UNCHANGED <<tstate, reason, park>>
     ELSE \E x \in thr[t].read :
            /\ thr' = [thr EXCEPT ![t].read = @ \ {x}]
            /\ IF tstate[x] = "blocked" THEN Wakes(x) ELSE UNCHANGED <<tstate, reason, park>>
  /\ UNCHANGED <<limit, unblocks, resumes, reported>>

\* A stage blocks its ticket for another reason.
BlocksOtherwise(t) ==
  /\ Starts(t)
  /\ \E why \in {"resumable", "human"} : Blocks(t, why, NoTicket)
  /\ UNCHANGED <<limit, unblocks, resumes, reported>>

-----------------------------------------------------------------------------
(* The pass of blocked_auto_resume_runner.py over the blocked tickets. *)

blocked == {t \in All : tstate[t] = "blocked"}

\* _build_dependency_graph: t waits for x.
WaitsFor(t, x) == t \in unblocks[x]

\* By a path among blocked tickets: x is in every closed set with what t waits for.
WaitsThrough(t, x) ==
  \A C \in SUBSET blocked :
    (\A y \in blocked : (WaitsFor(t, y) \/ \E z \in C : WaitsFor(z, y)) => y \in C) => x \in C

\* The components of more than one ticket (CycleSearch shows that the search
\* of the code finds exactly these).
CycleMembers ==
  {t \in blocked : \E x \in blocked \ {t} : WaitsThrough(t, x) /\ WaitsThrough(x, t)}

\* _detect_and_escalate_cycles
DetectCycles ==
  /\ CycleMembers \ reported # {}
  /\ reported' = reported \cup CycleMembers
  /\ UNCHANGED <<limit, tstate, unblocks, reason, park, thr, resumes>>

\* Mutant: no budget for each ticket.
ResumeOne_NoBudget(t) ==
  /\ tstate[t] = "blocked" /\ reason[t] = "resumable" /\ t \notin CycleMembers
  /\ resumes' = [resumes EXCEPT ![t] = @ + 1]
  /\ Wakes(t)
  /\ UNCHANGED <<limit, unblocks, thr, reported>>

\* _resume_one, for a ticket in no deadlock whose note says it may be retried
\* and whose cooldown is over.
ResumeOne(t) ==
  /\ tstate[t] = "blocked" /\ reason[t] = "resumable"
  /\ resumes[t] < MaxPerTicket /\ t \notin CycleMembers
  /\ resumes' = [resumes EXCEPT ![t] = @ + 1]
  /\ Wakes(t)
  /\ UNCHANGED <<limit, unblocks, thr, reported>>

\* A person resumes the ticket; what was wired stays wired.
OperatorResumes(t) ==
  /\ tstate[t] = "blocked" /\ thr[t].pc = "idle"
  /\ Wakes(t)
  /\ UNCHANGED <<limit, unblocks, thr, resumes, reported>>

Spawn(t) ==
  \/ CreateFix(t) \/ NoMoreFixes(t) \/ EnqueueFix(t) \/ CycleRefusal(t)
  \/ ReadUnblocks(t) \/ SetUnblocks(t) \/ Park(t)

DNext ==
  \/ \E t \in All :
       \/ Dedup(t) \/ Spawn(t) \/ Completes(t) \/ Fire(t) \/ BlocksOtherwise(t)
       \/ ResumeOne(t) \/ OperatorResumes(t)
  \/ DetectCycles

DSpec == DInit /\ [][DNext]_dvars

-----------------------------------------------------------------------------
(* Properties. *)

\* Ticket t is parked and the completion that would wake it is still to come.
WakerExists(t) ==
  LET x == park[t]
  IN \/ tstate[x] # "done" /\ t \in unblocks[x]
     \/ thr[x].pc = "fire" /\ t \in thr[x].read

(* Every ticket parked on a fix is resumed when the fix completes, not     *)
(* just the last one wired to it.                                          *)
ParkedIsResumed == \A t \in All : reason[t] = "parked" => WakerExists(t)

(* The same where the worker runs one stage at a time: wiring and waking   *)
(* agree on the column although they read and write it separately.         *)
ParkedIsResumedSerially == limit = 1 => ParkedIsResumed

(* One stage at a time, the refusal keeps the tickets the pass would       *)
(* report as a deadlock from ever existing, whichever fixes are reused,    *)
(* resumed by hand or woken by a stale edge before.                        *)
NoDeadlockSerially == limit = 1 => CycleMembers = {}

(* With one stage at a time, every parked ticket has something that will   *)
(* resume it, and no tickets wait for one another.                         *)
SerialParkingIsSound == DTypeOK /\ ParkedIsResumedSerially /\ NoDeadlockSerially

=============================================================================
