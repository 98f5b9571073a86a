-------------------------- MODULE ImplementBudget --------------------------
(***************************************************************************)
(* What decides whether a READY ticket may start another implement run:    *)
(* the preflight guards of stages/implement/phase_coordinator_preflight.py,*)
(* the artifact files _finalize leaves behind, the in-flight marker that   *)
(* tells a killed run from a finished one, and the resume paths of the     *)
(* ticket service that reset them.                                         *)
(*                                                                         *)
(* One ticket.  Each file write the process may die after is a step.  A    *)
(* timed-out run keeps its thread: it ends late, beside its successor.     *)
(* Left out: guards that read the ticket, spec or configuration only       *)
(* (epic, deployment, empty spec, scope, tools), and wording of notes.     *)
(***************************************************************************)
EXTENDS Naturals

CONSTANTS
  Specs,        \* fingerprints of the spec
  Summaries,    \* fingerprints of a run's summary
  None,
  SpawnLimit,   \* implement_max_spawns_per_ticket
  StallLimit,   \* implement_stall_threshold
  ZeroLimit,    \* implement_zero_diff_abort_threshold
  MaxFaults     \* bound: kills and timeouts

ASSUME ImplementBudgetConstants ==
  /\ None \notin Specs \cup Summaries
  /\ SpawnLimit \in Nat \ {0} /\ StallLimit \in Nat \ {0} /\ ZeroLimit \in Nat \ {0}
  /\ MaxFaults \in Nat

VARIABLES
  ist,    \* state of the ticket; "later" is any stage after implement
  retry,  \* retry_attempt > 0
  spec,   \* fingerprint of the spec
  art,    \* the artifact files
  run,    \* the run: where it is, whether it was charged, what it will apply
  late,   \* a timed-out thread still runs
  hist    \* history: charged runs ended since the budget was reset (ran), equal
          \* failures in a row (sum, same), runs without a diff in a row (zero),
          \* faults, those of them that refund a run which was not killed (extra),
          \* and whether a person has just granted a run

bvars == <<ist, retry, spec, art, run, late, hist>>

Cap(n, max) == IF n > max THEN max ELSE n

BTypeOK ==
  /\ ist \in {"ready", "blocked", "awaiting", "later"}
  /\ retry \in BOOLEAN /\ spec \in Specs /\ late \in BOOLEAN
  /\ art \in [count : 0..SpawnLimit, marker : {"none", "counted", "free"},
              exhaustedOn : Specs \cup {None}, exhausted : 0..2,
              md : {"none", "passed", "transient", "blocked"}, mdSpec : Specs \cup {None},
              mdSum : Summaries \cup {None}, mdStall : 0..StallLimit,
              ssSum : Summaries \cup {None}, ssStall : 0..StallLimit,
              zd : 0..ZeroLimit, asked : BOOLEAN, override : Specs \cup {None}]
  /\ run \in [pc : {"idle", "absorb", "unmark", "check", "count", "mark", "agent", "clear", "apply"},
              charged : BOOLEAN, dst : {"blocked", "awaiting", "ready", "later"}]
  /\ hist.ran \in Nat /\ hist.faults \in 0..MaxFaults /\ hist.extra \in 0..MaxFaults

Idle == [pc |-> "idle", charged |-> FALSE, dst |-> "blocked"]

BInit ==
  /\ ist = "ready" /\ retry = FALSE /\ spec \in Specs /\ late = FALSE
  /\ art = [count |-> 0, marker |-> "none", exhaustedOn |-> None, exhausted |-> 0,
            md |-> "none", mdSpec |-> None, mdSum |-> None, mdStall |-> 0,
            ssSum |-> None, ssStall |-> 0, zd |-> 0, asked |-> FALSE, override |-> None]
  /\ run = Idle
  /\ hist = [ran |-> 0, sum |-> None, same |-> 0, zero |-> 0,
             faults |-> 0, extra |-> 0, granted |-> FALSE]

Goes(label) == run' = [run EXCEPT !.pc = label]

-----------------------------------------------------------------------------
(* run_preflight_checks *)

Starts ==
  /\ ist = "ready" /\ run.pc = "idle"
  /\ Goes(IF art.marker = "none" THEN "check" ELSE "absorb")
  /\ UNCHANGED <<ist, retry, spec, art, late, hist>>

\* detect_and_absorb_killed_spawn: a charged run is refunded ...
Refund ==
  /\ run.pc = "absorb"
  /\ art' = [art EXCEPT !.count = IF art.marker = "counted" /\ @ > 0 THEN @ - 1 ELSE @]
  /\ Goes("unmark")
  /\ UNCHANGED <<ist, retry, spec, late, hist>>

\* ... then the marker goes (clear_spawn_in_flight).
Unmark ==
  /\ run.pc = "unmark"
  /\ art' = [art EXCEPT !.marker = "none"]
  /\ Goes("check")
  /\ UNCHANGED <<ist, retry, spec, late, hist>>

StallCount(a) == IF a.md # "none" /\ a.mdStall > 0 THEN a.mdStall ELSE a.ssStall

\* Mutant: one run too many.
Verdict_OneMore(a) ==
  IF a.count > SpawnLimit THEN "spawns"
  ELSE IF a.md = "blocked" /\ a.override # spec /\ a.mdSpec = spec THEN "unchanged"
  ELSE IF StallCount(a) >= StallLimit THEN "stalled"
  ELSE IF a.zd >= ZeroLimit /\ ~a.asked THEN "zero_diff"
  ELSE "pass"

\* The first guard that objects.
Verdict(a) ==
  IF a.count >= SpawnLimit THEN "spawns"
  ELSE IF a.md = "blocked" /\ a.override # spec /\ a.mdSpec = spec THEN "unchanged"
  ELSE IF StallCount(a) >= StallLimit THEN "stalled"
  ELSE IF a.zd >= ZeroLimit /\ ~a.asked THEN "zero_diff"
  ELSE "pass"

\* Spawn limit: the marker of a repeated exhaustion on one spec counts up.
Exhausted ==
  /\ run.pc = "check" /\ Verdict(art) = "spawns"
  /\ art' = [art EXCEPT !.exhausted = IF art.exhaustedOn = spec THEN Cap(@ + 1, 2) ELSE 1,
                        !.exhaustedOn = spec]
  /\ ist' = "blocked" /\ retry' = FALSE /\ run' = Idle
  /\ hist' = [hist EXCEPT !.granted = FALSE]
  /\ UNCHANGED <<spec, late>>

Refused ==
  /\ run.pc = "check" /\ Verdict(art) \in {"unchanged", "stalled"}
  /\ ist' = "blocked" /\ retry' = FALSE /\ run' = Idle
  /\ hist' = [hist EXCEPT !.granted = FALSE]
  /\ UNCHANGED <<spec, art, late>>

\* Zero-diff early abort: the operator is asked, once.
AskOperator ==
  /\ run.pc = "check" /\ Verdict(art) = "zero_diff"
  /\ art' = [art EXCEPT !.asked = TRUE]
  /\ ist' = "awaiting" /\ retry' = FALSE /\ run' = Idle
  /\ hist' = [hist EXCEPT !.granted = FALSE]
  /\ UNCHANGED <<spec, late>>

Allowed ==
  /\ run.pc = "check" /\ Verdict(art) = "pass"
  /\ art' = IF art.zd >= ZeroLimit THEN [art EXCEPT !.zd = 0, !.asked = FALSE] ELSE art
  /\ hist' = [hist EXCEPT !.granted = FALSE, !.zero = IF art.zd >= ZeroLimit THEN 0 ELSE @]
  /\ Goes("count")
  /\ UNCHANGED <<ist, retry, spec, late>>

\* Only a run that is no transient retry is charged ...
CountSpawn ==
  /\ run.pc = "count"
  /\ art' = [art EXCEPT !.count = IF retry THEN @ ELSE @ + 1]
  /\ run' = [run EXCEPT !.pc = "mark", !.charged = ~retry]
  /\ UNCHANGED <<ist, retry, spec, late, hist>>

\* ... and write_spawn_in_flight says so.
MarkSpawn ==
  /\ run.pc = "mark"
  /\ art' = [art EXCEPT !.marker = IF run.charged THEN "counted" ELSE "free"]
  /\ Goes("agent")
  /\ UNCHANGED <<ist, retry, spec, late, hist>>

-----------------------------------------------------------------------------
(* The run and its end. *)

\* _finalize_impl: failures with the same summary in a row.
stall_count(a, kind, sum) ==
  LET oldSum == IF a.md # "none" THEN a.mdSum ELSE a.ssSum
      old == IF a.md # "none" THEN a.mdStall ELSE a.ssStall
  IN CASE kind = "transient" -> old
       [] kind = "ok" -> 0
       [] OTHER -> IF oldSum = sum THEN Cap(old + 1, StallLimit) ELSE 0

\* Mutant: a run that succeeds without a change clears the count.
zero_diff_count_OkResets(a, kind, diff) ==
  IF kind = "transient" THEN a.zd ELSE IF diff \/ kind = "ok" THEN 0 ELSE Cap(a.zd + 1, ZeroLimit)

\* _finalize_impl: runs without a change in a row.
zero_diff_count(a, kind, diff) ==
  IF kind = "transient" THEN a.zd ELSE IF diff THEN 0 ELSE Cap(a.zd + 1, ZeroLimit)

\* _finalize_impl: the files after a run with the given result.
finalize(a, kind, sum, diff) ==
  LET stall == stall_count(a, kind, sum)
  IN [a EXCEPT
        !.md = CASE kind = "ok" -> "passed" [] kind = "transient" -> kind [] OTHER -> "blocked",
        !.mdSpec = IF kind \in {"ok", "failed"} THEN spec ELSE None,
        !.mdSum = sum, !.mdStall = stall, !.ssSum = sum, !.ssStall = stall,
        !.zd = zero_diff_count(a, kind, diff),
        !.asked = @ /\ kind = "transient"]

\* "unspecific": a failure recorded without the spec's fingerprint.
Kinds == {"ok", "failed", "unspecific", "transient"}

Observed(kind, sum, diff) ==
  [hist EXCEPT
     !.sum = IF kind \in {"failed", "unspecific"} THEN sum ELSE None,
     !.same = IF kind \in {"failed", "unspecific"} /\ @ > 0 /\ hist.sum = sum
              THEN Cap(@ + 1, StallLimit + 2)
              ELSE IF kind \in {"failed", "unspecific"} THEN 1 ELSE 0,
     !.zero = IF kind = "transient" THEN @ ELSE IF diff THEN 0 ELSE Cap(@ + 1, ZeroLimit + 1),
     !.granted = FALSE]

\* What the stage returns after each result.
Destinations(kind) ==
  CASE kind = "ok" -> {"later"} [] kind = "failed" -> {"blocked", "awaiting"}
    [] kind = "unspecific" -> {"blocked", "ready"} [] OTHER -> {"blocked"}

AgentEnds ==
  /\ run.pc = "agent"
  /\ \E kind \in Kinds, sum \in Summaries, diff \in BOOLEAN :
       /\ art' = finalize(art, kind, sum, diff)
       /\ hist' = Observed(kind, sum, diff)
       /\ \E dst \in Destinations(kind) : run' = [run EXCEPT !.pc = "clear", !.dst = dst]
  /\ UNCHANGED <<ist, retry, spec, late>>

\* A gate before or after the agent returns without _finalize: the files stay.
EndsUnrecorded ==
  /\ run.pc = "agent"
  /\ \E dst \in {"blocked", "ready", "later"} : run' = [run EXCEPT !.pc = "clear", !.dst = dst]
  /\ hist' = [hist EXCEPT !.granted = FALSE]
  /\ UNCHANGED <<ist, retry, spec, art, late>>

\* Mutant: the marker outlives the run.
ClearMarker_Leaves ==
  /\ run.pc = "clear"
  /\ hist' = [hist EXCEPT !.ran = IF run.charged THEN @ + 1 ELSE @]
  /\ Goes("apply")
  /\ UNCHANGED <<ist, retry, spec, art, late>>

\* ImplementStage.run: the finally clause.
ClearMarker ==
  /\ run.pc = "clear"
  /\ art' = [art EXCEPT !.marker = "none"]
  /\ hist' = [hist EXCEPT !.ran = IF run.charged THEN @ + 1 ELSE @]
  /\ Goes("apply")
  /\ UNCHANGED <<ist, retry, spec, late>>

\* The driver applies the outcome; progress resets the budget
\* (_reset_implement_spawn_counter).
Applies ==
  /\ run.pc = "apply"
  /\ ist' = run.dst /\ retry' = FALSE /\ run' = Idle
  /\ IF run.dst = "later"
     THEN /\ art' = [art EXCEPT !.count = 0, !.exhausted = 0, !.exhaustedOn = None]
          /\ hist' = [hist EXCEPT !.ran = 0]
     ELSE UNCHANGED <<art, hist>>
  /\ UNCHANGED <<spec, late>>

\* _handle_stage_error: retried later, or blocked when the retries are used up.
RetryOrBlock == (retry' = TRUE /\ UNCHANGED ist) \/ (ist' = "blocked" /\ UNCHANGED retry)

\* A transient error leaves the stage; its finally clause runs.
RaisesTransient ==
  /\ run.pc = "agent"
  /\ art' = [art EXCEPT !.marker = "none"]
  /\ hist' = [hist EXCEPT !.ran = IF run.charged THEN @ + 1 ELSE @]
  /\ RetryOrBlock /\ run' = Idle
  /\ UNCHANGED <<spec, late>>

\* The stage's deadline passes.  Its thread cannot be stopped.
TimesOut ==
  /\ run.pc = "agent" /\ ~late /\ hist.faults < MaxFaults
  /\ late' = TRUE
  /\ hist' = [hist EXCEPT !.faults = @ + 1, !.extra = @ + 1,
                          !.ran = IF run.charged THEN @ + 1 ELSE @]
  /\ RetryOrBlock /\ run' = Idle
  /\ UNCHANGED <<spec, art>>

\* The abandoned thread ends: it writes its files and clears the marker,
\* whoever wrote it; its outcome is dropped.
LateEnds ==
  /\ late /\ late' = FALSE
  /\ \E kind \in Kinds, sum \in Summaries, diff \in BOOLEAN :
       /\ art' = [finalize(art, kind, sum, diff) EXCEPT !.marker = "none"]
       /\ hist' = [hist EXCEPT !.granted = FALSE, !.same = 0,
                               !.zero = IF kind # "transient" /\ diff THEN 0 ELSE @]
  /\ UNCHANGED <<ist, retry, spec, run>>

\* The process dies and starts again.
Crash ==
  /\ hist.faults < MaxFaults
  /\ run' = Idle /\ late' = FALSE
  /\ hist' = [hist EXCEPT !.faults = @ + 1, !.extra = IF run.pc = "unmark" THEN @ + 1 ELSE @]
  /\ UNCHANGED <<ist, retry, spec, art>>

-----------------------------------------------------------------------------
(* What people and the service do. *)

\* Mutant: every resume clears the count.
stall_state_Resets(a, resetStall) == 0

\* Mutant: no resume clears the count.
stall_state_Keeps(a, resetStall) == IF a.md # "none" THEN a.mdStall ELSE a.ssStall

\* _persist_stall_state_from_implement_md: the count a resume leaves.
stall_state(a, resetStall) ==
  IF resetStall THEN 0 ELSE IF a.md # "none" THEN a.mdStall ELSE a.ssStall

\* _clear_stale_implement_guard, with _persist_spec_fingerprint_override.
cleared(a, resetStall) ==
  [a EXCEPT
     !.ssSum = IF a.md # "none" THEN a.mdSum ELSE @,
     !.ssStall = stall_state(a, resetStall),
     !.override = IF a.md # "none" /\ a.mdSpec # None THEN a.mdSpec ELSE @,
     !.md = "none", !.mdSpec = None, !.mdSum = None, !.mdStall = 0]

NewInput(note) == [hist EXCEPT !.same = IF note THEN 0 ELSE @]

\* resume_blocked, with or without a note.
resume_blocked(note) ==
  LET hold == art.exhausted >= 2 /\ art.exhaustedOn = spec /\ ~note
      reset == art.count >= SpawnLimit /\ ~hold
      zero == art.zd >= ZeroLimit
  IN /\ ist = "blocked" /\ run.pc = "idle"
     /\ ist' = "ready" /\ retry' = FALSE
     /\ art' = [cleared(art, note) EXCEPT
                  !.count = IF reset THEN 0 ELSE @, !.marker = IF reset THEN "none" ELSE @,
                  !.zd = IF zero THEN 0 ELSE @, !.asked = @ /\ ~zero]
     /\ hist' = [NewInput(note) EXCEPT !.ran = IF reset THEN 0 ELSE @,
                                       !.extra = IF reset THEN 0 ELSE @,
                                       !.zero = IF zero THEN 0 ELSE @, !.granted = note]
     /\ UNCHANGED <<spec, run, late>>

\* transition(READY) by hand.
MoveToReady(note) ==
  /\ ist \in {"blocked", "awaiting"} /\ run.pc = "idle"
  /\ ist' = "ready"
  /\ art' = cleared(art, note)
  /\ hist' = NewInput(note)
  /\ UNCHANGED <<retry, spec, run, late>>

\* Every question is closed: _check_auto_resume.  The reply to the zero-diff
\* question promises one fresh run.
Answered ==
  /\ ist = "awaiting" /\ run.pc = "idle"
  /\ ist' = "ready"
  /\ art' = cleared(art, TRUE)
  /\ hist' = [NewInput(TRUE) EXCEPT !.granted = art.asked]
  /\ UNCHANGED <<retry, spec, run, late>>

\* request_changes on the pull request.
request_changes ==
  /\ ist = "later" /\ ist' = "ready"
  /\ art' = [cleared(art, TRUE) EXCEPT !.count = 0, !.exhausted = 0, !.exhaustedOn = None]
  /\ hist' = [NewInput(TRUE) EXCEPT !.ran = 0]
  /\ UNCHANGED <<retry, spec, run, late>>

\* The reviewer sends the ticket back.
ReviewRejects ==
  /\ ist = "later" /\ ist' = "ready"
  /\ UNCHANGED <<retry, spec, art, run, late, hist>>

reset_fingerprint ==
  /\ run.pc = "idle" /\ (art.md # "none" \/ art.override # None)
  /\ art' = [art EXCEPT !.md = "none", !.mdSpec = None, !.mdSum = None, !.mdStall = 0,
                        !.override = None]
  /\ UNCHANGED <<ist, retry, spec, run, late, hist>>

EditSpec ==
  /\ run.pc = "idle"
  /\ \E s \in Specs \ {spec} : spec' = s
  /\ UNCHANGED <<ist, retry, art, run, late, hist>>

BNext ==
  \/ Starts \/ Refund \/ Unmark \/ Exhausted \/ Refused \/ AskOperator \/ Allowed
  \/ CountSpawn \/ MarkSpawn \/ AgentEnds \/ EndsUnrecorded \/ ClearMarker \/ Applies
  \/ RaisesTransient \/ TimesOut \/ LateEnds \/ Crash
  \/ \E note \in BOOLEAN : resume_blocked(note) \/ MoveToReady(note)
  \/ Answered \/ request_changes \/ ReviewRejects \/ reset_fingerprint \/ EditSpec

BSpec == BInit /\ [][BNext]_bvars

-----------------------------------------------------------------------------
(* Properties. *)

(* However runs are killed, retried and resumed, no more charged runs end  *)
(* between two resets of the budget than the limit allows, except one for  *)
(* each run that timed out and each kill that hits the refund itself.      *)
SpawnBudget == hist.ran <= SpawnLimit + hist.extra

(* The same failure in a row stops the runs until a person says something  *)
(* new: a bare resume does not buy another try.                            *)
StallStops == hist.same <= StallLimit + 1

(* Runs that change nothing stop after the configured number: the operator *)
(* is asked before the next one.                                           *)
ZeroDiffStops == hist.zero <= ZeroLimit

(* A resume with a note, and the reply to the zero-diff question, do buy a *)
(* run: no guard stops the ticket again at once.                           *)
GrantIsHonoured ==
  hist.granted /\ ist = "ready" /\ run.pc = "idle" => Verdict(art) = "pass"

(* The budgets of implement hold together, over crashes, timeouts, resumes *)
(* and grants: each stops the runs it counts and none stops a granted one. *)
BudgetsHold == BTypeOK /\ SpawnBudget /\ StallStops /\ ZeroDiffStops /\ GrantIsHonoured

=============================================================================
