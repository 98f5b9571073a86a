--------------------------- MODULE ImplementLoop ---------------------------
(***************************************************************************)
(* The fix loop of the implement stage (_implement_loop and                *)
(* _run_single_implement_pass): a coding agent edits, gates object or not, *)
(* and between two passes the loop decides whether it is stuck.  The       *)
(* stuck-loop counters are attributes of the stage class, so every loop of *)
(* the process shares them.                                                *)
(*                                                                         *)
(* A ticket's branch is three things: uncommitted changes (dirty), commits *)
(* ahead of the target (ahead) and the out-of-scope files the branch       *)
(* changes (oos).  The agent, the reviewers of scope and the tests are     *)
(* models: any of their answers may come.  Every ticket declares its files *)
(* (without a file map the guardrail is off) and lives in one repository.  *)
(***************************************************************************)
EXTENDS Naturals, FiniteSets

CONSTANTS
  Tickets,
  OutFiles,       \* files outside the declared scope that a pass may touch
  MaxIters,       \* max_fix_iterations
  StuckPasses,    \* _STUCK_NO_DIFF_PASSES
  StuckCalls,     \* _STUCK_MAX_TOOL_CALLS_NO_DIFF, in passes that call tools
  MaxExpands,     \* _MAX_SCOPE_TRIAGE_EXPANDS
  MaxRuns,        \* bound: runs of the stage for each ticket
  Concurrency     \* values of max_concurrency

ASSUME ImplementLoopConstants ==
  /\ IsFiniteSet(Tickets) /\ IsFiniteSet(OutFiles)
  /\ MaxIters \in Nat \ {0} /\ StuckPasses \in Nat \ {0} /\ StuckCalls \in Nat \ {0}
  /\ MaxExpands \in Nat /\ MaxRuns \in Nat /\ Concurrency \subseteq Nat \ {0}

VARIABLES
  slots,     \* max_concurrency
  passes,    \* _stuck_no_diff_passes, shared
  calls,     \* _stuck_total_tool_calls_no_diff, shared
  loop,      \* the loop of each ticket
  tree,      \* its branch
  scope,     \* file_map of the run, and the triage events of its history
  base,      \* baseline_check.json: what the tests said of the target
  result,    \* what the last run returned
  own        \* history: what passes would be, had the ticket a counter of its own

lvars == <<slots, passes, calls, loop, tree, scope, base, result, own>>

Least(m, n) == IF m < n THEN m ELSE n

Feedback == {"none", "verify", "deferred", "tests", "environment", "claims"}

LTypeOK ==
  /\ slots \in Concurrency
  /\ passes \in 0..StuckPasses /\ calls \in 0..StuckCalls
  /\ loop \in [Tickets ->
       [pc : {"idle", "setup", "gates", "baseline", "agent", "summary", "scope", "tests", "delivery", "stuck", "judge"},
        attempt : 0..MaxIters, did : {"nothing", "reads", "edits", "bypass"}, feedback : Feedback,
        repeats : 0..3, runs : 0..MaxRuns, np : 0..StuckPasses, nc : 0..StuckCalls]]
  /\ own \in [Tickets -> 0..StuckPasses]
  /\ tree \in [Tickets -> [dirty : BOOLEAN, ahead : BOOLEAN, oos : SUBSET OutFiles]]
  /\ scope \in [Tickets -> [map : SUBSET OutFiles, expands : 0..MaxExpands,
                            split : SUBSET OutFiles, cleared : SUBSET OutFiles,
                            bounced : SUBSET OutFiles]]
  /\ base \in [Tickets -> {"none", "passed", "failed"}]
  /\ result \in [Tickets -> {"none", "blocked", "stuck", "ready", "awaiting", "epic", "rebasing",
                             "review", "done", "deliverable"}]

NoLoop == [pc |-> "idle", attempt |-> 0, did |-> "nothing", feedback |-> "none",
           repeats |-> 0, runs |-> 0, np |-> 0, nc |-> 0]

LInit ==
  /\ slots \in Concurrency /\ passes = 0 /\ calls = 0
  /\ loop = [t \in Tickets |-> NoLoop]
  /\ own = [t \in Tickets |-> 0]
  /\ tree = [t \in Tickets |-> [dirty |-> FALSE, ahead |-> FALSE, oos |-> {}]]
  /\ scope = [t \in Tickets |-> [map |-> {}, expands |-> 0, split |-> {}, cleared |-> {},
                                 bounced |-> {}]]
  /\ base = [t \in Tickets |-> "none"]
  /\ result = [t \in Tickets |-> "none"]

LoopGoes(t, label) == loop' = [loop EXCEPT ![t].pc = label]

\* The run returns r without touching the branch.
Returns(t, r) ==
  /\ loop' = [loop EXCEPT ![t] = [NoLoop EXCEPT !.runs = loop[t].runs]]
  /\ result' = [result EXCEPT ![t] = r]

\* _finalize commits what is dirty and the run returns r.
Commits(t, r) ==
  /\ Returns(t, r)
  /\ tree' = [tree EXCEPT ![t].ahead = @ \/ tree[t].dirty, ![t].dirty = FALSE]

\* The pass is to be repeated with the given feedback.
Retries(t, why) ==
  loop' = [loop EXCEPT
             ![t].pc = "stuck", ![t].feedback = why,
             ![t].repeats = IF why = "none" THEN 0
                            ELSE IF why = loop[t].feedback THEN Least(@ + 1, 3) ELSE 1]

-----------------------------------------------------------------------------
(* _implement_loop *)

\* Mutant: the counters outlive the loop.
StartLoop_KeepsCounters(t) ==
  /\ loop[t].pc = "idle" /\ loop[t].runs < MaxRuns
  /\ result[t] \in {"none", "blocked", "stuck", "ready", "awaiting", "rebasing"}
  /\ Cardinality({u \in Tickets : loop[u].pc # "idle"}) < slots
  /\ loop' = [loop EXCEPT ![t] = [NoLoop EXCEPT !.pc = "setup", !.attempt = 1,
                                                   !.runs = loop[t].runs + 1]]
  /\ scope' = [scope EXCEPT ![t].map = {}] /\ own' = [own EXCEPT ![t] = 0]
  /\ UNCHANGED <<slots, base, passes, calls, tree, result>>

\* The loop starts: its context is loaded and the shared counters are reset.
StartLoop(t) ==
  /\ loop[t].pc = "idle" /\ loop[t].runs < MaxRuns
  /\ result[t] \in {"none", "blocked", "stuck", "ready", "awaiting", "rebasing"}
  /\ Cardinality({u \in Tickets : loop[u].pc # "idle"}) < slots
  /\ loop' = [loop EXCEPT ![t] = [NoLoop EXCEPT !.pc = "setup", !.attempt = 1,
                                                   !.runs = loop[t].runs + 1]]
  /\ scope' = [scope EXCEPT ![t].map = {}] /\ own' = [own EXCEPT ![t] = 0]
  /\ passes' = 0 /\ calls' = 0
  /\ UNCHANGED <<slots, base, tree, result>>

resuming(t) == loop[t].runs > 1
HasDiff(t) == tree[t].dirty \/ tree[t].ahead

\* _clone_and_branch: the clone or the checkout fails, the rebase onto the target
\* conflicts, a transient error is raised; work left uncommitted on an empty
\* branch is committed.
CloneAndBranch(t) ==
  /\ loop[t].pc = "setup"
  /\ \/ \E r \in {"blocked", "rebasing", "ready"} : Returns(t, r)
     \/ LoopGoes(t, "gates") /\ UNCHANGED result
  /\ tree' = [tree EXCEPT ![t].ahead = @ \/ tree[t].dirty,
                          ![t].dirty = @ /\ tree[t].ahead]
  /\ UNCHANGED <<slots, base, passes, calls, own, scope>>

\* The prepare hook, an empty spec, an unmet prerequisite; an unclassified gap
\* that has closed.
PrerequisiteGate(t) ==
  /\ loop[t].pc = "gates"
  /\ \/ \E r \in {"blocked", "done"} : Returns(t, r)
     \/ LoopGoes(t, "baseline") /\ UNCHANGED result
  /\ UNCHANGED <<slots, base, passes, calls, own, tree, scope>>

\* _run_baseline_check: the tests of the target, run once and remembered.  The
\* target may have moved, or its fix be done, since they failed.
BaselinePasses(t) ==
  /\ loop[t].pc = "baseline"
  /\ base' = [base EXCEPT ![t] = "passed"]
  /\ LoopGoes(t, "agent")
  /\ UNCHANGED <<slots, passes, calls, own, tree, scope, result>>

\* Failing tests park the ticket on a fix (module DependencyFix).
BaselineFails(t) ==
  /\ loop[t].pc = "baseline" /\ base[t] # "passed"
  /\ base' = [base EXCEPT ![t] = "failed"]
  /\ IF base[t] = "failed" THEN Returns(t, "blocked") /\ UNCHANGED tree
     ELSE Commits(t, "blocked")
  /\ UNCHANGED <<slots, passes, calls, own, scope>>

BaselineRaises(t) ==
  /\ loop[t].pc = "baseline" /\ base[t] # "passed"
  /\ Returns(t, "ready")
  /\ UNCHANGED <<slots, base, passes, calls, own, tree, scope>>

\* A resumed branch that equals its target is done; one whose head is green on
\* the forge and has no request is delivered.
ResumeShortcut(t) ==
  /\ loop[t].pc = "agent" /\ loop[t].attempt = 1 /\ loop[t].did = "nothing" /\ resuming(t)
  /\ \/ ~tree[t].ahead /\ Commits(t, "done")
     \/ tree[t].ahead /\ Returns(t, "deliverable") /\ UNCHANGED tree
  /\ UNCHANGED <<slots, base, passes, calls, own, scope>>

\* _select_agent_level: without feedback, a change that is a rename, a trivial
\* configuration file or code given by the spec needs no agent.
Bypass(t) ==
  /\ loop[t].pc = "agent" /\ loop[t].feedback = "none"
  /\ loop' = [loop EXCEPT ![t].pc = "scope", ![t].did = "bypass"]
  /\ UNCHANGED <<slots, base, passes, calls, own, scope, result>>
  /\ \/ HasDiff(t) /\ UNCHANGED tree                     \* rename or configuration
     \/ tree' = [tree EXCEPT ![t].dirty = TRUE]          \* _handle_spec_exact_edits

\* None of the spec's blocks could be applied.
BypassFails(t) ==
  /\ loop[t].pc = "agent" /\ loop[t].feedback = "none"
  /\ loop' = [loop EXCEPT ![t].pc = "stuck", ![t].did = "bypass", ![t].feedback = "claims",
                          ![t].repeats = 1]
  /\ UNCHANGED <<slots, base, passes, calls, own, tree, scope, result>>

\* _invoke_implement_agent: the agent does nothing, reads, or edits; edits may
\* leave no difference and may touch files out of scope.
AgentWorks(t) ==
  /\ loop[t].pc = "agent"
  /\ \E did \in {"nothing", "reads", "edits"} :
       /\ loop' = [loop EXCEPT ![t].pc = "summary", ![t].did = did]
       /\ IF did = "edits"
          THEN \E dirty \in BOOLEAN, touched \in SUBSET OutFiles :
                 /\ touched # {} => dirty
                 /\ tree' = [tree EXCEPT ![t].dirty = @ \/ dirty, ![t].oos = @ \cup touched]
          ELSE UNCHANGED tree
  /\ UNCHANGED <<slots, base, passes, calls, own, scope, result>>

\* The agent fails, runs out of its budget (maybe_autosplit_on_budget_cap makes
\* the ticket an epic) or asks the operator (_maybe_handle_pause).
AgentStops(t) ==
  /\ loop[t].pc = "agent"
  /\ \/ \E r \in {"blocked", "awaiting"} : Commits(t, r)
     \/ (tree[t].dirty \/ tree[t].ahead) /\ Returns(t, "epic") /\ UNCHANGED tree
  /\ UNCHANGED <<slots, base, passes, calls, own, scope>>

-----------------------------------------------------------------------------
(* _run_single_implement_pass after the agent. *)

\* _run_summary_verification, then _run_deferred_spec_gate: each sends the agent
\* back once, and blocks when its own feedback did not help.
CheckSummary(t) ==
  /\ loop[t].pc = "summary"
  /\ \/ LoopGoes(t, "scope") /\ UNCHANGED result
     \/ \E gate \in {"verify", "deferred"} :
          IF loop[t].feedback = gate THEN Returns(t, "blocked")
          ELSE Retries(t, gate) /\ UNCHANGED result
  /\ UNCHANGED <<slots, base, passes, calls, own, tree, scope>>

OutOfScope(t) == tree[t].oos \ scope[t].map

\* _run_scope_guardrail lets files through that the spec cites or that
\* docs/modules.yaml follows from ...
Accepts(t, files) ==
  /\ loop[t].pc = "scope" /\ files # {}
  /\ scope' = [scope EXCEPT ![t].map = @ \cup files, ![t].cleared = @ \cup files]
  /\ UNCHANGED <<slots, base, passes, calls, own, loop, tree, result>>

SpecCites(t) == \E files \in SUBSET OutOfScope(t) : Accepts(t, files)

\* ... ignores vendored ones (_filter_vendored_deps) ...
FilterVendored(t) == \E files \in SUBSET OutOfScope(t) : Accepts(t, files)

\* ... and takes back binary artifacts and standard configuration.
Drops(t, files) ==
  /\ loop[t].pc = "scope" /\ files # {}
  /\ tree' = [tree EXCEPT ![t].oos = @ \ files]
  /\ UNCHANGED <<slots, base, passes, calls, own, loop, scope, result>>

CleanBinaryArtifacts(t) == \E files \in SUBSET OutOfScope(t) : Drops(t, files)
RevertStandardConfigs(t) == \E files \in SUBSET OutOfScope(t) : Drops(t, files)

\* Files an operator's note accepted (_operator_escalation_resolution).
OperatorAccepts(t) ==
  /\ resuming(t)
  /\ \E files \in SUBSET OutOfScope(t) : Accepts(t, files)

ScopeClean(t) ==
  /\ loop[t].pc = "scope" /\ OutOfScope(t) = {}
  /\ LoopGoes(t, "tests")
  /\ UNCHANGED <<slots, base, passes, calls, own, tree, scope, result>>

\* _guard_repo_settings_file: a broken settings file blocks, in scope or not.
RepoSettingsGuard(t) ==
  /\ loop[t].pc = "scope" /\ HasDiff(t)
  /\ Commits(t, "blocked")
  /\ UNCHANGED <<slots, base, passes, calls, own, scope>>

\* Too many files, or triage is off.
FloodGuard(t) ==
  /\ loop[t].pc = "scope" /\ OutOfScope(t) # {}
  /\ Commits(t, "blocked")
  /\ UNCHANGED <<slots, base, passes, calls, own, scope>>

\* Verdict ESCALATE, or the triage agent fails; a transient failure is raised.
Escalate(t) ==
  /\ loop[t].pc = "scope" /\ OutOfScope(t) # {}
  /\ Commits(t, "blocked") \/ (Returns(t, "ready") /\ UNCHANGED tree)
  /\ UNCHANGED <<slots, base, passes, calls, own, scope>>

\* restore_paths: the files go; what remains of the working tree is open.
Restores(t) ==
  \E dirty \in BOOLEAN :
    tree' = [tree EXCEPT ![t].oos = @ \ OutOfScope(t), ![t].dirty = dirty]

\* Mutant: the cap is forgotten.
Expand_Uncapped(t) ==
  /\ loop[t].pc = "scope" /\ OutOfScope(t) # {}
  /\ scope' = [scope EXCEPT ![t].expands = @ + 1]
  /\ Retries(t, "none")
  /\ UNCHANGED <<slots, base, passes, calls, own, tree, result>>

\* Verdict EXPAND, naming the files new.
Expand(t) ==
  /\ loop[t].pc = "scope" /\ OutOfScope(t) # {} /\ scope[t].expands < MaxExpands
  /\ \E new \in SUBSET OutFiles :
       /\ new \cap scope[t].map = {} /\ new # {}
       /\ scope' = [scope EXCEPT ![t].map = @ \cup new, ![t].expands = @ + 1,
                                 ![t].cleared = @ \cup OutOfScope(t) \cup new]
       /\ IF new \subseteq tree[t].oos THEN LoopGoes(t, "tests") ELSE Retries(t, "none")
  /\ UNCHANGED <<slots, base, passes, calls, own, tree, result>>

\* EXPAND that names no file outside the map lets the pass through.
ExpandNothing(t) ==
  /\ loop[t].pc = "scope" /\ OutOfScope(t) # {}
  /\ scope' = [scope EXCEPT ![t].cleared = @ \cup OutOfScope(t)]
  /\ LoopGoes(t, "tests")
  /\ UNCHANGED <<slots, base, passes, calls, own, tree, result>>

\* EXPAND once more than allowed: the files become a ticket of their own and
\* leave the branch; a second time they only leave it.
Split(t) ==
  /\ loop[t].pc = "scope" /\ OutOfScope(t) # {} /\ scope[t].expands = MaxExpands
  /\ \E new \in SUBSET OutFiles :
       /\ new \cap scope[t].map = {} /\ new # {}
       /\ \/ scope' = [scope EXCEPT ![t].split = @ \cup new]
             /\ Restores(t) /\ LoopGoes(t, "tests") /\ UNCHANGED result
          \/ ~ new \subseteq scope[t].split /\ Commits(t, "blocked") /\ UNCHANGED scope
  /\ UNCHANGED <<slots, base, passes, calls, own>>

\* Mutant: the files of a repeated rejection stay.
Reject_Ships(t) ==
  /\ loop[t].pc = "scope" /\ OutOfScope(t) # {}
  /\ \/ Commits(t, "ready") /\ scope' = [scope EXCEPT ![t].bounced = @ \cup OutOfScope(t)]
     \/ LoopGoes(t, "tests") /\ UNCHANGED <<tree, scope, result>>
  /\ UNCHANGED <<slots, base, passes, calls, own>>

\* The files named by REJECT events of the ticket.  The event would be the note
\* of the transition to READY; the driver takes READY, the state the ticket is
\* in, for a no-op and records nothing.
already_rejected(t) == {}

\* Verdict REJECT: the files leave the branch and the stage returns READY.
Reject(t) ==
  /\ loop[t].pc = "scope" /\ OutOfScope(t) \ already_rejected(t) # {}
  /\ scope' = [scope EXCEPT ![t].bounced = @ \cup OutOfScope(t)]
  /\ Returns(t, "ready")
  /\ tree' = [tree EXCEPT ![t].oos = @ \ OutOfScope(t), ![t].dirty = FALSE,
                          ![t].ahead = @ \/ tree[t].dirty]
  /\ UNCHANGED <<slots, base, passes, calls, own>>

\* ValidationResult.decide: a failed pass is the last one.  Without an agent the
\* pass always counts as the first.
LastPass(t) == IF loop[t].did = "bypass" THEN MaxIters = 1 ELSE loop[t].attempt = MaxIters

\* _evaluate_test_results: the tests, then the smoke test (_run_smoke_gate).
TestsFail(t) ==
  /\ loop[t].pc = "tests"
  /\ IF LastPass(t) THEN Commits(t, "blocked")
     ELSE \E why \in {"tests", "environment"} : Retries(t, why) /\ UNCHANGED <<tree, result>>
  /\ UNCHANGED <<slots, base, passes, calls, own, scope>>

\* No sandbox: SandboxError leaves the stage.
TestsRaise(t) ==
  /\ loop[t].pc = "tests" /\ Returns(t, "ready")
  /\ UNCHANGED <<slots, base, passes, calls, own, tree, scope>>

TestsPass(t) ==
  /\ loop[t].pc = "tests" /\ LoopGoes(t, "delivery")
  /\ UNCHANGED <<slots, base, passes, calls, own, tree, scope, result>>

\* _run_no_change_contradiction_check: the agent says that nothing is needed;
\* edits, the spec, open directives or a CI failure may contradict it.
NoChangeNeeded(t) ==
  /\ loop[t].pc = "delivery" /\ ~HasDiff(t)
  /\ \E r \in {"done", "blocked"} : Returns(t, r)
  /\ UNCHANGED <<slots, base, passes, calls, own, tree, scope>>

\* It says nothing and left nothing: a first run ...
NoDiffFirst(t) == ~resuming(t) /\ NoChangeNeeded(t)

\* ... and a resumed one.
NoDiffResumed(t) == resuming(t) /\ NoChangeNeeded(t)

\* _verify_repo_changes: claimed files are missing, or threads are open and
\* nothing was done.
ClaimsMissing(t) ==
  /\ loop[t].pc = "delivery" /\ HasDiff(t)
  /\ IF LastPass(t) THEN Commits(t, "blocked")
     ELSE Retries(t, "claims") /\ UNCHANGED <<tree, result>>
  /\ UNCHANGED <<slots, base, passes, calls, own, scope>>

\* The work is committed and goes to review.
Delivers(t) ==
  /\ loop[t].pc = "delivery" /\ HasDiff(t) /\ Commits(t, "review")
  /\ UNCHANGED <<slots, base, passes, calls, own, scope>>

-----------------------------------------------------------------------------
(* Between two passes. *)

NextPass(t) ==
  IF loop[t].attempt = MaxIters THEN Commits(t, "blocked")
  ELSE /\ loop' = [loop EXCEPT ![t].pc = "agent", ![t].attempt = @ + 1]
       /\ UNCHANGED <<tree, result>>

\* An agent that did nothing, or no edit, on a branch with commits: delivered.
AheadAndIdle(t) ==
  /\ tree[t].ahead
  /\ loop[t].did = "nothing" \/ (loop[t].did \in {"reads", "bypass"} /\ ~tree[t].dirty)

\* The counters are read, git is asked for a difference, they are written.
ReadCounters(t) ==
  /\ loop[t].pc = "stuck"
  /\ loop' = [loop EXCEPT ![t].pc = "judge", ![t].np = passes, ![t].nc = calls]
  /\ UNCHANGED <<slots, base, passes, calls, own, tree, scope, result>>

\* A count of passes without a difference, after one more pass.
Counted(t, n) == IF HasDiff(t) THEN 0 ELSE Least(n + 1, StuckPasses)
CountedCalls(t) ==
  IF HasDiff(t) THEN 0 ELSE IF loop[t].did \in {"nothing", "bypass"} THEN loop[t].nc ELSE Least(loop[t].nc + 1, StuckCalls)

\* Committed work and an idle agent; an idle agent; edits that left nothing.
ShortCircuit(t) ==
  /\ loop[t].pc = "judge"
  /\ passes' = Counted(t, loop[t].np) /\ calls' = CountedCalls(t)
  /\ own' = [own EXCEPT ![t] = Counted(t, @)]
  /\ \/ AheadAndIdle(t) /\ Commits(t, "deliverable")
     \/ ~AheadAndIdle(t) /\ loop[t].did = "nothing" /\ Commits(t, "blocked")
     \/ loop[t].did = "edits" /\ ~HasDiff(t) /\ Commits(t, "blocked")
  /\ UNCHANGED <<slots, base, scope>>

\* The identical-diagnosis breaker.
Repeats(t) == loop[t].repeats >= 3 \/ (loop[t].feedback = "environment" /\ loop[t].repeats >= 2)

\* Otherwise the counters and the repeated diagnosis decide.  Edits that the
\* formatter took back do not count.
Judge(t) ==
  LET spared == IF loop[t].did = "edits" /\ ~HasDiff(t) THEN 1 ELSE 0
      n == Counted(t, loop[t].np) - spared
  IN /\ loop[t].pc = "judge" /\ ~AheadAndIdle(t) /\ loop[t].did # "nothing"
     /\ passes' = n /\ calls' = CountedCalls(t)
     /\ own' = [own EXCEPT ![t] = Counted(t, @) - spared]
     /\ \/ n >= StuckPasses /\ Commits(t, "stuck")
        \/ n < StuckPasses /\ (calls' >= StuckCalls \/ Repeats(t)) /\ Commits(t, "blocked")
        \/ n < StuckPasses /\ calls' < StuckCalls /\ ~Repeats(t) /\ NextPass(t)
     /\ UNCHANGED <<slots, base, scope>>

Setup(t) ==
  \/ StartLoop(t) \/ CloneAndBranch(t) \/ PrerequisiteGate(t) \/ BaselinePasses(t)
  \/ BaselineFails(t) \/ BaselineRaises(t) \/ ResumeShortcut(t)

Guardrail(t) ==
  \/ SpecCites(t) \/ FilterVendored(t) \/ CleanBinaryArtifacts(t) \/ RevertStandardConfigs(t)
  \/ OperatorAccepts(t) \/ ScopeClean(t) \/ RepoSettingsGuard(t) \/ FloodGuard(t)
  \/ Escalate(t) \/ Expand(t) \/ ExpandNothing(t) \/ Split(t) \/ Reject(t)

LNext ==
  \E t \in Tickets :
    \/ Setup(t) \/ Bypass(t) \/ BypassFails(t) \/ AgentWorks(t) \/ AgentStops(t)
    \/ CheckSummary(t) \/ Guardrail(t)
    \/ TestsFail(t) \/ TestsRaise(t) \/ TestsPass(t)
    \/ NoDiffFirst(t) \/ NoDiffResumed(t) \/ ClaimsMissing(t) \/ Delivers(t)
    \/ ReadCounters(t) \/ ShortCircuit(t) \/ Judge(t)

LSpec == LInit /\ [][LNext]_lvars

-----------------------------------------------------------------------------
(* Properties. *)

(* A ticket is called stuck after that many passes of its own without a    *)
(* difference.  The counters are shared, and two loops at once reset and   *)
(* advance each other's.                                                   *)
StuckIsOwn ==
  \A t \in Tickets : result[t] = "stuck" /\ loop[t].pc = "idle" => own[t] >= StuckPasses

(* With one stage at a time it is so.                                      *)
StuckIsEarned == slots = 1 => StuckIsOwn

(* Whatever retries, rejections, splits and earlier runs left on the       *)
(* branch, what goes to review holds no file outside the declared scope    *)
(* that no EXPAND verdict and no citation let through.                     *)
ScopeHolds ==
  \A t \in Tickets :
    result[t] = "review" /\ loop[t].pc = "idle" => tree[t].oos \subseteq scope[t].cleared

(* A pass whose tests failed is repeated or blocks the ticket              *)
(* (docs/stages/implement.md, "Routing"); it is not delivered.             *)
FailedTestsAreNotDelivered ==
  [][\A t \in Tickets :
       loop[t].pc = "judge" /\ loop[t].feedback \in {"tests", "environment"}
         => result'[t] # "deliverable"]_lvars

(* A ticket is not sent back to READY over files that were all rejected    *)
(* before (docs/stages/scope-triage.md, the dedup guard).                  *)
RejectsOnce ==
  [][\A t \in Tickets :
       loop[t].pc = "scope" /\ loop'[t].pc = "idle" /\ result'[t] = "ready"
         => ~ OutOfScope(t) \subseteq scope[t].bounced]_lvars

=============================================================================
