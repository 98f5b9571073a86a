------------------------------- MODULE Refine -------------------------------
(***************************************************************************)
(* The refine stage (stages/refine): a draft passes a chain of gates, an   *)
(* agent rewrites it into a specification, splits it, promotes it to an    *)
(* epic or asks a question, and the outcome is cached under the hash of    *)
(* the description it was computed from.  Artifacts of the workspace       *)
(* (cache, checkpoint, saved conversation, approval verdict) outlive the   *)
(* visit, a crash and the operator's edits.                                *)
(*                                                                         *)
(* A text is the form it is in: the draft as filed, the draft under an     *)
(* advisory, or the specification, which an agent that rewrites it         *)
(* reproduces.  Nobody edits the description by hand.                      *)
(* The gates' predicates on the draft and every model's verdict are        *)
(* choices.  A raised error leaves the same state as a crash.              *)
(***************************************************************************)
EXTENDS Naturals, FiniteSets

CONSTANTS
  MaxPasses,        \* max_refine_passes_per_ticket
  MaxFaults,        \* bound: crashes and raised errors
  MaxTrips,         \* bound: times the ticket comes back to DRAFT
  Threads,          \* reviewer threads that may be opened
  Profiles,         \* the tickets: source, branch, child of an earlier split
  RequireApproval   \* require_approval

ASSUME RefineConstants ==
  /\ MaxPasses \in Nat /\ MaxFaults \in Nat /\ MaxTrips \in Nat
  /\ IsFiniteSet(Threads) /\ RequireApproval \in BOOLEAN
  /\ Profiles \subseteq [source : {"user", "audit", "ci"}, branch : {"none", "merged", "unmerged"},
                         child : BOOLEAN]

VARIABLES
  card,     \* the ticket's row
  doc,      \* description.md
  disk,     \* stage_cache.json, refine_checkpoint.json, conversation, post_refine_auto_approve.json
  hist,     \* what the stage reads back from the ticket's history
  talk,     \* comment threads, and the question asked
  visit,    \* the run of the stage
  kids,     \* children of a split
  faults

rvars == <<card, doc, disk, hist, talk, visit, kids, faults>>

Nothing == [none |-> TRUE]
Texts == {"empty", "draft", "advised", "spec"}
Sources == {"user", "audit", "ci"}
Branches == {"none", "merged", "unmerged"}
CardStates == {"DRAFT", "READY", "HUMAN_ISSUE_APPROVAL", "BLOCKED", "AWAITING_USER_REPLY",
               "DONE", "CLOSED", "EPIC_OPEN"}
Notes == {"none", "close", "claim", "plain", "placeholder", "converged", "verdict", "split", "question"}
Kinds == {"spec", "empty", "nochange", "epic", "split0", "split1", "split2"}
Results == [kind : Kinds, text : Texts]
Steps == {"idle", "clone", "gates", "classify", "advise", "agent", "saved", "result",
          "create", "link", "children", "count", "guard", "clear", "return"}

Visit(label) == [pc |-> label, key |-> doc, cmts |-> {}, res |-> Nothing, dst |-> "DRAFT",
                 note |-> "none", passes |-> card.passes, out |-> card.out, agent |-> FALSE]
NoVisit == [pc |-> "idle", key |-> "none", cmts |-> {}, res |-> Nothing, dst |-> "DRAFT",
            note |-> "none", passes |-> 0, out |-> "none", agent |-> FALSE]

RTypeOK ==
  /\ card \in [st : CardStates, source : Sources, branch : Branches,
               child : BOOLEAN, unmet : BOOLEAN, trips : 0..MaxTrips, passes : Nat, out : Texts \cup {"none"}]
  /\ MaxPasses > 0 => card.passes <= MaxPasses
  /\ doc \in Texts
  /\ disk \in [cache : [key : Texts, dst : CardStates \ {"BLOCKED", "DRAFT"}, note : Notes] \cup {Nothing},
               ckpt : Results \cup {Nothing}, conv : BOOLEAN,
               verdict : [of : Texts, ok : BOOLEAN] \cup {Nothing}]
  /\ hist \in [approved : BOOLEAN, sentback : BOOLEAN, paused : BOOLEAN, moved : BOOLEAN]
  /\ talk \in [open : SUBSET Threads, acked : SUBSET Threads, seen : SUBSET Threads,
               asked : {"none", "open", "answered"}]
  /\ visit.pc \in Steps /\ visit.cmts \subseteq Threads /\ visit.dst \in CardStates /\ visit.note \in Notes
  /\ kids \in [made : 0..2, linked : BOOLEAN, decided : 0..2]
  /\ faults \in 0..MaxFaults

RInit ==
  /\ doc \in {"empty", "draft"}
  /\ \E p \in Profiles, u \in BOOLEAN :
       card = [st |-> "DRAFT", source |-> p.source, branch |-> p.branch, child |-> p.child,
               unmet |-> u, trips |-> 0, passes |-> 0, out |-> "none"]
  /\ disk = [cache |-> Nothing, ckpt |-> Nothing, conv |-> FALSE, verdict |-> Nothing]
  /\ hist = [approved |-> FALSE, sentback |-> FALSE, paused |-> FALSE, moved |-> FALSE]
  /\ talk = [open |-> {}, acked |-> {}, seen |-> {}, asked |-> "none"]
  /\ visit = NoVisit /\ faults = 0
  /\ kids = [made |-> 0, linked |-> FALSE, decided |-> 0]

At(label) == visit.pc = label
StepTo(label) == visit' = [visit EXCEPT !.pc = label]
Out(d, n) == [dst |-> d, note |-> n]
\* A gate's outcome goes to the guard; the agent's first to the pass count.
Decide(o) == visit' = [visit EXCEPT !.pc = IF visit.agent THEN "count" ELSE "guard",
                                    !.dst = o.dst, !.note = o.note, !.res = Nothing,
                                    !.cmts = {}]
Unfilled == doc = "empty"

----------------------------------------------------------------------------
(* Where a refined text goes *)

\* _resolve_next_state: an approval given once is never asked for again,
\* mill's own sources approve themselves, the verdict of the post-refine
\* check is read from the workspace when the path passes one, and otherwise a
\* model decides.  withWs is whether the caller passes the workspace.
_resolve_next_state(t, withWs, v, n) ==
  IF ~RequireApproval THEN {Out("READY", n)}
  ELSE IF t = "empty" THEN {Out("BLOCKED", n)}
  ELSE IF hist.approved THEN {Out("READY", n)}
  ELSE (IF card.source = "audit" THEN {Out("READY", n)} ELSE {})
       \cup (IF withWs /\ v # Nothing
             THEN {Out(IF v.ok THEN "READY" ELSE "HUMAN_ISSUE_APPROVAL", "verdict")}
             ELSE {Out("READY", n), Out("HUMAN_ISSUE_APPROVAL", n)})

\* _triage_outcome, resolved_outcome: keep the draft as it is and resolve.
_triage_outcome(n) == _resolve_next_state(doc, FALSE, Nothing, n)

\* _verify_branch_merged: a branch that cannot be verified counts as merged.
_verify_branch_merged == card.branch # "unmerged"

----------------------------------------------------------------------------
(* RefineStage.run: before the gates *)

\* The stage cache holds an outcome computed from this very description.
_check == IF disk.cache = Nothing THEN FALSE ELSE disk.cache.key = doc

Enter ==
  /\ At("idle") /\ card.st = "DRAFT" /\ ~card.unmet
  /\ UNCHANGED <<card, doc, disk, hist, talk, kids, faults>>
  /\ \/ Unfilled /\ visit' = [Visit("return") EXCEPT !.dst = "BLOCKED", !.note = "plain"]
     \/ /\ card.source = "ci"    \* check_ticket, before the cache
        /\ \E d \in {"DONE", "BLOCKED"} :
             visit' = [Visit("return") EXCEPT !.dst = d, !.note = "close"]
     \/ visit' = IF _check THEN [Visit("return") EXCEPT !.dst = disk.cache.dst, !.note = disk.cache.note]
                 ELSE Visit("clone")

\* _clone_or_resume and the prepare hook: a board without a repository or a
\* failing hook blocks, uncached.
CloneOrResume ==
  /\ At("clone")
  /\ \/ StepTo("gates")
     \/ visit' = [visit EXCEPT !.pc = "return", !.dst = "BLOCKED", !.note = "plain"]
  /\ UNCHANGED <<card, doc, disk, hist, talk, kids, faults>>

----------------------------------------------------------------------------
(* The gates: each is the set of outcomes it may stop the draft with *)

_run_freshness_gate == IF Unfilled THEN {} ELSE {Out("DONE", "close")}
_run_deliverable_exists_gate ==
  IF card.source = "user" \/ card.branch # "none" THEN {} ELSE {Out("DONE", "close")}
_run_doc_only_gate == {Out("READY", "plain")}
_run_workflow_portability_gate == {Out("DONE", "close")}
_run_scope_triage_repo_awareness_gate ==
  CASE card.source = "ci" -> {}
    [] card.source = "user" -> {Out("DONE", "close")}
    [] OTHER -> {Out("HUMAN_ISSUE_APPROVAL", "plain")}
_run_obsolescence_gate ==
  IF card.source = "user" \/ Unfilled THEN {} ELSE {Out("DONE", "close")}

Gate ==
  /\ At("gates")
  /\ \/ \E o \in _run_freshness_gate \cup _run_deliverable_exists_gate \cup _run_doc_only_gate
               \cup _run_workflow_portability_gate \cup _run_scope_triage_repo_awareness_gate :
          Decide(o)
     \/ visit' = [visit EXCEPT !.pc = "classify", !.cmts = talk.open]
  /\ UNCHANGED <<card, doc, disk, hist, talk, kids, faults>>

----------------------------------------------------------------------------
(* _run_pre_refine_classifier *)

_ci_tooling_auto_disposition ==
  IF card.source = "audit" THEN {Out("READY", "plain"), Out("CLOSED", "plain")} ELSE {}
_scanner_auto_disposition ==
  IF card.source = "audit"
  THEN {Out("CLOSED", "plain"), Out("READY", "plain"), Out("HUMAN_ISSUE_APPROVAL", "plain")} ELSE {}

\* Only without reviewer feedback.  A placeholder is to be closed; a doc-only
\* draft and one with an earlier SKIP verdict are resolved as they are, and so
\* is a prescriptive one.
deterministic_triage_pre_checks ==
  _ci_tooling_auto_disposition \cup _scanner_auto_disposition
  \cup {Out("DONE", "placeholder")}
  \cup _triage_outcome("plain")

\* A send-back is an operator iterating on the text: no agreement gate then.
ReviewerAgreement ==
  IF visit.cmts = {} \/ hist.sentback THEN {}
  ELSE (IF card.branch = "none" THEN _triage_outcome("plain") ELSE {Out("DONE", "claim")})    \* AGREE
       \cup _triage_outcome("plain")                                                        \* ADMIN_ONLY
StandardsGate ==
  IF card.source = "user" \/ Unfilled THEN {} ELSE {Out("HUMAN_ISSUE_APPROVAL", "plain")}
DedupVerdict == IF hist.sentback \/ Unfilled THEN {} ELSE {Out("DONE", "close")}

\* _emit_no_change: an unimplemented task goes to implement, which verifies.
_emit_no_change ==
  IF card.branch = "none" \/ ~_verify_branch_merged THEN _triage_outcome("plain")
  ELSE {Out("DONE", "claim")}

\* Mutant: nobody remembers the first migration.
_anti_bounce_escalate_Never == FALSE

\* _anti_bounce_escalate: a ticket that was migrated before stays.
_anti_bounce_escalate == hist.moved

\* handle_triage_decision, without MIGRATE: NO_CHANGE, SKIP, and for REFINE
\* the operator-prerequisite and the mechanical fast paths.
handle_triage_decision ==
  _emit_no_change \cup _triage_outcome("plain")
  \cup {Out("HUMAN_ISSUE_APPROVAL", "plain")}
  \cup (IF Unfilled THEN {}
        ELSE IF card.source = "audit" THEN _triage_outcome("plain")
        ELSE IF RequireApproval THEN {Out("READY", "plain")} \cup _triage_outcome("plain") ELSE {})

Classify ==
  /\ At("classify")
  /\ \/ \E o \in (IF visit.cmts = {} THEN deterministic_triage_pre_checks \cup handle_triage_decision ELSE {})
               \cup ReviewerAgreement \cup StandardsGate \cup DedupVerdict :
          Decide(o)
     \/ \E o \in _run_obsolescence_gate : Decide(o)
     \/ StepTo("advise")
  /\ UNCHANGED <<card, doc, disk, hist, talk, kids, faults>>

\* The MIGRATE verdict: the ticket, its history and its workspace move, and it
\* stays a draft; a ticket that moved before is resolved where it is.
Migrate ==
  /\ At("classify") /\ visit.cmts = {}
  /\ IF _anti_bounce_escalate
     THEN (\E o \in _triage_outcome("plain") : Decide(o)) /\ UNCHANGED hist
     ELSE Decide(Out("DRAFT", "plain")) /\ hist' = [hist EXCEPT !.moved = TRUE]
  /\ UNCHANGED <<card, doc, disk, talk, kids, faults>>

----------------------------------------------------------------------------
(* The advisory, the cap and the convergence guard *)

\* _run_inflight_advisory may prepend a warning to the description.
Advised == {doc} \cup IF doc = "draft" THEN {"advised"} ELSE {}

\* Mutant: the cap only counts what comes after it.
PassCap_OneMore == MaxPasses > 0 /\ visit.passes > MaxPasses

\* The refine cap; its outcome is not cached.
PassCap == MaxPasses > 0 /\ visit.passes >= MaxPasses

\* The description is the previous pass's output and nobody commented.
Converged(t) == visit.out # "none" /\ t = visit.out /\ visit.cmts = {}

Advise ==
  /\ At("advise")
  /\ \E t \in Advised :
       /\ doc' = t
       /\ CASE PassCap -> visit' = [visit EXCEPT !.pc = "return", !.dst = "BLOCKED", !.note = "plain"]
            [] ~PassCap /\ Converged(t) ->
                 Decide(Out(IF RequireApproval THEN "HUMAN_ISSUE_APPROVAL" ELSE "READY", "converged"))
            [] OTHER -> visit' = [visit EXCEPT !.pc = "agent", !.agent = TRUE, !.cmts = talk.open]
  /\ UNCHANGED <<card, disk, hist, talk, kids, faults>>

----------------------------------------------------------------------------
(* _run_refine_agent *)

split_child_fast_path ==
  /\ At("agent") /\ card.child /\ visit.cmts = {}
  /\ \E o \in (IF Unfilled THEN {Out("BLOCKED", "plain")} ELSE _triage_outcome("plain")) : Decide(o)
  /\ UNCHANGED <<card, doc, disk, hist, talk, kids, faults>>

short_circuit_for_internal_failure ==
  /\ At("agent") /\ visit.cmts = {} /\ ~Unfilled
  /\ doc' = "spec"
  /\ \E o \in _resolve_next_state(doc', FALSE, Nothing, "plain") : Decide(o)
  /\ UNCHANGED <<card, disk, hist, talk, kids, faults>>

\* The checkpoint has no field for a no-change verdict: it comes back empty.
load_refine_checkpoint(r) == IF r.kind = "nochange" THEN [r EXCEPT !.kind = "empty"] ELSE r

\* A checkpoint of an earlier visit is taken whatever has changed since.
ReuseCheckpoint ==
  /\ At("agent") /\ ~disk.conv /\ disk.ckpt # Nothing
  /\ visit' = [visit EXCEPT !.pc = "result", !.res = load_refine_checkpoint(disk.ckpt)]
  /\ UNCHANGED <<card, doc, disk, hist, talk, kids, faults>>

MayCallAgent == At("agent") /\ (disk.conv \/ disk.ckpt = Nothing)

\* A draft that is ready to implement is its own specification.
SkipImplReady ==
  /\ MayCallAgent /\ visit.cmts = {} /\ ~(disk.conv /\ hist.paused) /\ ~Unfilled
  /\ visit' = [visit EXCEPT !.pc = "result", !.res = [kind |-> "spec", text |-> doc]]
  /\ UNCHANGED <<card, doc, disk, hist, talk, kids, faults>>

AgentBlocks ==
  /\ MayCallAgent /\ Decide(Out("BLOCKED", "plain"))
  /\ UNCHANGED <<card, doc, disk, hist, talk, kids, faults>>

\* The agent answers: the result is checkpointed before anything else.
RunAgent ==
  /\ MayCallAgent
  /\ \E r \in [kind : Kinds, text : {"spec"}] :
       /\ disk' = [disk EXCEPT !.ckpt = r]
       /\ visit' = [visit EXCEPT !.pc = "saved", !.res = r]
  /\ talk' = [talk EXCEPT !.seen = @ \cup visit.cmts,
                          !.asked = IF @ = "answered" /\ disk.conv /\ hist.paused THEN "none" ELSE @]
  /\ UNCHANGED <<card, doc, hist, kids, faults>>

\* It asked a question: the conversation is kept, the ticket parked, and the
\* visit ends with the parked state as its outcome.
Pause ==
  /\ At("saved") /\ talk.asked # "open"
  /\ disk' = [disk EXCEPT !.conv = TRUE]
  /\ card' = [card EXCEPT !.st = "AWAITING_USER_REPLY"]
  /\ hist' = [hist EXCEPT !.paused = TRUE]
  /\ talk' = [talk EXCEPT !.asked = "open"]
  /\ Decide(Out("AWAITING_USER_REPLY", "question"))
  /\ UNCHANGED <<doc, kids, faults>>

Collected ==
  /\ At("saved") /\ StepTo("result")
  /\ disk' = [disk EXCEPT !.conv = FALSE]
  /\ UNCHANGED <<card, doc, hist, talk, kids, faults>>

----------------------------------------------------------------------------
(* What the result does *)

gitignored_guard == {Out("BLOCKED", "plain")}
spec_drift_guard ==
  IF visit.res.kind \in {"nochange", "epic"} THEN {} ELSE {Out("HUMAN_ISSUE_APPROVAL", "plain")}

\* What they let pass takes one of the result paths; apply_agent_side_effects,
\* before it, writes memory, title and file map, none of which is read back.
Reconcile ==
  /\ At("result")
  /\ \E o \in gitignored_guard \cup spec_drift_guard : Decide(o)
  /\ UNCHANGED <<card, doc, disk, hist, talk, kids, faults>>

\* _run_post_refine_check: writes its verdict, or fails and leaves the file.
_run_post_refine_check(t) == {disk.verdict} \cup {[of |-> t, ok |-> b] : b \in BOOLEAN}

\* ack_threads: the threads collected before the agent ran.
ack_threads == talk' = [talk EXCEPT !.open = @ \ visit.cmts, !.acked = @ \cup visit.cmts]

no_change_path ==
  /\ At("result") /\ visit.res.kind = "nochange"
  /\ \/ /\ card.branch # "none" /\ ~_verify_branch_merged
        /\ Decide(Out("BLOCKED", "plain")) /\ UNCHANGED doc
     \/ /\ _verify_branch_merged    \* an external fix is claimed: rewritten as a check
        /\ doc' = "spec"
        /\ \E o \in _resolve_next_state(doc', FALSE, Nothing, "plain") : Decide(o)
     \/ /\ _verify_branch_merged
        /\ Decide(Out("DONE", "close")) /\ UNCHANGED doc
     \/ /\ _verify_branch_merged    \* no rationale, or the draft demands code
        /\ visit' = [visit EXCEPT !.res.kind = "empty"] /\ UNCHANGED doc
  /\ UNCHANGED <<card, disk, hist, talk, kids, faults>>

promote_to_epic_path ==
  /\ At("result") /\ visit.res.kind = "epic"
  /\ doc' = visit.res.text
  /\ Decide(Out("EPIC_OPEN", "plain"))
  /\ UNCHANGED <<card, disk, hist, talk, kids, faults>>

\* No usable specification: the draft itself is resolved.
_degenerate_spec_outcome ==
  /\ At("result") /\ visit.res.kind \in {"empty", "split0"}
  /\ \E o \in _resolve_next_state(doc, FALSE, Nothing, "plain") : Decide(o)
  /\ IF visit.res.kind = "split0" THEN ack_threads ELSE UNCHANGED talk
  /\ UNCHANGED <<card, doc, disk, hist, kids, faults>>

\* With reviewer feedback the post-refine check is skipped, and the verdict
\* file of an earlier pass decides.
single_scope_path ==
  /\ At("result") /\ visit.res.kind \in {"spec", "split0", "split1"}
  /\ \E v \in (IF visit.res.kind = "spec" /\ visit.cmts # {} THEN {disk.verdict}
               ELSE _run_post_refine_check(visit.res.text)) :
       /\ disk' = [disk EXCEPT !.verdict = v]
       /\ \E o \in _resolve_next_state(visit.res.text, TRUE, v, "plain") : Decide(o)
  /\ doc' = visit.res.text
  /\ ack_threads
  /\ UNCHANGED <<card, hist, kids, faults>>

\* A split: no valid child blocks; otherwise the children are created one by
\* one, linked to an epic, decided one by one, and the ticket closed.
SplitStarts ==
  /\ At("result") /\ visit.res.kind = "split2"
  /\ \/ ack_threads /\ Decide(Out("BLOCKED", "plain")) /\ UNCHANGED <<kids, disk>>
     \/ /\ StepTo("create") /\ UNCHANGED talk
        /\ kids' = [made |-> 0, linked |-> FALSE, decided |-> 0]
        /\ \E v \in _run_post_refine_check(visit.res.text) : disk' = [disk EXCEPT !.verdict = v]
  /\ UNCHANGED <<card, doc, hist, faults>>

CreateChild ==
  /\ At("create")
  /\ kids' = [kids EXCEPT !.made = @ + 1]
  /\ IF kids.made + 1 = 2 THEN StepTo("link") ELSE UNCHANGED visit
  /\ UNCHANGED <<card, doc, disk, hist, talk, faults>>

\* Mutant: the children are decided without being linked to an epic.
LinkChildren_Half ==
  /\ At("link") /\ StepTo("children")
  /\ UNCHANGED <<card, doc, disk, hist, talk, kids, faults>>


LinkChildren ==
  /\ At("link") /\ StepTo("children")
  /\ kids' = [kids EXCEPT !.linked = TRUE]
  /\ UNCHANGED <<card, doc, disk, hist, talk, faults>>

DecideChildren ==
  /\ At("children")
  /\ IF kids.decided < 2
     THEN kids' = [kids EXCEPT !.decided = @ + 1] /\ UNCHANGED <<visit, talk>>
     ELSE Decide(Out("CLOSED", "split")) /\ ack_threads /\ UNCHANGED kids
  /\ UNCHANGED <<card, doc, disk, hist, faults>>

----------------------------------------------------------------------------
(* The end of a visit *)

\* The output hash and the pass count, from the row read at the start,
\* whatever the outcome is.
CountPass ==
  /\ At("count") /\ StepTo("guard")
  /\ card' = IF visit.out = doc THEN card
             ELSE [card EXCEPT !.out = doc, !.passes = visit.passes + 1]
  /\ UNCHANGED <<doc, disk, hist, talk, kids, faults>>

\* Mutant: every DONE is trusted.
Guarded_Trusts(o) == o

\* _guard_implementation_done: DONE without a branch needs a note that says
\* there was nothing to implement; what comes out is cached, deferrals and
\* blocks excepted.
Guarded(o) ==
  IF o.dst = "DONE" /\ card.branch = "none" /\ o.note # "close" THEN Out("READY", o.note) ELSE o
Cacheable(o) == o.dst \notin {"DRAFT", "BLOCKED"}

_guard_implementation_done ==
  /\ At("guard")
  /\ LET o == Guarded(Out(visit.dst, visit.note)) IN
       /\ visit' = [visit EXCEPT !.pc = IF visit.agent THEN "clear" ELSE "return",
                                 !.dst = o.dst, !.note = o.note]
       /\ disk' = IF Cacheable(o)
                  THEN [disk EXCEPT !.cache = [key |-> visit.key, dst |-> o.dst, note |-> o.note]]
                  ELSE disk
  /\ UNCHANGED <<card, doc, hist, talk, kids, faults>>

clear_refine_checkpoint ==
  /\ At("clear") /\ StepTo("return")
  /\ disk' = IF visit.dst \in {"BLOCKED", "AWAITING_USER_REPLY"} THEN disk
             ELSE [disk EXCEPT !.ckpt = Nothing]
  /\ UNCHANGED <<card, doc, hist, talk, kids, faults>>

\* The worker applies the outcome.
ReturnOutcome ==
  /\ At("return")
  /\ visit' = NoVisit
  /\ card' = [card EXCEPT !.st = visit.dst]
  /\ hist' = [hist EXCEPT !.paused = @ \/ visit.dst = "AWAITING_USER_REPLY"]
  /\ UNCHANGED <<doc, disk, talk, kids, faults>>

Abandon ==
  /\ ~At("idle") /\ faults < MaxFaults
  /\ faults' = faults + 1 /\ visit' = NoVisit
  /\ UNCHANGED <<card, doc, disk, hist, talk, kids>>

----------------------------------------------------------------------------
(* Between two visits: the operator and the rest of the pipeline *)

ReturnsToDraft ==
  card.trips < MaxTrips /\ card' = [card EXCEPT !.st = "DRAFT", !.trips = @ + 1]

Approve ==
  /\ At("idle") /\ card.st = "HUMAN_ISSUE_APPROVAL"
  /\ card' = [card EXCEPT !.st = "READY"] /\ hist' = [hist EXCEPT !.approved = TRUE]
  /\ UNCHANGED <<doc, disk, talk, visit, kids, faults>>

SendBack(c) ==
  /\ At("idle") /\ card.st \in {"HUMAN_ISSUE_APPROVAL", "READY"} /\ c \notin talk.open \cup talk.acked
  /\ ReturnsToDraft /\ hist' = [hist EXCEPT !.sentback = TRUE]
  /\ talk' = [talk EXCEPT !.open = @ \cup {c}]
  /\ UNCHANGED <<doc, disk, visit, kids, faults>>

Comment(c) ==
  /\ c \notin talk.open \cup talk.acked
  /\ talk' = [talk EXCEPT !.open = @ \cup {c}]
  /\ UNCHANGED <<card, doc, disk, hist, visit, kids, faults>>

\* A dependency that is done, or an operator, sends it back to draft.
BackToDraft ==
  /\ At("idle") /\ card.st \in {"BLOCKED", "READY"}
  /\ ReturnsToDraft
  /\ UNCHANGED <<doc, disk, hist, talk, visit, kids, faults>>

Answer ==
  /\ At("idle") /\ card.st = "AWAITING_USER_REPLY" /\ talk.asked = "open"
  /\ ReturnsToDraft /\ talk' = [talk EXCEPT !.asked = "answered"]
  /\ UNCHANGED <<doc, disk, hist, visit, kids, faults>>

DependenciesMet ==
  /\ card.unmet /\ card' = [card EXCEPT !.unmet = FALSE]
  /\ UNCHANGED <<doc, disk, hist, talk, visit, kids, faults>>

Outside == Approve \/ BackToDraft \/ Answer \/ DependenciesMet
           \/ \E c \in Threads : SendBack(c) \/ Comment(c)

RStage ==
  \/ Enter \/ CloneOrResume \/ Gate \/ Classify \/ Migrate \/ Advise
  \/ split_child_fast_path \/ short_circuit_for_internal_failure \/ ReuseCheckpoint
  \/ SkipImplReady \/ AgentBlocks \/ RunAgent \/ Pause \/ Collected \/ Reconcile
  \/ no_change_path \/ promote_to_epic_path \/ _degenerate_spec_outcome \/ single_scope_path
  \/ SplitStarts \/ CreateChild \/ LinkChildren \/ DecideChildren
  \/ CountPass \/ _guard_implementation_done \/ clear_refine_checkpoint \/ ReturnOutcome

RNext == RStage \/ Abandon \/ Outside
RSpec == RInit /\ [][RNext]_rvars /\ WF_rvars(RStage)

----------------------------------------------------------------------------
(* Properties *)

\* A draft without a branch is closed as done only by an outcome that says
\* there is nothing to implement, whichever of the gates, verdicts and result
\* paths it comes from, and also when a cached outcome is served later.
ClosesOnlyResolved ==
  [][card.st = "DRAFT" /\ card'.st = "DONE" /\ card.branch = "none" => visit.note = "close"]_rvars

\* A ticket closed as split has all its children, linked and decided, even if
\* earlier attempts at the split were cut short.
SplitIsComplete ==
  card.st = "CLOSED" /\ disk.cache # Nothing /\ disk.cache.note = "split" => kids.made = 2 /\ kids.linked /\ kids.decided = 2

\* Refine's decisions are sound: nothing is closed that was not resolved, and
\* nothing is closed as split that lacks a child.
DecisionsAreSound == [](RTypeOK /\ SplitIsComplete) /\ ClosesOnlyResolved

\* A draft whose dependencies are met is decided: no chain of crashes, cached
\* outcomes, checkpoints and migrations keeps it in DRAFT.
DraftIsDecided == card.st = "DRAFT" /\ ~card.unmet ~> card.st # "DRAFT"

\* A draft is parked for a reply only while a question is open ("the agent can
\* continue from exactly where it paused").  The parked outcome is cached under
\* the draft's hash, and served again once the question is answered.
PausesOnlyOnQuestion ==
  [][card.st = "DRAFT" /\ card'.st = "AWAITING_USER_REPLY" => talk'.asked = "open"]_rvars

\* An operator's approval is asked for once.  The convergence guard, among
\* others, does not look whether it was given.
NotRegated ==
  [][card.st = "DRAFT" /\ card'.st = "HUMAN_ISSUE_APPROVAL" => ~hist.approved]_rvars

\* What the convergence guard passes on was written by a refine pass.  The
\* output hash is also recorded when the pass blocked or paused.
ConvergedIsRefined ==
  [][card'.st # card.st /\ visit.note = "converged" => doc = "spec"]_rvars

\* A thread is acknowledged only once an agent has read it.  A checkpoint of
\* before the thread takes the agent's place.
FeedbackIsRead == talk.acked \subseteq talk.seen

\* A placeholder ticket is closed, never implemented.  The guard that refuses
\* DONE without a branch does not know its note.
PlaceholderIsClosed == [][card'.st = "READY" => visit.note # "placeholder"]_rvars

\* The verdict that approves a specification was given on it.  The file of an
\* earlier pass is read when the check is skipped or fails.
VerdictIsCurrent ==
  [][card.st = "DRAFT" /\ card'.st = "READY" /\ visit.note = "verdict" =>
       disk.verdict # Nothing /\ disk.verdict.of = doc]_rvars

=============================================================================
