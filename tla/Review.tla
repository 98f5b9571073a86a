------------------------------- MODULE Review -------------------------------
(***************************************************************************)
(* The review stage (stages/review.py): a reviewer's verdict on the diff   *)
(* sends the ticket on, back to implement, or to the operator.  The number *)
(* of rounds is a column of the ticket; the cached verdict, the findings   *)
(* of the last round and the diff a question was asked on are files of the *)
(* workspace.  A crash may come between any two of these writes, and the   *)
(* stage then starts again from what they left.                            *)
(*                                                                         *)
(* A diff stands for its text and the head it is read at.  The verdict of  *)
(* the reviewer, the outcome of each look-up of a pinned commit and of     *)
(* each claim's verification are choices.  Left out: the reviewer's        *)
(* prompt, clones of sibling repositories, comments that are not questions.*)
(***************************************************************************)
EXTENDS Naturals, FiniteSets

CONSTANTS
  Diffs,       \* diffs implement may leave, without the empty one
  BadPins,     \* the diffs that pin a commit that may not exist or is too old
  Asks,        \* changes a reviewer may ask for
  AskFiles,    \* files_touched of each
  FileMap,     \* file_map.json, {} when there is none
  Touched,     \* the files of each diff
  MaxRounds,   \* review_max_rounds
  MaxCrashes,  \* bound: crashes of the stage
  MaxOps       \* bound: interventions of the operator

ASSUME ReviewConstants ==
  /\ BadPins \subseteq Diffs /\ {"empty", "none"} \cap Diffs = {}
  /\ MaxRounds \in Nat /\ MaxCrashes \in Nat /\ MaxOps \in Nat

VARIABLES
  rev,      \* the ticket: state and review_rounds
  tip,      \* the diff of its branch
  vdisk,    \* stage_cache.json, findings_fingerprint.txt, review_ask_user_diff.json
  quest,    \* the latest [ASK_USER] thread, and whether any was ever answered
  look,     \* the run of the stage
  filed,    \* how often a follow-up ticket was created for an ask: 2 is "more than once"
  vhist     \* history: crashes, interventions, verdicts

vvars == <<rev, tip, vdisk, quest, look, filed, vhist>>

\* The first request for changes reaches a cap of zero as it does a cap of one.
RoundLimit == IF MaxRounds = 0 THEN 1 ELSE MaxRounds

NoEntry == [none |-> TRUE]
NoFindings == {"none"}
VStates == {"CODE_REVIEW", "READY", "DOCUMENTING", "BLOCKED", "AWAITING_USER_REPLY"}
VSteps == {"idle", "answer", "kick", "cache", "agent", "shas", "floors", "verdict", "converge", "split",
           "spawn", "settle", "record", "return"}
AllDiffs == Diffs \cup {"empty"}

NoLook == [pc |-> "idle", rounds |-> 0, verdict |-> "none", asks |-> {}, out |-> {}, met |-> {},
           done |-> {}, dst |-> "CODE_REVIEW"]

VTypeOK ==
  /\ rev \in [st : VStates, rounds : 0..(RoundLimit - 1 + MaxOps)]
  /\ tip \in AllDiffs
  /\ vdisk.ask \in AllDiffs \cup {"none"}
  /\ vdisk.cache # NoEntry =>
       vdisk.cache \in [diff : Diffs, rounds : 0..(RoundLimit - 1 + MaxOps), dst : {"READY", "DOCUMENTING"},
                        old : BOOLEAN]
  /\ vdisk.found = NoFindings \/ vdisk.found \subseteq Asks
  /\ quest \in [last : {"none", "open", "change", "fine"}, replied : BOOLEAN]
  /\ look.pc \in VSteps /\ look.asks \subseteq Asks /\ look.out \subseteq look.asks
  /\ filed \in [Asks -> 0..2]

VInit ==
  /\ rev = [st |-> "CODE_REVIEW", rounds |-> 0]
  /\ tip \in AllDiffs
  /\ vdisk = [cache |-> NoEntry, found |-> NoFindings, ask |-> "none"]
  /\ quest = [last |-> "none", replied |-> FALSE]
  /\ look = NoLook /\ filed = [a \in Asks |-> 0]
  /\ vhist = [crashes |-> 0, ops |-> 0, requests |-> 0, due |-> FALSE, passed |-> {"empty"}]

VAt(label) == look.pc = label
VTo(label) == look' = [look EXCEPT !.pc = label]
Concludes(d) == look' = [look EXCEPT !.pc = "return", !.dst = d]
SetRounds(n) == rev' = [rev EXCEPT !.rounds = n]

\* _update: one entry per stage, and never a BLOCKED one.
Cache(d) == vdisk' = [vdisk EXCEPT !.cache = [diff |-> tip, rounds |-> look.rounds, dst |-> d, old |-> FALSE]]

----------------------------------------------------------------------------
(* run, before the reviewer *)

\* A missing clone or a failing diff blocks; an empty diff needs no review.
ResolveDiff ==
  /\ rev.st = "CODE_REVIEW" /\ VAt("idle")
  /\ \/ look' = [NoLook EXCEPT !.pc = "return", !.dst = "BLOCKED"]
     \/ look' = [NoLook EXCEPT !.pc = IF tip = "empty" THEN "return" ELSE "answer", !.rounds = rev.rounds,
                               !.dst = IF tip = "empty" THEN "DOCUMENTING" ELSE "CODE_REVIEW"]
  /\ UNCHANGED <<rev, tip, vdisk, quest, filed, vhist>>

\* _unaddressed_change_answer: the record of the diff asked about is used up
\* whatever comes of it.
ChangeAnswer ==
  /\ VAt("answer")
  /\ vdisk' = [vdisk EXCEPT !.ask = "none"]
  /\ VTo(IF vdisk.ask = tip /\ quest.last = "change" THEN "kick" ELSE "cache")
  /\ UNCHANGED <<rev, tip, quest, filed, vhist>>

\* The answer asks for a change and the diff is the one asked about.
KickBack ==
  /\ VAt("kick")
  /\ SetRounds(look.rounds + 1) /\ Concludes("READY")
  /\ UNCHANGED <<tip, vdisk, quest, filed, vhist>>

\* Mutant: the key leaves the diff and the head out.
SameInput_Spec(e) == e.rounds = look.rounds

\* Mutant: the key leaves the round out.
SameInput_AnyRound(e) == e.diff = tip

\* review_input_hash: diff, head, and the round if it is not zero.
SameInput(e) == e.diff = tip /\ e.rounds = look.rounds

\* _check
CheckCache ==
  /\ VAt("cache")
  /\ IF vdisk.cache # NoEntry
     THEN IF SameInput(vdisk.cache) THEN Concludes(vdisk.cache.dst) ELSE VTo("agent")
     ELSE VTo("agent")
  /\ UNCHANGED <<rev, tip, vdisk, quest, filed, vhist>>

----------------------------------------------------------------------------
(* The verdict *)

\* run_review_agent: a verdict, or an error that is not transient.
Reviewer ==
  /\ VAt("agent")
  /\ \/ Concludes("BLOCKED")
     \/ \E v \in {"APPROVE", "ASK_USER", "REQUEST_CHANGES"}, S \in SUBSET Asks :
          /\ v # "REQUEST_CHANGES" => S = {}
          /\ look' = [look EXCEPT !.pc = "shas", !.verdict = v, !.asks = S]
  /\ UNCHANGED <<rev, tip, vdisk, quest, filed, vhist>>

\* _gaps_already_addressed: the diff touches every file the ask names.
addressed(a) == AskFiles[a] # {} /\ AskFiles[a] \subseteq Touched[tip]

\* _action_refs_from_diff, _reusable_workflow_sha_refs_from_diff: whether the
\* added lines pin a commit.
sha_refs == tip \in BadPins

\* _verify_action_sha: the commit is not there, or nobody can tell.
_verify_action_sha == IF sha_refs THEN {"absent", "unknown"} ELSE {"present"}

\* _sha_is_older_than, for a note of the operator that names a commit.
_sha_is_older_than == IF sha_refs THEN {"older", "unknown"} ELSE {"newer"}

\* The ask put in front of the reviewer's own.
Forces(label) ==
  \E a \in {b \in Asks : addressed(b)} :
    look' = [look EXCEPT !.pc = label, !.verdict = "REQUEST_CHANGES", !.asks = @ \cup {a}]

\* _validate_action_shas: only a commit known to be absent changes the verdict.
ValidateShas ==
  /\ VAt("shas")
  /\ \E x \in _verify_action_sha : IF x = "absent" THEN Forces("floors") ELSE VTo("floors")
  /\ UNCHANGED <<rev, tip, vdisk, quest, filed, vhist>>

\* _enforce_approval_constraint_pins, _pin_constraint_ask: here an ancestry
\* that cannot be established is asked about too.  Without a note it passes.
EnforceFloors ==
  /\ VAt("floors")
  /\ \E noted \in BOOLEAN, x \in _sha_is_older_than :
       IF noted /\ x # "newer" THEN Forces("verdict") ELSE VTo("verdict")
  /\ UNCHANGED <<rev, tip, vdisk, quest, filed, vhist>>

ApproveDiff ==
  /\ VAt("verdict") /\ look.verdict = "APPROVE"
  /\ SetRounds(0) /\ Cache("DOCUMENTING") /\ Concludes("DOCUMENTING")
  /\ vhist' = [vhist EXCEPT !.passed = @ \cup {tip}]
  /\ UNCHANGED <<tip, quest, filed>>

\* A question, not cached: the key does not hold the answer.
AskOperator ==
  /\ VAt("verdict") /\ look.verdict = "ASK_USER"
  /\ quest' = [quest EXCEPT !.last = "open"] /\ VTo("record")
  /\ UNCHANGED <<rev, tip, vdisk, filed, vhist>>

\* Mutant: the diff the question is about is not recorded.
RecordAskDiff_Forgets ==
  /\ VAt("record") /\ Concludes("AWAITING_USER_REPLY")
  /\ UNCHANGED <<rev, tip, vdisk, quest, filed, vhist>>

\* _record_ask_user_diff
RecordAskDiff ==
  /\ VAt("record")
  /\ vdisk' = [vdisk EXCEPT !.ask = tip] /\ Concludes("AWAITING_USER_REPLY")
  /\ UNCHANGED <<rev, tip, quest, filed, vhist>>

----------------------------------------------------------------------------
(* _handle_request_changes *)

\* Mutant: the cap is tested on the count before this round and once only.
AtCap_Exactly(n) == n = MaxRounds + 1

AtCap(n) == n >= MaxRounds

\* Whatever was cached before belongs to an earlier round now.
Aged == IF vdisk.cache = NoEntry THEN vdisk ELSE [vdisk EXCEPT !.cache.old = TRUE]

\* _round_cap_directives: what the reviewer asks for, and every answer the
\* operator ever gave.
directives == look.asks # {} \/ quest.replied

\* _pause_for_directive_confirmation
PauseForDirectives == quest' = [quest EXCEPT !.last = "open"] /\ SetRounds(0) /\ VTo("record") /\ vdisk' = Aged

\* The round is counted.  At the cap the directives go to the operator, and
\* without any the ticket goes on.
CountRound ==
  /\ VAt("verdict") /\ look.verdict = "REQUEST_CHANGES"
  /\ vhist' = [vhist EXCEPT !.requests = @ + 1,
                            !.passed = IF AtCap(look.rounds + 1) THEN @ \cup {tip} ELSE @]
  /\ IF ~AtCap(look.rounds + 1)
     THEN /\ SetRounds(look.rounds + 1) /\ VTo("converge")
          /\ vdisk' = Aged /\ UNCHANGED quest
     ELSE IF directives THEN PauseForDirectives
     ELSE SetRounds(0) /\ Cache("DOCUMENTING") /\ Concludes("DOCUMENTING") /\ UNCHANGED quest
  /\ UNCHANGED <<tip, filed>>

\* _detect_convergence: the findings of the last round again.  The file keeps
\* them; the outcome, being BLOCKED, is not cached.
DetectConvergence ==
  /\ VAt("converge")
  /\ IF vdisk.found = look.asks
     THEN SetRounds(0) /\ Concludes("BLOCKED") /\ UNCHANGED vdisk
     ELSE vdisk' = [vdisk EXCEPT !.found = look.asks] /\ VTo("split") /\ UNCHANGED rev
  /\ UNCHANGED <<tip, quest, filed, vhist>>

\* _split_asks
in_scope(a) == FileMap = {} \/ AskFiles[a] \subseteq FileMap

\* Mutant: an ask that looks addressed is never verified and never filed.
StillOut_Trusts(out, met) == {a \in out : ~addressed(a)}

\* Out-of-scope asks that are not addressed, or whose claim is not found in the
\* repository (_verify_already_addressed_asks).
StillOut(out, met) == out \ met

SplitAsks ==
  /\ VAt("split")
  /\ LET out == {a \in look.asks : ~in_scope(a)}
     IN \E met \in SUBSET {a \in out : addressed(a)} :
          look' = [look EXCEPT !.pc = "spawn", !.out = StillOut(out, met), !.met = met]
  /\ UNCHANGED <<rev, tip, vdisk, quest, filed, vhist>>

\* _spawn_dependency_tickets: one ticket after the other, whether or not an
\* earlier round or a run that crashed has filed the same ask.
SpawnFollowUp ==
  /\ VAt("spawn")
  /\ IF look.out = look.done THEN VTo("settle") /\ UNCHANGED filed
     ELSE \E a \in look.out \ look.done :
            /\ filed' = [filed EXCEPT ![a] = IF @ = 2 THEN 2 ELSE @ + 1]
            /\ look' = [look EXCEPT !.done = @ \cup {a}]
  /\ UNCHANGED <<rev, tip, vdisk, quest, vhist>>

\* In-scope asks go back to implement; a verdict of which only filed or
\* addressed asks remain is an approval; one without asks goes back.
Settle ==
  /\ VAt("settle")
  /\ LET goesOn == look.asks # {} /\ \A a \in look.asks : ~in_scope(a)
         d == IF goesOn THEN "DOCUMENTING" ELSE "READY"
     IN /\ Cache(d) /\ Concludes(d)
        /\ IF goesOn THEN SetRounds(0) ELSE UNCHANGED rev
        /\ vhist' = IF goesOn THEN [vhist EXCEPT !.passed = @ \cup {tip}] ELSE vhist
  /\ UNCHANGED <<tip, quest, filed>>

\* The worker applies the outcome.
VReturn ==
  /\ VAt("return")
  /\ rev' = [rev EXCEPT !.st = look.dst] /\ look' = NoLook
  /\ vhist' = [vhist EXCEPT !.due = @ /\ look.dst = "BLOCKED"]
  /\ UNCHANGED <<tip, vdisk, quest, filed>>

VStage ==
  \/ ResolveDiff \/ ChangeAnswer \/ KickBack \/ CheckCache \/ Reviewer \/ ValidateShas \/ EnforceFloors \/ ApproveDiff
  \/ AskOperator \/ RecordAskDiff \/ CountRound \/ DetectConvergence \/ SplitAsks
  \/ SpawnFollowUp \/ Settle \/ VReturn

----------------------------------------------------------------------------
(* The rest of the system *)

VCrash ==
  /\ ~VAt("idle") /\ vhist.crashes < MaxCrashes
  /\ look' = NoLook /\ vhist' = [vhist EXCEPT !.crashes = @ + 1]
  /\ UNCHANGED <<rev, tip, vdisk, quest, filed>>

\* Implement comes back with the diff it wants.
ImplementAgain ==
  /\ rev.st = "READY"
  /\ tip' \in AllDiffs /\ rev' = [rev EXCEPT !.st = "CODE_REVIEW"]
  /\ UNCHANGED <<vdisk, quest, look, filed, vhist>>

OperatorAnswers ==
  /\ rev.st = "AWAITING_USER_REPLY" /\ vhist.ops < MaxOps
  /\ \E a \in {"change", "fine"} :
       /\ quest' = [last |-> a, replied |-> TRUE]
       /\ vhist' = [vhist EXCEPT !.ops = @ + 1, !.requests = 0, !.due = a = "change"]
  /\ rev' = [rev EXCEPT !.st = "CODE_REVIEW"]
  /\ UNCHANGED <<tip, vdisk, look, filed>>

\* resume_blocked, and a request for changes on the delivered work.
OperatorResumes ==
  /\ rev.st \in {"BLOCKED", "DOCUMENTING"} /\ vhist.ops < MaxOps
  /\ vhist' = [vhist EXCEPT !.ops = @ + 1, !.requests = 0]
  /\ rev' = [rev EXCEPT !.st = IF rev.st = "BLOCKED" THEN "CODE_REVIEW" ELSE "READY"]
  /\ UNCHANGED <<tip, vdisk, quest, look, filed>>

VNext == VStage \/ VCrash \/ ImplementAgain \/ OperatorAnswers \/ OperatorResumes

VSpec == VInit /\ [][VNext]_vvars /\ WF_vvars(VStage) /\ WF_vvars(ImplementAgain)

----------------------------------------------------------------------------
(* Properties *)

\* No diff leaves the review unless a reviewer passed this very diff or its
\* rounds ran out on it, whatever is cached from other diffs and rounds.
ApprovedIsReviewed ==
  [][rev'.st = "DOCUMENTING" /\ rev.st # "DOCUMENTING" => tip \in vhist.passed]_vvars

\* Nothing a reviewer asked for is dropped on the way on: it was filed as a
\* ticket of its own, or the diff touches every file it names.
AsksAreKept ==
  [][VAt("settle") /\ look'.dst = "DOCUMENTING" =>
       \A a \in look.asks : filed[a] > 0 \/ a \in look.met]_vvars

\* Between two interventions of the operator a reviewer asks for changes at
\* most review_max_rounds times, one more for every crash that lost a reset.
ReviewsAreBounded == vhist.requests <= RoundLimit * (vhist.crashes + 1)

\* Left alone, without a crash and without the operator, the ticket leaves the
\* loop of review and implement.  After either, an entry cached in round zero
\* can send it round for ever (NoEarlierRoundReplay).
LeftAlone == vhist.ops = 0 /\ vhist.crashes = 0
LoopEnds ==
  (rev.st \in {"CODE_REVIEW", "READY"} /\ LeftAlone)
    ~> (rev.st \notin {"CODE_REVIEW", "READY"} \/ ~LeftAlone)

\* What _stage_cache.py says of the round in the key: a verdict cached in an
\* earlier round is never replayed.  Rounds return to zero and the entry of
\* round zero is still there.
NoEarlierRoundReplay == [][VAt("cache") /\ look'.pc = "return" => ~vdisk.cache.old]_vvars

\* An answer that asks for a change goes to implement before the diff it is
\* about can be passed.  (A crash after the record was used up loses it.)
AnswerIsActedOn ==
  [][rev'.st = "DOCUMENTING" /\ rev.st = "CODE_REVIEW" => ~vhist.due \/ vhist.crashes > 0]_vvars

\* Review's verdicts are sound: an approval is of the diff that was reviewed,
\* no ask and no answer is dropped, and rounds are bounded.
VerdictsAreSound ==
  [](VTypeOK /\ ReviewsAreBounded) /\ ApprovedIsReviewed /\ AsksAreKept /\ AnswerIsActedOn

\* A finding outside the scope is filed once.  A later round, or the run after
\* a crash, files it again.
FiledOnce == \A a \in Asks : filed[a] < 2

=============================================================================
