----------------------------- MODULE Proposals -----------------------------
(***************************************************************************)
(* What a periodic pass leaves behind (agents/runners/pass_runner.py): it  *)
(* shows its agent a memory file and the tickets it filed before, files a  *)
(* ticket for each finding the agent reports, under one open epic per      *)
(* source, and writes the agent's memory back.  The agent may report       *)
(* anything, also what was filed before, and may claim in its memory to    *)
(* have filed anything.  A pass of one source can run twice at once (the   *)
(* loop and the "run now" route); it can die between any two sessions.     *)
(*                                                                         *)
(* A finding is named by its gap id, whatever the order of the id's words  *)
(* (canonical_gap_id), and a rollup by the set of the ids it joins.        *)
(***************************************************************************)
EXTENDS Naturals, Sequences, FiniteSets

CONSTANTS
  Gaps,
  Runs,          \* runs of the pass that can be under way at once
  Rollup,        \* scanner_rollup, for a source in _ROLLUP_SOURCES
  MaxPerRun,     \* max_drafts, scanner_max_drafts_per_run
  MaxCards,      \* bound: tickets on the board
  MaxFaults      \* bound: sessions that raise

ASSUME ProposalsConstants ==
  IsFiniteSet(Gaps) /\ IsFiniteSet(Runs) /\ Rollup \in BOOLEAN
  /\ MaxPerRun \in Nat \ {0} /\ MaxCards \in Nat /\ MaxFaults \in Nat

VARIABLES
  cards,    \* the board: epics and drafts of this source, in order of creation
  ledger,   \* the gaps the memory file calls filed
  prun,     \* the runs
  faults

qvars == <<cards, ledger, prun, faults>>

Card == [kind : {"epic", "draft"}, marks : SUBSET Gaps, about : SUBSET Gaps,
         st : {"open", "closed", "deleted"}, parent : 0..MaxCards]
Finding == [about : SUBSET Gaps, marked : BOOLEAN]
QSteps == {"idle", "look", "epic", "newepic", "makeepic", "file", "undo", "delete", "persist"}
NoRun == [pc |-> "idle", todo |-> <<>>, filed |-> {}, epic |-> 0, fresh |-> FALSE]

QTypeOK ==
  /\ cards \in Seq(Card) /\ Len(cards) <= MaxCards
  /\ ledger \subseteq Gaps
  /\ DOMAIN prun \subseteq Runs
  /\ \A r \in DOMAIN prun : prun[r] \in [pc : QSteps, todo : Seq(Finding), filed : SUBSET (SUBSET Gaps),
                                        epic : 0..MaxCards, fresh : BOOLEAN]
  /\ faults \in 0..MaxFaults

QInit ==
  /\ cards = <<>> /\ ledger = {} /\ faults = 0
  /\ prun = [r \in Runs |-> NoRun]

QTo(r, p) == prun' = [prun EXCEPT ![r].pc = p]
NextFinding(r) ==
  prun' = [prun EXCEPT ![r].todo = Tail(@), ![r].epic = 0, ![r].fresh = FALSE,
                       ![r].pc = IF Len(prun[r].todo) = 1 THEN "persist" ELSE "look"]
Shown == {i \in DOMAIN cards : cards[i].st # "deleted"}
Raises == faults < MaxFaults /\ faults' = faults + 1

----------------------------------------------------------------------------

\* _maybe_collapse_scanner_rollup: two findings or more become one.
collapse(fs) ==
  IF Rollup /\ Len(fs) >= 2
  THEN <<[about |-> UNION {fs[i].about : i \in DOMAIN fs}, marked |-> \A i \in DOMAIN fs : fs[i].marked]>>
  ELSE fs

\* run_agent_pass up to the agent's answer.  An answer that cannot be parsed
\* ends the run and leaves the memory as it was.
Begin(r) ==
  /\ prun[r].pc = "idle"
  /\ \E n \in 0..MaxPerRun, marked \in BOOLEAN :
       \E names \in [1..n -> Gaps] :
         LET fs == collapse([i \in 1..n |-> [about |-> {names[i]}, marked |-> marked]])
         IN prun' = [prun EXCEPT ![r] = [NoRun EXCEPT !.pc = IF n = 0 THEN "persist" ELSE "look",
                                                      !.todo = fs]]
  /\ UNCHANGED <<cards, ledger, faults>>

\* Mutant: only a ticket still in flight counts as filed.
_find_prior_gap_InFlight(ids) ==
  {i \in Shown : cards[i].kind = "draft" /\ cards[i].marks = ids /\ cards[i].st = "open"}

\* _verify_prior_proposals and _find_prior_gap: a ticket that carries the id,
\* whether it is in flight, merged or declined.
_find_prior_gap(ids) ==
  {i \in Shown : cards[i].kind = "draft" /\ cards[i].marks = ids}

\* _title_fingerprint_match, for a finding without an id.
_title_fingerprint_match(ids) ==
  {i \in Shown : cards[i].st = "open" /\ cards[i].kind = "draft" /\ cards[i].about = ids
                 /\ Cardinality(ids) = 1}

NotFiledBefore(r) ==
  LET f == Head(prun[r].todo)
  IN IF f.marked THEN _find_prior_gap(f.about) = {} ELSE _title_fingerprint_match(f.about) = {}

\* _create_one_draft: what was filed before only gains evidence ...
Refiled(r) ==
  /\ prun[r].pc = "look" /\ ~NotFiledBefore(r)
  /\ NextFinding(r)
  /\ UNCHANGED <<cards, ledger, faults>>

\* ... what the repository contradicts is dropped: the test file is there, the
\* source module is not, the premise of the move does not hold, the target board
\* cannot be resolved ...
Contradicted(r) ==
  /\ prun[r].pc = "look"
  /\ NextFinding(r)
  /\ UNCHANGED <<cards, ledger, faults>>

\* ... and the rest goes on to its epic.
PassesChecks(r) ==
  /\ prun[r].pc = "look"
  /\ \/ NotFiledBefore(r) /\ UNCHANGED faults
     \/ Raises                  \* the look raises and shows nothing
  /\ QTo(r, "epic")
  /\ UNCHANGED <<cards, ledger>>

\* _find_scanner_epic
open_epics == {i \in Shown : cards[i].kind = "epic" /\ cards[i].st = "open"}

FindEpic(r) ==
  /\ prun[r].pc = "epic"
  /\ \/ \E e \in open_epics :
          prun' = [prun EXCEPT ![r].epic = e, ![r].pc = "file"] /\ UNCHANGED faults
     \/ open_epics = {} /\ QTo(r, "newepic") /\ UNCHANGED faults
     \/ Raises /\ QTo(r, "newepic")
  /\ UNCHANGED <<cards, ledger>>

\* _find_or_create_scanner_epic looks once more.  Its epic counts as created
\* by this run in any case.
FindEpicAgain(r) ==
  /\ prun[r].pc = "newepic"
  /\ \/ \E e \in open_epics :
          prun' = [prun EXCEPT ![r].epic = e, ![r].fresh = TRUE, ![r].pc = "file"] /\ UNCHANGED faults
     \/ open_epics = {} /\ QTo(r, "makeepic") /\ UNCHANGED faults
     \/ Raises /\ QTo(r, "makeepic")
  /\ UNCHANGED <<cards, ledger>>

CreateEpic(r) ==
  /\ prun[r].pc = "makeepic" /\ Len(cards) < MaxCards
  /\ cards' = Append(cards, [kind |-> "epic", marks |-> {}, about |-> {}, st |-> "open", parent |-> 0])
  /\ prun' = [prun EXCEPT ![r].epic = Len(cards) + 1, ![r].fresh = TRUE, ![r].pc = "file"]
  /\ UNCHANGED <<ledger, faults>>

\* Creating the epic fails: the draft is filed without a parent.
NoEpic(r) ==
  /\ prun[r].pc = "makeepic" /\ Raises
  /\ QTo(r, "file") /\ UNCHANGED <<cards, ledger>>

\* service.create refuses a parent that is gone.
CreateDraft(r) ==
  LET f == Head(prun[r].todo)
      e == prun[r].epic
  IN /\ prun[r].pc = "file" /\ Len(cards) < MaxCards
     /\ e \in Shown \cup {0}
     /\ cards' = Append(cards, [kind |-> "draft", marks |-> IF f.marked THEN f.about ELSE {},
                                about |-> f.about, st |-> "open", parent |-> e])
     /\ prun' = [prun EXCEPT ![r].filed = @ \cup (IF f.marked THEN {f.about} ELSE {}),
                             ![r].todo = Tail(@), ![r].epic = 0, ![r].fresh = FALSE,
                             ![r].pc = IF Len(prun[r].todo) = 1 THEN "persist" ELSE "look"]
     /\ UNCHANGED <<ledger, faults>>

CreateFails(r) ==
  /\ prun[r].pc = "file"
  /\ IF prun[r].epic \in Shown \cup {0} THEN Raises ELSE UNCHANGED faults
  /\ IF prun[r].fresh THEN QTo(r, "undo") ELSE NextFinding(r)
  /\ UNCHANGED <<cards, ledger>>

childless(e) == \A i \in Shown : cards[i].parent # e

\* After a failed create, an epic made for it and still without children is
\* deleted: a look, then a delete.
LookForChildren(r) ==
  /\ prun[r].pc = "undo"
  /\ IF childless(prun[r].epic) THEN QTo(r, "delete") ELSE NextFinding(r)
  /\ UNCHANGED <<cards, ledger, faults>>

DeleteEpic(r) ==
  /\ prun[r].pc = "delete"
  /\ cards' = [cards EXCEPT ![prun[r].epic].st = "deleted"]
  /\ NextFinding(r)
  /\ UNCHANGED <<ledger, faults>>

\* Mutant: the agent's word is taken for it.
_strip_unverified_filed_annotations_Trusts(mem, filed) == mem

\* Of the gaps the agent calls filed, those whose ticket this run created.
_strip_unverified_filed_annotations(mem, filed) == {g \in mem : {g} \in filed}

\* persist_memory; an empty answer leaves the file alone.
Persist(r) ==
  /\ prun[r].pc = "persist"
  /\ \/ \E mem \in SUBSET Gaps : ledger' = _strip_unverified_filed_annotations(mem, prun[r].filed)
     \/ UNCHANGED ledger
  /\ prun' = [prun EXCEPT ![r] = NoRun]
  /\ UNCHANGED <<cards, faults>>

QCrash ==
  /\ \E r \in Runs : prun[r].pc # "idle"
  /\ prun' = [r \in Runs |-> NoRun]
  /\ UNCHANGED <<cards, ledger, faults>>

\* The rest of the pipeline closes drafts and, with all its children, an epic.
CardCloses ==
  /\ \E i \in Shown :
       /\ cards[i].st = "open"
       /\ cards[i].kind = "epic" => \A j \in Shown : cards[j].parent = i => cards[j].st = "closed"
       /\ cards' = [cards EXCEPT ![i].st = "closed"]
  /\ UNCHANGED <<ledger, prun, faults>>

PassRun(r) ==
  \/ Begin(r) \/ Refiled(r) \/ Contradicted(r) \/ PassesChecks(r) \/ FindEpic(r) \/ FindEpicAgain(r) \/ CreateEpic(r)
  \/ NoEpic(r) \/ CreateDraft(r) \/ CreateFails(r) \/ LookForChildren(r) \/ DeleteEpic(r) \/ Persist(r)

QNext == (\E r \in Runs : PassRun(r)) \/ CardCloses \/ QCrash

QSpec == QInit /\ [][QNext]_qvars

----------------------------------------------------------------------------
(* Properties *)

Alone == Cardinality(DOMAIN prun) = 1

\* "Prevents re-filing the same finding on every run": one run at a time, and
\* with a board that can be read, no id is filed twice, whatever the agent
\* repeats and wherever a run before it died.
FiledOncePerGap ==
  Alone /\ faults = 0 =>
    \A i, j \in Shown : cards[i].kind = "draft" /\ cards[i].marks # {} /\ cards[i].marks = cards[j].marks
                        => i = j

\* One run at a time, taking back an epic never leaves a draft without its
\* parent.
ParentsExist == Alone => \A i \in Shown : cards[i].parent # 0 => cards[i].parent \in Shown

\* The memory calls filed only what has a ticket, although the agent wrote it.
LedgerIsTrue == \A g \in ledger : \E i \in Shown : cards[i].marks = {g}

\* What passes leave on the board and in their memory is sound.
ProposalsAreSound == QTypeOK /\ FiledOncePerGap /\ ParentsExist /\ LedgerIsTrue

\* A finding is on the board at most once.  A rollup's id is none of those it
\* joins, so its findings are filed again one by one.
FindingIsFiledOnce ==
  \A i, j \in Shown : cards[i].kind = "draft" /\ cards[i].marks # {} /\ cards[j].marks # {}
                      /\ cards[i].about \cap cards[j].about # {} => i = j

=============================================================================
