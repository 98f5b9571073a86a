------------------------------- MODULE Dedup -------------------------------
(***************************************************************************)
(* Closing drafts as duplicates of one another (the dedup part of          *)
(* _run_pre_refine_classifier, and _is_valid_dedup_target).  The model     *)
(* names a ticket; the code decides from that ticket's state and history   *)
(* whether the draft may be closed into it.  The drafts of one board are   *)
(* refined concurrently: what a refine run sees of its target may be old   *)
(* when it closes the draft.                                               *)
(***************************************************************************)
EXTENDS Naturals, FiniteSets

CONSTANTS
  Drafts,
  Epics,
  Parent       \* the parent epic of a ticket, or "none"

ASSUME DedupConstants ==
  IsFiniteSet(Drafts) /\ "none" \notin Drafts /\ Parent \in [Drafts -> Epics \cup {"none"}]

VARIABLES
  row,       \* state, branch and history of each ticket
  pending,   \* the target a refine run has accepted, before the draft is closed
  raced      \* history: a draft was closed into a ticket that changed since

uvars == <<row, pending, raced>>

None == "none"

UTypeOK ==
  /\ row \in [Drafts -> [st : {"DRAFT", "READY", "DONE", "CLOSED", "ERRORED"},
                          progressed : BOOLEAN,     \* an event in REFINE_PROGRESS_STATES
                          closed : {"none", "dup", "delivered", "marked", "dropped"},
                          of : Drafts \cup {None},   \* the ticket its dedup note names
                          branch : {"none", "merged", "unmerged"}]]
  /\ pending \in [Drafts -> Drafts \cup {None}]
  /\ raced \in BOOLEAN

UInit ==
  /\ row = [t \in Drafts |-> [st |-> "DRAFT", progressed |-> FALSE, closed |-> "none",
                               of |-> None, branch |-> "none"]]
  /\ pending = [t \in Drafts |-> None]
  /\ raced = FALSE

sibling(t, c) == Parent[t] # None /\ Parent[c] = Parent[t]

----------------------------------------------------------------------------

\* The candidates shown to the model: live tickets and recently closed ones,
\* for a child its siblings, tickets without a parent and closed ones.
candidates(t) ==
  {c \in Drafts \ {t} :
     /\ row[c].st # "ERRORED"
     /\ Parent[t] # None => Parent[c] \in {Parent[t], None} \/ row[c].st = "CLOSED"}

\* Mutant: a ticket that was closed as a duplicate is as good as any other.
closed_for_real_Trusts(c) ==
  ~(row[c].st = "CLOSED" /\ row[c].closed = "dropped")

\* What is asked of a target's closure: it passed through DONE, not by a
\* non-implementation close, and not by a mark-done without a branch.
closed_for_real(c) ==
  ~(row[c].st = "CLOSED" /\ row[c].closed = "dropped")
  /\ row[c].closed # "dup"
  /\ ~(row[c].branch = "none" /\ row[c].closed = "marked")

\* In the order of the code: not a duplicate of the draft itself, not failed,
\* not an untouched draft; a sibling is accepted then; otherwise its closure
\* must be real and its branch merged.
_is_valid_dedup_target(t, c) ==
  /\ row[c].of # t
  /\ row[c].st # "ERRORED"
  /\ ~(row[c].st = "DRAFT" /\ ~row[c].progressed)
  /\ \/ sibling(t, c)
     \/ closed_for_real(c) /\ row[c].branch # "unmerged"

\* The classifier names c for the draft t, and c is accepted.
Judge(t) ==
  /\ row[t].st = "DRAFT" /\ pending[t] = None
  /\ \E c \in candidates(t) :
       /\ _is_valid_dedup_target(t, c)
       /\ pending' = [pending EXCEPT ![t] = c]
  /\ UNCHANGED <<row, raced>>

\* The outcome DONE, "duplicate of c", is applied.
CloseDuplicate(t) ==
  /\ pending[t] # None
  /\ row' = [row EXCEPT ![t].st = "DONE", ![t].closed = "dup", ![t].of = pending[t],
                        ![t].progressed = TRUE]
  /\ pending' = [pending EXCEPT ![t] = None]
  /\ raced' = (raced \/ ~_is_valid_dedup_target(t, pending[t]))

----------------------------------------------------------------------------
(* The rest of the pipeline, as far as a target's history shows it *)

Becomes(t, r) == row' = [row EXCEPT ![t] = r] /\ UNCHANGED <<pending, raced>>

Refined(t) ==
  /\ row[t].st = "DRAFT" /\ pending[t] = None
  /\ Becomes(t, [row[t] EXCEPT !.st = "READY", !.progressed = TRUE])

\* A dependency unblock or an operator returns it to draft.
Returned(t) ==
  row[t].st = "READY" /\ Becomes(t, [row[t] EXCEPT !.st = "DRAFT"])

Implemented(t) ==
  row[t].st = "READY" /\ row[t].branch = "none" /\ Becomes(t, [row[t] EXCEPT !.branch = "unmerged"])

Delivered(t) ==
  /\ row[t].st = "READY" /\ row[t].branch = "unmerged"
  /\ Becomes(t, [row[t] EXCEPT !.st = "DONE", !.closed = "delivered", !.branch = "merged"])

MarkedDone(t) ==
  row[t].st = "READY" /\ Becomes(t, [row[t] EXCEPT !.st = "DONE", !.closed = "marked"])

Dropped(t) ==
  row[t].st = "READY" /\ Becomes(t, [row[t] EXCEPT !.st = "CLOSED", !.closed = "dropped"])

Fails(t) ==
  row[t].st = "READY" /\ Becomes(t, [row[t] EXCEPT !.st = "ERRORED"])

Archived(t) ==
  row[t].st = "DONE" /\ Becomes(t, [row[t] EXCEPT !.st = "CLOSED"])

UNext ==
  \E t \in Drafts :
    \/ Judge(t) \/ CloseDuplicate(t) \/ Refined(t) \/ Returned(t) \/ Implemented(t)
    \/ Delivered(t) \/ MarkedDone(t) \/ Dropped(t) \/ Fails(t) \/ Archived(t)

USpec == UInit /\ [][UNext]_uvars

----------------------------------------------------------------------------
(* Properties *)

\* A group of tickets closed as duplicates of one another, with no ticket left
\* that does the work.
LostGroup(S) == S # {} /\ \A t \in S : row[t].closed = "dup" /\ row[t].of \in S

\* Chains of duplicates end in a ticket that was not closed as one, however
\* long they are, provided no target changed between judgement and closure and
\* no two of the tickets are siblings.
OneSurvives ==
  ~raced => \A S \in SUBSET Drafts :
              LostGroup(S) => \E t, c \in S : t # c /\ sibling(t, c)

\* The same without the provisos.  Siblings skip the test for a closure
\* without implementation, and a race skips all of them.
OneSurvivesAlways == \A S \in SUBSET Drafts : ~LostGroup(S)

\* An accepted target did not reach DONE by a dedup close.
TargetIsImplemented ==
  [][\A t \in Drafts : pending'[t] # None /\ pending[t] = None => row[pending'[t]].closed # "dup"]_uvars

=============================================================================
