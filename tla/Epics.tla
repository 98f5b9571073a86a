------------------------------ MODULE Epics ------------------------------
(***************************************************************************)
(* An epic and its children: the promotion and first breakdown             *)
(* (stages/classify.py), the breakdown an operator asks for                *)
(* (routes/_epics.py) or a comment triggers, the re-evaluation a finished  *)
(* child triggers (runtime/worker/epic.py), and the sweep that closes an   *)
(* epic whose children are all finished (runtime/worker/core.py).  Each of *)
(* the threads reads, asks an agent and writes later; what it wrote last   *)
(* may be out of date.                                                     *)
(*                                                                         *)
(* A title stands for every title similar to it.  Ages of children are two *)
(* flags: fresh (younger than the window that holds new children back) and *)
(* late (filed after the epic's own window).                               *)
(***************************************************************************)
EXTENDS Naturals, Sequences, FiniteSets

CONSTANTS
    Titles,        \* what a child may be about
    Evals,         \* re-evaluation threads
    MaxKids,       \* bound: children ever created
    MaxReeval,     \* epic_max_reeval_children
    Overlaps       \* two re-evaluations may run at a time

ASSUME EpicAssumption ==
    /\ MaxKids \in Nat /\ MaxReeval \in Nat
    /\ Overlaps \in BOOLEAN

VARIABLES
    epic,       \* the epic's state
    kids,       \* its children, in order of creation
    settled,    \* the epic is older than the window
    eval,       \* the re-evaluation threads
    break,      \* the breakdown in progress
    sweep       \* the sweep has seen every child finished

evars == <<epic, kids, settled, eval, break, sweep>>

(* How a child ends: merged; closed with nothing delivered (no change      *)
(* needed among the reasons); a duplicate of another child.                *)
Finished == {"merged", "nothing", "duplicate"}
KidStates == {"draft", "working"} \cup Finished

Kid == [title : Titles, st : KidStates, canon : 0..MaxKids, fresh : BOOLEAN,
        late : BOOLEAN, by : {"breakdown", "reeval"}]

NoEval == [at |-> "idle", news |-> {}, seen |-> 0]
NoBreak == [at |-> "idle", news |-> {}]

ETypeOK ==
    /\ epic \in {"classifying", "open", "closed"}
    /\ kids \in Seq(Kid) /\ Len(kids) <= MaxKids
    /\ settled \in BOOLEAN
    /\ \A r \in Evals :
          /\ eval[r].at \in {"idle", "asking", "filing", "closing"}
          /\ eval[r].news \subseteq Titles
          /\ eval[r].seen \in 0..MaxKids
    /\ break.at \in {"idle", "filing", "classify"} /\ break.news \subseteq Titles
    /\ sweep \in BOOLEAN

EInit ==
    /\ epic = "classifying"
    /\ kids = <<>>
    /\ settled = FALSE
    /\ eval = [r \in Evals |-> NoEval]
    /\ break = NoBreak
    /\ sweep = FALSE

-----------------------------------------------------------------------------
(* Delivery.                                                               *)

LiveKid(k) == k.st \notin Finished

(* _resolve_delivery follows the duplicates and finds one that merged; a   *)
(* cycle of duplicates delivered nothing.  The chain is the least set with *)
(* the child that follows them.                                            *)
FollowsDuplicates(S) == \A j \in S : kids[j].st = "duplicate" => kids[j].canon \in S

Delivered(i) ==
    \A S \in SUBSET DOMAIN kids : i \in S /\ FollowsDuplicates(S) => \E j \in S : kids[j].st = "merged"

(* The titles a re-evaluation may not file again, given what it listed.    *)
(* Mutant: only the live ones. *)
Refused_Live(list) == {list[i].title : i \in {j \in DOMAIN list : LiveKid(list[j])}}

Refused(list) ==
    {list[i].title : i \in {j \in DOMAIN list : LiveKid(list[j])}}
        \cup {kids[i].title : i \in {j \in DOMAIN list : ~LiveKid(list[j]) /\ ~Delivered(j)}}

(* _count_reeval_children: those filed after the epic's window.            *)
LateCount(list) == Cardinality({i \in DOMAIN list : list[i].late})

NewKid(t, who) ==
    [title |-> t, st |-> "draft", canon |-> 0, fresh |-> TRUE, late |-> settled, by |-> who]

-----------------------------------------------------------------------------
(* Breakdowns.                                                             *)

(* ClassifyStage: no epic, or promote_to_epic and then the children.       *)
Promote ==
    /\ epic = "classifying" /\ break.at = "idle"
    /\ \E ts \in (SUBSET Titles) \ {{}} : break' = [at |-> "classify", news |-> ts]
    /\ UNCHANGED <<epic, kids, settled, eval, sweep>>

(* One child of a breakdown is created.                                    *)
FileKid ==
    /\ break.at # "idle" /\ Len(kids) < MaxKids
    /\ \E t \in break.news :
          /\ kids' = Append(kids, NewKid(t, "breakdown"))
          /\ break' = [break EXCEPT !.news = @ \ {t}]
    /\ UNCHANGED <<epic, settled, eval, sweep>>

(* It is over, or it failed on the way, which is swallowed; the classify   *)
(* stage opens the epic all the same.                                      *)
BreakEnds ==
    /\ break.at # "idle"
    /\ break' = NoBreak
    /\ epic' = IF break.at = "classify" THEN "open" ELSE epic
    /\ UNCHANGED <<kids, settled, eval, sweep>>

(* generate_children and _run_epic_reprocess: the agent has answered.  The *)
(* second leaves out the titles that exist when it looks.                  *)
Asked(ts, again) ==
    IF again THEN ts \ {kids[i].title : i \in DOMAIN kids} ELSE ts

Breakdown ==
    /\ epic # "classifying" /\ break.at = "idle"
    /\ \E again \in BOOLEAN : \E ts \in (SUBSET Titles) \ {{}} :
          /\ again \/ kids = <<>>
          /\ break' = [at |-> "filing", news |-> Asked(ts, again)]
    /\ UNCHANGED <<epic, kids, settled, eval, sweep>>

-----------------------------------------------------------------------------
(* Re-evaluation.                                                          *)

(* A child ends; _maybe_reevaluate_epic starts a thread, which looks at    *)
(* the epic first (_validate_epic_state).                                  *)
Validated == epic = "open"

Triggers ==
    \/ \E r \in Evals :
          /\ eval[r].at = "idle"
          /\ Overlaps \/ \A x \in Evals : eval[x].at = "idle"
          /\ eval' = IF Validated THEN [eval EXCEPT ![r].at = "asking"] ELSE eval
    \/ UNCHANGED eval                              \* the thread dies at once

KidEnds(i) ==
    /\ i \in DOMAIN kids /\ kids[i].st = "working"
    /\ \E how \in Finished : \E other \in ((DOMAIN kids) \ {i}) \cup {0} :
          /\ (how = "duplicate") <=> (other # 0)
          /\ kids' = [kids EXCEPT ![i].st = how, ![i].canon = other]
    /\ Triggers
    /\ UNCHANGED <<epic, settled, break, sweep>>

(* DONE and CLOSED both count as terminal: a child triggers twice.         *)
KidEndsAgain(i) ==
    /\ i \in DOMAIN kids /\ ~LiveKid(kids[i])
    /\ Triggers
    /\ UNCHANGED <<epic, kids, settled, break, sweep>>

(* The pipeline takes a child up.                                          *)
KidStarts(i) ==
    /\ i \in DOMAIN kids /\ kids[i].st = "draft"
    /\ kids' = [kids EXCEPT ![i].st = "working"]
    /\ UNCHANGED <<epic, settled, eval, break, sweep>>

(* The agent answers, and _handle_epic_decision closes the epic or not:    *)
(* "close" is not taken with new children.                                 *)
Decide(r) ==
    /\ eval[r].at = "asking"
    /\ \E news \in SUBSET Titles :
          /\ \/ news = {} /\ epic = "open" /\ epic' = "closed"
             \/ UNCHANGED epic
          /\ eval' = [eval EXCEPT ![r].at = "filing", ![r].news = news]
    /\ UNCHANGED <<kids, settled, break, sweep>>

(* _reconcile_child_changes lists the children, once ...                   *)
HeldBack(list) ==
    \/ \E i \in DOMAIN list : LiveKid(list[i]) /\ list[i].fresh
    \/ LateCount(list) >= MaxReeval

ListKids(r) ==
    /\ eval[r].at = "filing"
    /\ eval' = [eval EXCEPT ![r].at = "closing",
                            ![r].seen = LateCount(kids),
                            ![r].news = IF HeldBack(kids) THEN {} ELSE @ \ Refused(kids)]
    /\ UNCHANGED <<epic, kids, settled, break, sweep>>

(* ... and files those of the new ones that are neither held back nor      *)
(* similar, up to the cap by its own count.                                *)
(* Mutant: the count is not carried on. *)
CountOn_Stale(n) == n

CountOn(n) == IF n < MaxKids THEN n + 1 ELSE n

FileNew(r) ==
    /\ eval[r].at = "closing" /\ eval[r].news # {}
    /\ \E t \in eval[r].news :
         IF eval[r].seen >= MaxReeval
           THEN eval' = [eval EXCEPT ![r].news = {}] /\ UNCHANGED kids
           ELSE \/ /\ Len(kids) < MaxKids
                   /\ kids' = Append(kids, NewKid(t, "reeval"))
                   /\ eval' = [eval EXCEPT ![r].news = @ \ {t}, ![r].seen = CountOn(@)]
                \/ /\ eval' = [eval EXCEPT ![r].news = @ \ {t}]   \* create raises
                   /\ UNCHANGED kids
    /\ UNCHANGED <<epic, settled, break, sweep>>

(* The closures the agent asked for: only of a draft, and only when the    *)
(* covering ticket delivered.                                              *)
CloseCovered(r) ==
    /\ eval[r].at = "closing" /\ eval[r].news = {}
    /\ \/ \E i, cover \in DOMAIN kids :
             /\ kids[i].st = "draft" /\ cover # i /\ Delivered(cover)
             /\ kids' = [kids EXCEPT ![i].st = "nothing"]
       \/ UNCHANGED kids
    /\ eval' = [eval EXCEPT ![r] = NoEval]
    /\ UNCHANGED <<epic, settled, break, sweep>>

-----------------------------------------------------------------------------
(* The sweep, the operator, time and restarts.                             *)

AllFinished == kids # <<>> /\ \A i \in DOMAIN kids : ~LiveKid(kids[i])

SweepLooks ==
    /\ epic = "open" /\ AllFinished /\ ~sweep
    /\ sweep' = TRUE
    /\ UNCHANGED <<epic, kids, settled, eval, break>>

SweepCloses ==
    /\ sweep
    /\ sweep' = FALSE
    /\ epic' = IF epic = "open" THEN "closed" ELSE epic
    /\ UNCHANGED <<kids, settled, eval, break>>

(* abandon_epic.                                                           *)
AbandonEpic ==
    /\ epic = "open"
    /\ epic' = "closed"
    /\ UNCHANGED <<kids, settled, eval, break, sweep>>

(* Ten minutes pass.                                                       *)
WindowPasses ==
    /\ ~settled \/ \E i \in DOMAIN kids : kids[i].fresh
    /\ settled' = TRUE
    /\ kids' = [i \in DOMAIN kids |-> [kids[i] EXCEPT !.fresh = FALSE]]
    /\ UNCHANGED <<epic, eval, break, sweep>>

(* The process dies with its threads; a promotion is tried again.          *)
ERestart ==
    /\ eval' = [r \in Evals |-> NoEval]
    /\ break' = NoBreak
    /\ sweep' = FALSE
    /\ UNCHANGED <<epic, kids, settled>>

ENext ==
    \/ Promote \/ FileKid \/ BreakEnds \/ Breakdown
    \/ \E i \in 1..MaxKids : KidEnds(i) \/ KidEndsAgain(i) \/ KidStarts(i)
    \/ \E r \in Evals : Decide(r) \/ ListKids(r) \/ FileNew(r) \/ CloseCovered(r)
    \/ SweepLooks \/ SweepCloses \/ AbandonEpic
    \/ WindowPasses \/ ERestart

ESpec == EInit /\ [][ENext]_evars

-----------------------------------------------------------------------------
(* The re-evaluations of an epic that is past its window file at most      *)
(* MaxReeval children in all, as long as they do not overlap.              *)
ReevalCapHolds ==
    Cardinality({i \in DOMAIN kids : kids[i].by = "reeval" /\ kids[i].late}) <= MaxReeval

(* A re-evaluation never files what another one has filed and is still     *)
(* open, or was closed without delivering it.                              *)
ReevalFilesNoRepeat ==
    [][Len(kids') > Len(kids) /\ kids'[Len(kids')].by = "reeval" =>
          \A i \in DOMAIN kids :
              (kids[i].title = kids'[Len(kids')].title /\ kids[i].by = "reeval")
                  => Delivered(i)]_evars

(* Re-evaluation is bounded: it files at most MaxReeval late children, and *)
(* none that repeats one another re-evaluation has filed.                  *)
ReevalIsBounded == []ReevalCapHolds /\ ReevalFilesNoRepeat

(* A draft is closed as covered only by something that was really merged,  *)
(* through any chain or cycle of duplicates.                               *)
CoveredIsMerged ==
    [][\A i \in DOMAIN kids : (kids[i].st = "draft" /\ kids'[i].st = "nothing")
          => \E j \in DOMAIN kids : kids[j].st = "merged"]_evars

(* What an epic's passes do with its children is sound: re-evaluation is   *)
(* bounded, and nothing is closed as covered without a delivery.           *)
ReevaluationIsSound == ReevalIsBounded /\ CoveredIsMerged

(* An epic is not closed by the sweep over a live child.                   *)
SweepClosesFinished == [][(sweep /\ SweepCloses /\ epic' # epic) => AllFinished]_evars

(* A promoted epic is broken down once: no two children of its breakdown   *)
(* are about the same thing.                                               *)
BrokenDownOnce ==
    \A i, j \in DOMAIN kids : (i # j /\ kids[i].by = "breakdown" /\ kids[j].by = "breakdown")
        => kids[i].title # kids[j].title
=============================================================================
