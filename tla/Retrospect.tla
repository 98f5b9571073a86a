----------------------------- MODULE Retrospect -----------------------------
(***************************************************************************)
(* The last stage (stages/retrospect.py): a ticket that is done is looked  *)
(* back upon, what was learned goes to a memory file all retrospects of a  *)
(* board share, new tickets are filed, and the ticket is closed.  The      *)
(* agent may propose anything, also what it proposed for an ancestor.      *)
(*                                                                         *)
(* Titles that state one criterion in different words are similar          *)
(* (Jaccard >= 0.5, the constant Criterion); the memory is the sequence of *)
(* its lessons.  Runs interleave at every session and file access.         *)
(***************************************************************************)
EXTENDS Naturals, Sequences, FiniteSets

CONSTANTS
  Titles, Criterion,      \* titles, and the criterion each one states
  Lessons,
  MemoryCap,              \* max_memory_chars, in lessons
  MaxDrafts,              \* retrospect_max_drafts_per_run
  Workers,                \* retrospects that can be under way at once
  MaxTix,                 \* bound: tickets
  MaxDeaths               \* bound: restarts

ASSUME RetrospectConstants ==
  /\ IsFiniteSet(Titles) /\ IsFiniteSet(Lessons) /\ IsFiniteSet(Workers)
  /\ DOMAIN Criterion = Titles
  /\ MemoryCap \in Nat \ {0} /\ MaxDrafts \in Nat /\ MaxTix \in Nat \ {0} /\ MaxDeaths \in Nat

VARIABLES
  tix,       \* the tickets, in order of creation
  memory,    \* the memory file, oldest lesson first
  retro,     \* the runs of the stage
  deaths

rvars == <<tix, memory, retro, deaths>>

TixStates == {"open", "done", "closed", "blocked", "human_issue_approval"}
Tix == [title : Titles, source : {"user", "retrospect"}, st : TixStates,
        parent : 0..MaxTix, unmet : BOOLEAN, rule : BOOLEAN]
RSteps == {"idle", "gate", "agent", "memory", "write", "draft", "follow", "rule", "link", "close"}
NoRetro == [pc |-> "idle", t |-> 0, file |-> <<>>, new |-> <<>>, left |-> 0, made |-> 0, then |-> "idle"]

TixTypeOK ==
  /\ tix \in Seq(Tix) /\ Len(tix) <= MaxTix
  /\ memory \in Seq(Lessons) /\ Len(memory) <= MemoryCap
  /\ \A w \in Workers :
       /\ retro[w].pc \in RSteps /\ retro[w].t \in 0..Len(tix)
       /\ retro[w].left \in 0..MaxDrafts /\ retro[w].made \in 0..Len(tix)
  /\ deaths \in 0..MaxDeaths

RetroInit ==
  /\ \E x \in Titles, s \in {"user", "retrospect"} :
       tix = <<[title |-> x, source |-> s, st |-> "open", parent |-> 0, unmet |-> FALSE, rule |-> FALSE]>>
  /\ memory = <<>> /\ deaths = 0
  /\ retro = [w \in Workers |-> NoRetro]

Upd(w, r) == retro' = [retro EXCEPT ![w] = r]
tail_keep(s) == IF Len(s) <= MemoryCap THEN s ELSE SubSeq(s, Len(s) - MemoryCap + 1, Len(s))

----------------------------------------------------------------------------

\* A ticket that is done is claimed by one worker (WorkerQueue).
Take(w) ==
  /\ retro[w].pc = "idle"
  /\ \E t \in DOMAIN tix :
       /\ tix[t].st = "done" /\ \A v \in Workers : retro[v].t # t
       /\ Upd(w, [NoRetro EXCEPT !.pc = "gate", !.t = t])
  /\ UNCHANGED <<tix, memory, deaths>>

\* The head of run.  A pr_urls file that is corrupt or names an unmerged pull
\* request blocks the ticket; an uneventful one is closed without an agent.
Ends(w, s) ==
  /\ Upd(w, NoRetro)
  /\ tix' = [tix EXCEPT ![retro[w].t].st = IF @ = "done" THEN s ELSE @]
  /\ UNCHANGED <<memory, deaths>>

Gate(w) ==
  /\ retro[w].pc = "gate"
  /\ \/ \E s \in {"blocked", "closed"} : Ends(w, s)
     \/ /\ Upd(w, [retro[w] EXCEPT !.pc = "agent"])
        /\ UNCHANGED <<tix, memory, deaths>>

\* The agent answers, and the budget of new tickets is set.  What it proposes is
\* chosen in the steps that read it.
AgentReturns(w) ==
  /\ retro[w].pc = "agent"
  /\ Upd(w, [retro[w] EXCEPT !.pc = "memory", !.left = MaxDrafts])
  /\ UNCHANGED <<tix, memory, deaths>>

\* A transient failure is raised (the worker runs the stage again); any other
\* closes the ticket.
AgentRaises(w) ==
  /\ retro[w].pc = "agent"
  /\ \/ Ends(w, "closed")
     \/ Upd(w, NoRetro) /\ UNCHANGED <<tix, memory, deaths>>

\* updated_memory, memory_edits, memory_delta, or nothing.  Edits and the delta
\* are merged into the file as it is now; a rewrite is not.
MergeMemory(w) ==
  /\ retro[w].pc = "memory"
  /\ \/ Upd(w, [retro[w] EXCEPT !.pc = "draft"])
     \/ \E x \in Lessons :                                           \* updated_memory
          Upd(w, [retro[w] EXCEPT !.pc = "write", !.file = <<x>>, !.new = <<x>>])
     \/ \E x \in Lessons :                                           \* memory_delta, append
          Upd(w, [retro[w] EXCEPT !.pc = "write", !.file = Append(memory, x), !.new = <<x>>])
     \/ \E i \in DOMAIN memory :                                     \* remove
          Upd(w, [retro[w] EXCEPT !.pc = "write", !.new = <<>>,
                    !.file = SubSeq(memory, 1, i - 1) \o SubSeq(memory, i + 1, Len(memory))])
  /\ UNCHANGED <<tix, memory, deaths>>

\* Mutant: the cap keeps the head of the file.
persist_memory_Head(w) == IF retro[w].file = <<>> THEN memory
                          ELSE SubSeq(retro[w].file, 1, IF Len(retro[w].file) < MemoryCap THEN Len(retro[w].file)
                                                        ELSE MemoryCap)

persist_memory(w) == IF retro[w].file = <<>> THEN memory ELSE tail_keep(retro[w].file)

WriteMemory(w) ==
  /\ retro[w].pc = "write"
  /\ memory' = persist_memory(w)
  /\ Upd(w, [retro[w] EXCEPT !.pc = "draft", !.file = <<>>, !.new = <<>>])
  /\ UNCHANGED <<tix, deaths>>

----------------------------------------------------------------------------

\* service.create; the parent is set by a session of its own.
Create(w, x, isRule, next) ==
  /\ Len(tix) < MaxTix
  /\ tix' = Append(tix, [title |-> x, source |-> "retrospect", st |-> "open", parent |-> 0,
                         unmet |-> FALSE, rule |-> isRule])
  /\ Upd(w, [retro[w] EXCEPT !.pc = "link", !.then = next, !.made = Len(tix) + 1, !.left = @ - 1])

set_parent(w) ==
  /\ retro[w].pc = "link"
  /\ tix' = [tix EXCEPT ![retro[w].made].parent = retro[w].t]
  /\ Upd(w, [retro[w] EXCEPT !.pc = retro[w].then, !.made = 0])
  /\ UNCHANGED <<memory, deaths>>

\* _maybe_spawn_draft: a proposal that is noise or degenerate is dropped.
_maybe_spawn_draft(w) ==
  /\ retro[w].pc = "draft"
  /\ \/ retro[w].left > 0 /\ \E x \in Titles : Create(w, x, FALSE, "follow")
     \/ Upd(w, [retro[w] EXCEPT !.pc = "follow"]) /\ UNCHANGED tix
  /\ UNCHANGED <<memory, deaths>>

IsOpen(x, isRule) ==
  \E i \in DOMAIN tix : tix[i].title = x /\ tix[i].rule = isRule /\ tix[i].st \notin {"done", "closed"}

Similar(x, y) == Criterion[x] = Criterion[y]

\* The next two generations above t.
Above(t) == LET p == tix[t].parent
                q == IF p = 0 THEN 0 ELSE tix[p].parent
            IN {p, q} \ {0, t}

\* Mutant: an ancestor that states the criterion itself does not count.
_follow_up_chain_guard_Marker(t, x) ==
  \E a \in Above(t) : tix[a].source = "retrospect" /\ tix[a].unmet

_follow_up_chain_guard(t, x) ==
  \E a \in Above(t) :
     tix[a].source = "retrospect" /\ (tix[a].unmet \/ (~tix[a].rule /\ Similar(tix[a].title, x)))

\* _resolve_root: ten generations up are more than the bound allows.
_resolve_root(t) ==
  CHOOSE a \in DOMAIN tix :
    /\ tix[a].parent = 0
    /\ \E n \in 0..Len(tix) : \E p \in [0..n -> DOMAIN tix] :
         p[0] = t /\ p[n] = a /\ \A i \in 1..n : p[i] = tix[p[i - 1]].parent

\* _maybe_spawn_follow_up with _signal_chain_guard, which comments on the root
\* of the chain and asks for a human decision where the edge is legal.
_maybe_spawn_follow_up(w) ==
  LET t == retro[w].t
      go == Upd(w, [retro[w] EXCEPT !.pc = "rule"])
  IN /\ retro[w].pc = "follow"
     /\ \/ go /\ UNCHANGED tix                          \* nothing proposed, or no budget
        \/ /\ retro[w].left > 0
           /\ \E x \in Titles :
                IF _follow_up_chain_guard(t, x)
                THEN tix' = [tix EXCEPT ![_resolve_root(t)].st =
                               IF @ \in {"open", "done"} THEN "human_issue_approval" ELSE @] /\ go
                ELSE IF IsOpen(x, FALSE) THEN go /\ UNCHANGED tix
                ELSE Create(w, x, FALSE, "rule")
     /\ UNCHANGED <<memory, deaths>>

\* _suppress_duplicate_agented_proposals drops a rule some recent ticket states
\* already; the open-title check and the budget come after it.
_maybe_spawn_agented_proposal_tickets(w) ==
  /\ retro[w].pc = "rule"
  /\ \/ Upd(w, [retro[w] EXCEPT !.pc = "close"]) /\ UNCHANGED tix
     \/ /\ retro[w].left > 0
        /\ \E x \in Titles :
             /\ ~\E i \in DOMAIN tix : i # retro[w].t /\ tix[i].rule /\ Similar(tix[i].title, x)
             /\ ~IsOpen(x, TRUE) /\ Create(w, x, TRUE, "close")
  /\ UNCHANGED <<memory, deaths>>

Close(w) == retro[w].pc = "close" /\ Ends(w, "closed")

----------------------------------------------------------------------------

\* The pipeline delivers a ticket or closes it; its notes may say that a
\* criterion is not met (_UNMET_CRITERION_MARKERS).  People take decisions.
Pipeline ==
  /\ \E i \in DOMAIN tix :
       \/ /\ tix[i].st = "open"
          /\ \E s \in {"done", "closed"}, u \in BOOLEAN :
               tix' = [tix EXCEPT ![i].st = s, ![i].unmet = u]
       \/ tix[i].st \in {"blocked", "human_issue_approval"} /\ tix' = [tix EXCEPT ![i].st = "open"]
  /\ UNCHANGED <<memory, retro, deaths>>

Dies ==
  /\ deaths < MaxDeaths /\ \E w \in Workers : retro[w].pc # "idle"
  /\ deaths' = deaths + 1 /\ retro' = [w \in Workers |-> NoRetro]
  /\ UNCHANGED <<tix, memory>>

RetroRun(w) ==
  \/ Take(w) \/ Gate(w) \/ AgentReturns(w) \/ AgentRaises(w) \/ MergeMemory(w) \/ WriteMemory(w)
  \/ _maybe_spawn_draft(w) \/ _maybe_spawn_follow_up(w) \/ _maybe_spawn_agented_proposal_tickets(w)
  \/ set_parent(w) \/ Close(w)

RetroNext == (\E w \in Workers : RetroRun(w)) \/ Pipeline \/ Dies

RetroSpec == RetroInit /\ [][RetroNext]_rvars

----------------------------------------------------------------------------
(* Properties *)

\* "the mill must not keep re-filing it generation after generation": where
\* every ticket was linked to its parent in time, a criterion that came back as a
\* follow-up is not filed a third time within three generations.
CriterionComesBackOnce ==
  deaths = 0 =>
    \A w \in Workers :
      retro[w].pc = "link" /\ retro[w].then = "rule" =>
        \A a \in Above(retro[w].t) :
          tix[a].source = "retrospect" /\ ~tix[a].rule => ~Similar(tix[a].title, tix[retro[w].made].title)

\* A follow-up or a rule is filed only when no open ticket has its title
\* (_maybe_spawn_draft has no such check).  Two retrospects at once break it.
OneOpenFollowUp ==
  \A w \in Workers :
    retro[w].pc = "link" /\ retro[w].then \in {"rule", "close"} =>
      LET new == tix[retro[w].made]
      IN \A i \in DOMAIN tix : i # retro[w].made /\ tix[i].st \notin {"done", "closed"}
                              => <<tix[i].title, tix[i].rule>> # <<new.title, new.rule>>

\* What a run has just learned is in the file it writes: the cap forgets the
\* oldest lesson first.
NewestLessonIsKept ==
  \A w \in Workers :
    retro[w].pc = "write" /\ retro[w].new # <<>> =>
      persist_memory(w)[Len(persist_memory(w))] = retro[w].new[Len(retro[w].new)]

\* What a retrospect leaves behind is sound.
RetrospectIsSound == TixTypeOK /\ CriterionComesBackOnce /\ OneOpenFollowUp /\ NewestLessonIsKept

\* "routes the root to human_issue_approval" (docs/stages/retrospect-chain-guard.md):
\* false, because the root was closed by its own retrospect generations before.
RootIsRouted ==
  \A w \in Workers : retro[w].pc = "follow" /\ (\E x \in Titles : _follow_up_chain_guard(retro[w].t, x))
                     => tix[_resolve_root(retro[w].t)].st # "closed"

=============================================================================
