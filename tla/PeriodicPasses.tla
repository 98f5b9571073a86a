--------------------------- MODULE PeriodicPasses ---------------------------
(***************************************************************************)
(* The periodic workflows of one repository: the supervisor that starts    *)
(* and cancels a loop per file the repository ships                        *)
(* (runtime/worker/periodic_passes.py), the loops (poll_loops.py), and the *)
(* registry that records their runs and, across restarts, their cadence    *)
(* (runtime/run_registry.py).                                              *)
(*                                                                         *)
(* Cancelling a loop cannot stop the thread its pass runs in.  A registry  *)
(* entry "left" is one whose status says running although its loop is      *)
(* gone.  The repository is not the lead one, so that its own registry and *)
(* the worker's fallback differ.                                           *)
(***************************************************************************)
EXTENDS Naturals, Sequences, FiniteSets

CONSTANTS
  Passes,
  Bespoke,       \* those that _run_bespoke_loop runs
  Interval,      \* interval_seconds of each pass, in ticks
  MaxEntries,    \* MAX_ENTRIES
  Threshold,     \* RESOLUTION_FAILURE_TICKET_THRESHOLD
  MaxEdits,      \* bound: edits of a file
  MaxRestarts    \* bound: restarts

ASSUME PeriodicConstants ==
  /\ IsFiniteSet(Passes) /\ Bespoke \subseteq Passes
  /\ Interval \in [Passes -> Nat \ {0}]
  /\ MaxEntries \in Nat \ {0} /\ Threshold \in Nat \ {0} /\ MaxEdits \in Nat /\ MaxRestarts \in Nat

VARIABLES
  files,      \* what the repository ships for each pass
  loops,      \* the loop tasks the supervisor runs
  threads,    \* how many threads execute each pass
  registry,   \* the repository's own registry and the fallback
  tracker,    \* consecutive failures per file, and the files reported
  notices,    \* tickets filed for a dead file
  past        \* counts of edits and restarts

cvars == <<files, loops, threads, registry, tracker, notices, past>>

Longest == CHOOSE n \in {0} \cup {Interval[p] : p \in Passes} : \A p \in Passes : Interval[p] <= n
Versions == {"absent", "dead", "first", "second"}
Loops == [ver : {"none", "first", "second"}, wait : 0..Longest, firing : BOOLEAN]
NoLoop == [ver |-> "none", wait |-> 0, firing |-> FALSE]
RunEntry == [kind : Passes, status : {"running", "left", "ok", "error"}, age : 0..Longest]

CTypeOK ==
  /\ files \in [Passes -> Versions] /\ loops \in [Passes -> Loops]
  /\ threads \in [Passes -> Nat] /\ notices \in [Passes -> Nat]
  /\ DOMAIN registry = {"own", "fallback"}
  /\ \A g \in DOMAIN registry : registry[g] \in Seq(RunEntry) /\ Len(registry[g]) <= MaxEntries
  /\ tracker \in [count : [Passes -> 0..Threshold], reported : SUBSET Passes]
  /\ past \in [edits : 0..MaxEdits, restarts : 0..MaxRestarts]

CInit ==
  /\ files = [p \in Passes |-> "first"] /\ loops = [p \in Passes |-> NoLoop]
  /\ threads = [p \in Passes |-> 0] /\ notices = [p \in Passes |-> 0]
  /\ registry = [g \in {"own", "fallback"} |-> <<>>]
  /\ tracker = [count |-> [p \in Passes |-> 0], reported |-> {}]
  /\ past = [edits |-> 0, restarts |-> 0]

----------------------------------------------------------------------------
(* RunRegistry *)

flush(es) == IF Len(es) <= MaxEntries THEN es ELSE SubSeq(es, Len(es) - MaxEntries + 1, Len(es))

start(es, p) == flush(Append(es, [kind |-> p, status |-> "running", age |-> 0]))

\* finish_ok and finish_error; an entry that was trimmed is not found.
finish(es, p, s) == [i \in DOMAIN es |-> IF es[i].kind = p /\ es[i].status = "running"
                                         THEN [es[i] EXCEPT !.status = s] ELSE es[i]]

Successes(es, p) == {i \in DOMAIN es : es[i].kind = p /\ es[i].status = "ok"}

\* Mutant: the entries are searched from the front.
most_recent_Front(es, p) == CHOOSE i \in Successes(es, p) : \A j \in Successes(es, p) : i <= j

\* The successful run of p that started last.
most_recent(es, p) == CHOOSE i \in Successes(es, p) : \A j \in Successes(es, p) : j <= i

\* _load: what was running when the process ended is an error.
_load(es) == [i \in DOMAIN es |-> IF es[i].status \in {"running", "left"}
                                  THEN [es[i] EXCEPT !.status = "error"] ELSE es[i]]

\* _fire_periodic_pass records in the repository's registry, _run_bespoke_loop
\* in the fallback.
_registry_for(p) == IF p \in Bespoke THEN "fallback" ELSE "own"

----------------------------------------------------------------------------

\* Both kinds of loop read the repository's own registry.
_initial_delay(p) ==
  LET es == registry["own"]
      age == es[most_recent(es, p)].age
  IN IF Successes(es, p) = {} THEN 0 ELSE IF age >= Interval[p] THEN 0 ELSE Interval[p] - age

\* A file appears, changes, breaks or goes away on the target branch.
Edit(p) ==
  /\ past.edits < MaxEdits
  /\ \E v \in Versions \ {files[p]} : files' = [files EXCEPT ![p] = v]
  /\ past' = [past EXCEPT !.edits = @ + 1]
  /\ UNCHANGED <<loops, threads, registry, tracker, notices>>

Desired(p) == IF files[p] \in {"first", "second"} THEN files[p] ELSE "none"
Unwanted(p) == loops[p].ver # "none" /\ loops[p].ver # Desired(p)

\* PeriodicResolutionFailureTracker.observe
observe ==
  LET n == [p \in Passes |-> IF files[p] # "dead" THEN 0
                             ELSE IF tracker.count[p] = Threshold THEN Threshold ELSE tracker.count[p] + 1]
      old == {p \in tracker.reported : files[p] = "dead"}
  IN [count |-> n, reported |-> old \cup {p \in Passes : n[p] = Threshold}]

\* Mutant: the board is not asked whether the ticket is there.
Notices_Again(p) == notices[p] + 1

\* _file_periodic_config_ticket files none that is on the board.
Notices(p) == IF notices[p] > 0 THEN notices[p] ELSE 1

\* One cycle of _periodic_supervisor: files that fail to resolve are reported
\* when they cross the threshold (a ticket that cannot be created is not tried
\* again), loops without a file are cancelled, changed ones replaced, missing
\* ones started.  An entry of a cancelled pass stays as it is.
_periodic_supervisor ==
  LET crossing == observe.reported \ tracker.reported
  IN /\ tracker' = observe
     /\ \E made \in SUBSET crossing :
          notices' = [p \in Passes |-> IF p \in made THEN Notices(p) ELSE notices[p]]
     /\ loops' = [p \in Passes |->
                    IF loops[p].ver = Desired(p) THEN loops[p]
                    ELSE [ver |-> Desired(p), firing |-> FALSE,
                          wait |-> IF Desired(p) = "none" THEN 0 ELSE _initial_delay(p)]]
     /\ registry' = [g \in DOMAIN registry |->
                       [i \in DOMAIN registry[g] |->
                          LET e == registry[g][i]
                          IN IF e.status = "running" /\ Unwanted(e.kind)
                             THEN [e EXCEPT !.status = "left"] ELSE e]]
     /\ UNCHANGED <<files, threads, past>>

\* The loops: sleep, run the pass in a thread, sleep.
Fire(p) ==
  /\ loops[p].ver # "none" /\ ~loops[p].firing /\ loops[p].wait = 0
  /\ loops' = [loops EXCEPT ![p].firing = TRUE]
  /\ threads' = [threads EXCEPT ![p] = @ + 1]
  /\ registry' = [registry EXCEPT ![_registry_for(p)] = start(@, p)]
  /\ UNCHANGED <<files, tracker, notices, past>>

PassEnds(p) ==
  /\ loops[p].firing
  /\ loops' = [loops EXCEPT ![p].firing = FALSE, ![p].wait = Interval[p]]
  /\ threads' = [threads EXCEPT ![p] = @ - 1]
  /\ \E s \in {"ok", "error"} : registry' = [registry EXCEPT ![_registry_for(p)] = finish(@, p, s)]
  /\ UNCHANGED <<files, tracker, notices, past>>

\* The thread of a cancelled loop (_tracked_to_thread shields it).
AbandonedPassEnds(p) ==
  /\ threads[p] > IF loops[p].firing THEN 1 ELSE 0
  /\ threads' = [threads EXCEPT ![p] = @ - 1]
  /\ UNCHANGED <<files, loops, registry, tracker, notices, past>>

Older(n) == IF n = Longest THEN n ELSE n + 1

CTick ==
  /\ loops' = [p \in Passes |-> [loops[p] EXCEPT !.wait = IF @ = 0 THEN 0 ELSE @ - 1]]
  /\ registry' = [g \in DOMAIN registry |->
                    [i \in DOMAIN registry[g] |-> [registry[g][i] EXCEPT !.age = Older(@)]]]
  /\ UNCHANGED <<files, threads, tracker, notices, past>>

\* The process ends; a registry file cut short in a write is read as empty.
CRestart ==
  /\ past.restarts < MaxRestarts
  /\ past' = [past EXCEPT !.restarts = @ + 1]
  /\ loops' = [p \in Passes |-> NoLoop] /\ threads' = [p \in Passes |-> 0]
  /\ tracker' = [count |-> [p \in Passes |-> 0], reported |-> {}]
  /\ \E torn \in SUBSET DOMAIN registry :
       registry' = [g \in DOMAIN registry |-> IF g \in torn THEN <<>> ELSE _load(registry[g])]
  /\ UNCHANGED <<files, notices>>

CNext ==
  \/ \E p \in Passes : Edit(p) \/ Fire(p) \/ PassEnds(p) \/ AbandonedPassEnds(p)
  \/ _periodic_supervisor \/ CTick \/ CRestart

CSpec == CInit /\ [][CNext]_cvars

----------------------------------------------------------------------------
(* Properties *)

Starts(p) == ~loops[p].firing /\ loops'[p].firing

\* The cadence outlives restarts and replaced loops: a pass is not started
\* while a success of it younger than its interval is on record.
CadenceIsKept ==
  [][\A p \in Passes \ Bespoke : Starts(p) =>
       \A i \in DOMAIN registry["own"] :
         LET e == registry["own"][i] IN e.kind = p /\ e.status = "ok" => e.age >= Interval[p]]_cvars

\* While its file stays as it is, a pass does not run twice at once.
RunsAlone == past.edits = 0 => \A p \in Passes : threads[p] <= 1

\* A dead file is reported once, however often it breaks and whatever a
\* restart forgets.
ReportedOnce == \A p \in Passes : notices[p] <= 1

\* What the supervisor and its loops do is sound.
PassesAreSound == [](CTypeOK /\ RunsAlone /\ ReportedOnce) /\ CadenceIsKept

\* "per-repo loops pass the repo's own registry so the cadence matches where the
\* run is recorded" (poll_loops.py:98): false of the bespoke loop, which records
\* in the fallback and starts again right after a restart.
BespokeCadenceIsKept ==
  [][\A p \in Bespoke : Starts(p) =>
       \A i \in DOMAIN registry["fallback"] :
         LET e == registry["fallback"][i] IN e.kind = p /\ e.status = "ok" => e.age >= Interval[p]]_cvars

\* False after an edit: a replaced loop starts its pass while the thread of the
\* old one runs on, since only finished runs count for the delay.
NeverTwiceAtOnce == \A p \in Passes : threads[p] <= 1

\* False after an edit: nothing finishes the entry of a cancelled loop.
RunningIsRunning ==
  \A g \in DOMAIN registry : \A i \in DOMAIN registry[g] :
    registry[g][i].status = "left" => threads[registry[g][i].kind] > 0

=============================================================================
