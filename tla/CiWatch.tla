------------------------------ MODULE CiWatch ------------------------------
(***************************************************************************)
(* The watch over CI on the target branch: the monitor that files a ticket *)
(* for a workflow that fails (runtime/worker/poll_loops_ci.py), the gate   *)
(* on the new draft (stages/ci_stale_gate.py) and the pass that closes the *)
(* tickets of workflows that work again                                    *)
(* (agents/runners/ci_auto_close_runner.py).                               *)
(*                                                                         *)
(* A run is numbered by its creation; a re-run keeps its number.  The      *)
(* monitor keeps its state in memory during a scan and saves it at the     *)
(* end.  Log text is left out: the failures of a workflow have one         *)
(* fingerprint.  Tag runs, which differ in their key only, are left out.   *)
(***************************************************************************)
EXTENDS Naturals, Sequences, FiniteSets, FiniteSetsExt, SequencesExt

CONSTANTS
  Workflows,
  CronOnly,        \* workflows that run on a schedule or when dispatched
  Results,         \* conclusions a run may have
  Window,          \* runs the forge lists per workflow
  MaxDeferrals,    \* _CI_LOG_FETCH_MAX_DEFERRALS
  MaxRedispatch,   \* _REDISPATCH_MAX_ATTEMPTS
  MaxHeads,        \* bound: heads of the target branch
  MaxRuns,         \* bound: runs per workflow
  MaxTickets,      \* bound: tickets filed
  MaxFaults        \* bound: crashes, failed calls, expired entries, tickets dropped

ASSUME WatchConstants ==
  /\ CronOnly \subseteq Workflows /\ Results \subseteq {"red", "startup", "green", "cancelled"}
  /\ {Window, MaxDeferrals, MaxRedispatch, MaxHeads, MaxRuns, MaxTickets, MaxFaults} \subseteq Nat
  /\ MaxHeads > 0

VARIABLES
  head,     \* the commit at the head of the branch
  runs,     \* runs[w][n]: the completed runs of a workflow
  gone,     \* workflows whose file was deleted
  board,    \* the CI tickets
  file,     \* ci_monitor_state.json
  mon,      \* the scan under way
  closer,   \* the ticket ci_auto_close decided to close, if any
  record    \* what happened: faults, dispatches, failures excused

wvars == <<head, runs, gone, board, file, mon, closer, record>>

Keys == Workflows \X (1..MaxHeads)
Run == [sha : 1..MaxHeads, res : Results, how : {"push", "rerun", "dispatch"}]
Listed == [n : 0..MaxRuns, sha : 1..MaxHeads, res : Results \cup {"green"}, how : {"push", "rerun", "dispatch"}]
Card == [wf : Workflows, born : 1..MaxRuns, sha : 1..MaxHeads, st : {"open", "mr", "done", "dropped"},
         noted : SUBSET (1..MaxHeads), label : BOOLEAN, dispatched : BOOLEAN]
States == [seen : SUBSET Keys, deferred : [Keys -> 0..MaxDeferrals], tried : [Keys -> 0..MaxRedispatch]]

\* A workflow that has no run yet has nothing to report.
NoRun == [n |-> 0, sha |-> 1, res |-> "green", how |-> "push"]

Nothing == [k \in Keys |-> 0]
Fresh == [seen |-> {}, deferred |-> Nothing, tried |-> Nothing]
Idle == [pc |-> "idle", mem |-> Fresh, snap |-> {}, latest |-> [w \in Workflows |-> NoRun], todo |-> {}, cur |-> "none", id |-> 0]

WTypeOK ==
  /\ head \in 1..MaxHeads /\ gone \subseteq Workflows
  /\ \A w \in Workflows : runs[w] \in Seq(Run) /\ Len(runs[w]) <= MaxRuns
  /\ board \in Seq(Card) /\ file \in States
  /\ mon \in [pc : {"idle", "scan", "fetched", "gate"}, mem : States, snap : SUBSET DOMAIN board,
              latest : [Workflows -> Listed], todo : SUBSET Workflows,
              cur : Workflows \cup {"none"}, id : 0..Len(board)]
  /\ closer \in 0..Len(board)
  /\ record \in [faults : 0..MaxFaults, lost : 0..MaxFaults, expired : 0..MaxFaults,
                 dispatched : [Keys -> Nat], excused : SUBSET Keys]

WInit ==
  /\ head = 1 /\ runs = [w \in Workflows |-> <<>>] /\ gone = {} /\ board = <<>>
  /\ file = Fresh /\ mon = Idle /\ closer = 0
  /\ record = [faults |-> 0, lost |-> 0, expired |-> 0, dispatched |-> Nothing, excused |-> {}]

IsOpen(c) == c.st \in {"open", "mr"}
Fault == record.faults < MaxFaults
Faulty == [record EXCEPT !.faults = @ + 1]

----------------------------------------------------------------------------
(* Is the workflow fixed? *)

Visible(w) == {n \in DOMAIN runs[w] : n + Window > Len(runs[w])}
Completed(w) == {n \in Visible(w) : runs[w][n].res \in {"red", "green"}}

\* The completed runs at or after the failing commit; born dates a failure
\* that is not listed any more.
Since(w, sha, born) ==
  LET at == {n \in Completed(w) : runs[w][n].sha = sha}
  IN IF at # {} THEN {n \in Completed(w) : n >= Max(at)}
     ELSE IF \A n \in Completed(w) : n > born THEN Completed(w) ELSE {}

\* The length of the run of greens that ends in the newest one.
Streak(w, ns) == Cardinality({n \in ns : \A m \in ns : m >= n => runs[w][m].res = "green"})

_green_since_failure(w, sha, born, dispatch_is_fix) ==
  LET ns == Since(w, sha, born)
      fix == \E n \in ns : /\ runs[w][n].res = "green"
                           /\ \/ runs[w][n].sha # sha \/ runs[w][n].how = "rerun"
                              \/ dispatch_is_fix /\ runs[w][n].how = "dispatch"
  IN Streak(w, ns) > 0 /\ (fix \/ Streak(w, ns) >= 2)

----------------------------------------------------------------------------
(* The forge, and the people and stages that work on a ticket *)

Push ==
  /\ head < MaxHeads /\ head' = head + 1
  /\ UNCHANGED <<runs, gone, board, file, mon, closer, record>>

Dispatched(w) ==
  \/ \E h \in 1..MaxHeads : record.dispatched[<<w, h>>] > 0
  \/ \E t \in DOMAIN board : board[t].wf = w /\ board[t].dispatched

\* A run of the current head ends; after a dispatch it may be the one dispatched.
RunEnds(w) ==
  /\ Len(runs[w]) < MaxRuns /\ w \notin gone
  /\ \E r \in Results, h \in {"push"} \cup (IF Dispatched(w) THEN {"dispatch"} ELSE {}) :
       runs' = [runs EXCEPT ![w] = Append(@, [sha |-> head, res |-> r, how |-> h])]
  /\ UNCHANGED <<head, gone, board, file, mon, closer, record>>

RerunEnds(w) ==
  /\ runs[w] # <<>> /\ Last(runs[w]).how # "rerun"
  /\ \E r \in Results : runs' = [runs EXCEPT ![w][Len(runs[w])].res = r, ![w][Len(runs[w])].how = "rerun"]
  /\ UNCHANGED <<head, gone, board, file, mon, closer, record>>

DeleteWorkflow(w) ==
  /\ w \notin gone /\ gone' = gone \cup {w}
  /\ UNCHANGED <<head, runs, board, file, mon, closer, record>>

TicketMoves(t) ==
  /\ \/ board[t].st = "open" /\ board' = [board EXCEPT ![t].st = "mr"] /\ UNCHANGED record
     \/ board[t].st = "mr" /\ board' = [board EXCEPT ![t].st = "done"] /\ UNCHANGED record
     \/ board[t].st = "open" /\ Fault /\ board' = [board EXCEPT ![t].st = "dropped"] /\ record' = Faulty
  /\ UNCHANGED <<head, runs, gone, file, mon, closer>>

----------------------------------------------------------------------------
(* The monitor *)

\* _prune_ci_state: counters of keys that are settled go, and so do old keys.
_prune_ci_state(f, old) ==
  [seen |-> f.seen \ old,
   deferred |-> [k \in Keys |-> IF k \in f.seen \ old THEN 0 ELSE f.deferred[k]],
   tried |-> [k \in Keys |-> IF k \in f.seen \ old THEN 0 ELSE f.tried[k]]]

\* _latest_runs_by_workflow
Newest(w) ==
  IF runs[w] = <<>> THEN NoRun
  ELSE LET r == Last(runs[w]) IN [n |-> Len(runs[w]), sha |-> r.sha, res |-> r.res, how |-> r.how]

\* A poll reads the state, the latest runs and the tickets once.
BeginPoll ==
  /\ mon.pc = "idle"
  /\ \E old \in {{}} \cup (IF Fault THEN {file.seen} ELSE {}) :
       /\ mon' = [Idle EXCEPT !.pc = "scan", !.mem = _prune_ci_state(file, old), !.todo = Workflows,
                              !.latest = [w \in Workflows |-> Newest(w)],
                              !.snap = {t \in DOMAIN board : IsOpen(board[t])}]
       /\ record' = IF old = {} THEN record
                    ELSE [Faulty EXCEPT !.expired = @ + 1]
  /\ UNCHANGED <<head, runs, gone, board, file, closer>>

Latest(w) == mon.latest[w]
Key(w) == <<w, Latest(w).sha>>
Concerns(w, rs) == mon.pc = "scan" /\ w \in mon.todo /\ Latest(w).res \in rs /\ Key(w) \notin mon.mem.seen

\* The scan goes on to the next workflow; the key is settled, or not.
SettledKey(w) == [mon EXCEPT !.pc = "scan", !.todo = @ \ {w}, !.cur = "none", !.id = 0,
                             !.mem.seen = @ \cup {Key(w)}, !.mem.deferred[Key(w)] = 0]
Left(w) == [mon EXCEPT !.pc = "scan", !.todo = @ \ {w}, !.cur = "none", !.id = 0]

NothingToDo(w) ==
  /\ mon.pc = "scan" /\ w \in mon.todo
  /\ Latest(w).res = "green" \/ Key(w) \in mon.mem.seen
  /\ mon' = Left(w)
  /\ UNCHANGED <<head, runs, gone, board, file, closer, record>>

\* _maybe_redispatch_cancelled: given up after the last attempt, or when the
\* run had jobs; too soon, no runner: next time.
_maybe_redispatch_cancelled(w) ==
  /\ Concerns(w, {"cancelled"})
  /\ LET n == mon.mem.tried[Key(w)]
     IN \/ /\ mon' = SettledKey(w)
           /\ record' = [record EXCEPT !.excused = @ \cup {Key(w)}]
        \/ /\ n < MaxRedispatch
           /\ mon' = Left(w) /\ UNCHANGED record
        \/ /\ n < MaxRedispatch
           /\ mon' = [Left(w) EXCEPT !.mem.tried[Key(w)] = @ + 1]
           /\ record' = [record EXCEPT !.dispatched[Key(w)] = @ + 1]
  /\ UNCHANGED <<head, runs, gone, board, file, closer>>

Failing == {"red", "startup"}

\* The file is gone, or the account is blocked: no ticket.
NotOurs(w) ==
  /\ Concerns(w, Failing)
  /\ w \in gone \/ (Latest(w).res = "red" /\ Fault)
  /\ mon' = SettledKey(w)
  /\ record' = [(IF w \in gone THEN record ELSE Faulty) EXCEPT !.excused = @ \cup {Key(w)}]
  /\ UNCHANGED <<head, runs, gone, board, file, closer>>

\* Mutant: a ticket with a pull request is not the canonical one.
_find_canonical_ci_ticket_Idle(w) == {t \in mon.snap : board[t].wf = w /\ board[t].st = "open"}

\* The tickets of the workflow that were open when the poll began.
_find_canonical_ci_ticket(w) == {t \in mon.snap : board[t].wf = w}

Note(t, w) == board' = [board EXCEPT ![t].noted = @ \cup {Latest(w).sha}]

\* The run is noted on the open ticket; a comment that fails is not tried again.
NoteOnCanonical(w) ==
  /\ Concerns(w, Failing) /\ w \notin gone
  /\ \E t \in _find_canonical_ci_ticket(w) :
       \/ Note(t, w) /\ UNCHANGED record
       \/ Fault /\ record' = [Faulty EXCEPT !.excused = @ \cup {Key(w)}] /\ UNCHANGED board
  /\ mon' = SettledKey(w)
  /\ UNCHANGED <<head, runs, gone, file, closer>>

\* Mutant: logs that cannot be had are waited for.
MayDefer_Always(n) == TRUE

MayDefer(n) == n < MaxDeferrals

\* _fetch_run_logs_with_deferral: the network is down, the fetch failed and is
\* put off, or the ticket is written with what there is.
FetchLogs(w) ==
  /\ Concerns(w, Failing) /\ w \notin gone /\ _find_canonical_ci_ticket(w) = {}
  /\ LET k == Key(w)
         n == mon.mem.deferred[k]
     IN \/ Latest(w).res = "red" /\ Fault /\ mon' = Left(w) /\ record' = Faulty
        \/ /\ Latest(w).res = "red" /\ MayDefer(n) /\ UNCHANGED record
           /\ mon' = [Left(w) EXCEPT !.mem.deferred[k] = IF n = MaxDeferrals THEN n ELSE n + 1]
        \/ mon' = [mon EXCEPT !.pc = "fetched", !.cur = w] /\ UNCHANGED record
  /\ UNCHANGED <<head, runs, gone, board, file, closer>>

\* find_prior_matching_ticket, for the label of the failure: not a ticket that
\* was closed without ever being done.
Prior(w) == {t \in DOMAIN board : board[t].wf = w /\ board[t].label /\ board[t].st # "dropped"}

\* Mutant: a run whose ticket could not be created is settled.
CreateFails_Settles(w) ==
  /\ Fault /\ record' = Faulty /\ mon' = SettledKey(w) /\ UNCHANGED board

\* The ticket could not be created: the next poll tries again.
CreateFails(w) ==
  /\ Fault /\ record' = Faulty /\ mon' = Left(w) /\ UNCHANGED board

CreateTicket(w) ==
  /\ Len(board) < MaxTickets
  /\ \E l \in {TRUE} \cup (IF Fault THEN {FALSE} ELSE {}) :
       /\ board' = Append(board, [wf |-> w, born |-> Latest(w).n, sha |-> Latest(w).sha, st |-> "open",
                                  noted |-> {Latest(w).sha}, label |-> l, dispatched |-> FALSE])
       /\ record' = IF l THEN record ELSE Faulty
  /\ mon' = [mon EXCEPT !.pc = "gate", !.id = Len(board) + 1]

\* A failure seen before is noted on its ticket, a new one gets its own.
NoteOrFile(w) ==
  /\ mon.pc = "fetched" /\ w = mon.cur
  /\ IF Prior(w) # {} THEN /\ \E t \in Prior(w) : Note(t, w)
                           /\ mon' = SettledKey(w) /\ UNCHANGED record
     ELSE CreateFails(w) \/ CreateTicket(w)
  /\ UNCHANGED <<head, runs, gone, file, closer>>

\* _apply_stale_ci_gate: the draft may be of a failure that is over, or that
\* cannot be fixed here (blocked, which leaves the ticket open).
_apply_stale_ci_gate(w) ==
  /\ mon.pc = "gate" /\ w = board[mon.id].wf
  /\ LET c == board[mon.id]
     IN board' = IF IsOpen(c) /\ (w \in gone \/ _green_since_failure(w, c.sha, c.born, FALSE))
                 THEN [board EXCEPT ![mon.id].st = "done"] ELSE board
  /\ mon' = SettledKey(w)
  /\ UNCHANGED <<head, runs, gone, file, closer, record>>

SaveState ==
  /\ mon.pc = "scan" /\ mon.todo = {}
  /\ file' = mon.mem /\ mon' = Idle
  /\ UNCHANGED <<head, runs, gone, board, closer, record>>

\* A call that is not guarded raises, or the process ends: the scan is lost.
ScanDies ==
  /\ mon.pc # "idle" /\ Fault
  /\ mon' = Idle /\ record' = [Faulty EXCEPT !.lost = @ + 1]
  /\ UNCHANGED <<head, runs, gone, board, file, closer>>

----------------------------------------------------------------------------
(* ci_auto_close *)

\* _maybe_close up to its verdict; the ticket is closed in a step of its own.
_maybe_close(t) ==
  /\ closer = 0 /\ board[t].st = "open"
  /\ board[t].wf \in gone \/ _green_since_failure(board[t].wf, board[t].sha, board[t].born, TRUE)
  /\ closer' = t
  /\ UNCHANGED <<head, runs, gone, board, file, mon, record>>

_close ==
  /\ closer # 0 /\ closer' = 0
  /\ board' = IF IsOpen(board[closer]) THEN [board EXCEPT ![closer].st = "done"] ELSE board
  /\ UNCHANGED <<head, runs, gone, file, mon, record>>

\* _maybe_dispatch_cron_workflow: once per ticket, on the failing commit.
_maybe_dispatch_cron_workflow(t) ==
  LET w == board[t].wf
  IN /\ closer = 0 /\ board[t].st = "open" /\ w \in CronOnly \ gone /\ ~board[t].dispatched
     /\ ~_green_since_failure(w, board[t].sha, board[t].born, TRUE)
     /\ Last(runs[w]).sha = board[t].sha
     /\ board' = [board EXCEPT ![t].dispatched = TRUE]
     /\ UNCHANGED <<head, runs, gone, file, mon, closer, record>>

----------------------------------------------------------------------------

ScanStep(w) ==
  \/ NothingToDo(w) \/ _maybe_redispatch_cancelled(w) \/ NotOurs(w) \/ NoteOnCanonical(w)
  \/ FetchLogs(w) \/ NoteOrFile(w) \/ _apply_stale_ci_gate(w)

Monitor == BeginPoll \/ SaveState \/ \E w \in Workflows : ScanStep(w)

WatchNext ==
  \/ Push \/ \E w \in Workflows : RunEnds(w) \/ RerunEnds(w) \/ DeleteWorkflow(w)
  \/ Monitor \/ ScanDies \/ _close
  \/ \E t \in DOMAIN board : TicketMoves(t) \/ _maybe_close(t) \/ _maybe_dispatch_cron_workflow(t)

\* _ci_monitor_poll_loop polls for ever and survives what a poll raises.
WatchSpec == WInit /\ [][WatchNext]_wvars /\ WF_wvars(Monitor)

----------------------------------------------------------------------------
(* Properties *)

Noted == UNION {{<<board[t].wf, s>> : s \in board[t].noted} : t \in DOMAIN board}

\* A workflow has one open ticket, whatever is lost between filing and saving.
OneOpenTicket ==
  \A s, t \in DOMAIN board : board[s].wf = board[t].wf /\ IsOpen(board[s]) /\ IsOpen(board[t]) => s = t

\* A failure the monitor will not look at again is on a ticket, unless it is
\* not ours, the workflow was cancelled at that commit, or the comment failed.
SeenIsNoted == file.seen \subseteq Noted \cup record.excused

\* A cancelled run is dispatched again a bounded number of times, one more
\* for every scan whose count was lost.
DispatchesAreBounded ==
  \A k \in Keys : record.dispatched[k] <= MaxRedispatch * (1 + record.expired) + record.lost

\* ci_auto_close decides to close a ticket only when the newest listed run of
\* its workflow that succeeded or failed has succeeded, and not before the run
\* that failed; or the workflow was deleted.
Later(c) == runs[c.wf][c.born].res \in {"red", "green"} => Max(Completed(c.wf)) >= c.born
ClosesOnlyFixed ==
  [][closer = 0 /\ closer' # 0 =>
       LET c == board[closer']
       IN c.wf \in gone \/ (runs[c.wf][Max(Completed(c.wf))].res = "green" /\ Later(c))]_wvars

Red(w, sha) == w \notin gone /\ runs[w] # <<>> /\ Last(runs[w]) \in [sha : {sha}, res : Failing, how : {"push", "rerun", "dispatch"}]

\* A workflow that stays red comes to be noted on a ticket, even if its logs
\* can never be had.
RedIsNoted ==
  \A k \in Keys : <>[]Red(k[1], k[2]) => []<>(k \in Noted \cup record.excused \/ Len(board) = MaxTickets)

\* The watch over CI is sound.
CiWatchIsSound == [](WTypeOK /\ OneOpenTicket /\ SeenIsNoted /\ DispatchesAreBounded) /\ ClosesOnlyFixed

\* "Otherwise two consecutive greens at-or-after the failing commit are
\* required" (ci_auto_close_runner.py:491): two scheduled greens on the failing
\* commit are never enough, since the newest run at that commit is the anchor.
TwoGreensSuffice ==
  \A t \in DOMAIN board :
    LET c == board[t]
        ns == {n \in Completed(c.wf) : n >= c.born}
    IN Streak(c.wf, ns) >= 2 => _green_since_failure(c.wf, c.sha, c.born, TRUE)

\* False of a run that could not start, or was cancelled when it was run
\* again: a success of the same commit before it counts as its fix.
NeverClosesEarlier ==
  [][closer = 0 /\ closer' # 0 =>
       LET c == board[closer'] IN c.wf \in gone \/ Max(Completed(c.wf)) >= c.born]_wvars

\* False: a commit that failed, was closed as fixed and fails again is settled
\* already, and so is a failure noted on a ticket that is closed meanwhile.
RedHasTicket ==
  \A w \in Workflows :
    Red(w, head) /\ <<w, head>> \in file.seen \ record.excused /\ (\A t \in DOMAIN board : board[t].st # "dropped")
      => \E t \in DOMAIN board : board[t].wf = w /\ IsOpen(board[t])

=============================================================================
