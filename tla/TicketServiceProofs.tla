------------------------ MODULE TicketServiceProofs ------------------------
(***************************************************************************)
(* Where a ticket may go next, for any number of tickets, threads and      *)
(* second sessions under way.  BlockedIsResumable and PausedIsResumable    *)
(* are not inductive: redraft, mark_done and a late resume leave           *)
(* blocked_from and paused_from set on tickets that are neither blocked    *)
(* nor paused, and the next pause trusts what it finds.  The invariant is  *)
(* therefore about the two columns whatever the state, and it rests on the *)
(* table: nothing is paused from AWAITING_USER_REPLY or BLOCKED, and       *)
(* nothing is blocked from BLOCKED.                                        *)
(*                                                                         *)
(* The second part is about the stage a ticket meets first, refine; the    *)
(* third, at the end, about the worker on top of the service, which drives *)
(* a ticket through its stages.                                            *)
(***************************************************************************)
EXTENDS Processing, Refine, TLAPS

Origins(r) ==
  /\ r.blocked_from # None => "blocked" \in TRANSITIONS[r.blocked_from]
  /\ r.paused_from # None => "awaiting_user_reply" \in TRANSITIONS[r.paused_from]
  /\ r.state = "blocked" => r.blocked_from # None
  /\ Paused(r) => r.paused_from # None

RowOK(r) == r \in Ticket /\ r.open + r.closed <= MaxThreads /\ Origins(r)

SInv ==
  /\ tk \in [Tickets -> Ticket]
  /\ \A t \in Tickets : RowOK(tk[t])
  /\ pending \subseteq Continuation

\* What the row q that replaces the row r has to satisfy.
GoodRow(r, q) ==
  /\ RowOK(q)
  /\ r.state \in Finished => q.state \in {r.state, "deleted"}
  /\ r.state = "awaiting_user_reply" /\ q.state = "ready" => q.open = 0

\* The same for every ticket: the two action properties of the service.
GoodStep ==
  \A t \in Tickets :
    /\ tk[t].state \in Finished => tk'[t].state \in {tk[t].state, "deleted"}
    /\ tk[t].state = "awaiting_user_reply" /\ tk'[t].state = "ready" => tk'[t].open = 0

-----------------------------------------------------------------------------
(* The table. *)

LEMMA Table ==
  /\ TRANSITIONS["blocked"] = {"ready", "draft", "classifying", "closed"}
  /\ TRANSITIONS["awaiting_user_reply"] = {"ready", "errored", "blocked"}
  /\ \A s \in Finished : TRANSITIONS[s] = {}
  /\ \A s \in State : TRANSITIONS[s] \subseteq State
  BY DEF TRANSITIONS, State, Finished

\* None is no state, and a ticket is blocked, paused or finished in a state.
LEMMA Names ==
  /\ None \notin State
  /\ {"blocked", "awaiting_user_reply", "ready", "draft", "done", "closed"} \subseteq State
  /\ Finished \subseteq State
  /\ "blocked" \notin Finished /\ "awaiting_user_reply" \notin Finished
  BY DEF None, State, Finished

\* A remembered origin is a state, and not BLOCKED; the origin of a pause is
\* not the pause itself either.
LEMMA OriginStates ==
  ASSUME NEW r, RowOK(r)
  PROVE  /\ r.blocked_from # None => r.blocked_from \in State /\ r.blocked_from # "blocked"
         /\ r.paused_from # None =>
              /\ r.paused_from \in State
              /\ r.paused_from \notin {"blocked", "awaiting_user_reply"}
<1>1. /\ r.blocked_from # None => r.blocked_from \in State
      /\ r.paused_from # None => r.paused_from \in State
  BY DEF RowOK, Ticket
<1>2. r.blocked_from # None => r.blocked_from # "blocked"
  BY Table DEF RowOK, Origins
<1>3. r.paused_from # None => r.paused_from \notin {"blocked", "awaiting_user_reply"}
  BY Table DEF RowOK, Origins
<1> QED BY <1>1, <1>2, <1>3

\* The counts of threads.
LEMMA Counts ==
  ASSUME NEW r, RowOK(r)
  PROVE  /\ r.open \in 0..MaxThreads /\ r.closed \in 0..MaxThreads
         /\ 0 \in 0..MaxThreads /\ 0 \in 0..MaxAttempt
         /\ r.closed + r.open \in 0..MaxThreads
<1>1. r.open \in 0..MaxThreads /\ r.closed \in 0..MaxThreads /\ r.open + r.closed <= MaxThreads
  BY DEF RowOK, Ticket
<1> QED BY <1>1, ServiceConstants

-----------------------------------------------------------------------------
(* transition() *)

LEMMA CloseAllFields ==
  ASSUME NEW r, RowOK(r)
  PROVE  /\ CloseAll(r) \in Ticket
         /\ CloseAll(r).open = 0 /\ CloseAll(r).closed = r.closed + r.open
         /\ CloseAll(r).state = r.state
         /\ CloseAll(r).blocked_from = r.blocked_from /\ CloseAll(r).paused_from = r.paused_from
<1> DEFINE n == r.closed + r.open
<1>1. n \in 0..MaxThreads /\ 0 \in 0..MaxThreads
  BY Counts
<1>2. CloseAll(r) = [r EXCEPT !.closed = n, !.open = 0] /\ r \in Ticket
  BY DEF CloseAll, Ticket, RowOK
<1> HIDE DEF n
<1>3. CloseAll(r) \in Ticket
  BY <1>1, <1>2 DEF Ticket
<1>4. CloseAll(r).closed = n
  BY <1>2 DEF Ticket
<1> QED BY <1>2, <1>3, <1>4 DEF Ticket, n

\* Where transition() may send a row: to a state, never out of a finished
\* one, to BLOCKED and to the pause only from where the table says.
LEMMA Destinations ==
  ASSUME NEW r, RowOK(r), NEW dst, CanMove(r, dst)
  PROVE  /\ r.state \in State /\ dst \in State
         /\ r.state \notin Finished
         /\ dst = "blocked" => "blocked" \in TRANSITIONS[r.state]
         /\ dst = "awaiting_user_reply" =>
              \/ "awaiting_user_reply" \in TRANSITIONS[r.state]
              \/ r.state = "blocked" /\ r.blocked_from = "awaiting_user_reply"
<1>1. r.state \in State /\ can_transition(r.state, dst, r.blocked_from, r.paused_from)
  BY DEF CanMove
<1>2. r.state = "blocked" => r.blocked_from # None
  BY DEF RowOK, Origins
<1>3. r.state = "awaiting_user_reply" => r.paused_from # None
  BY DEF RowOK, Origins, Paused
<1>4. dst \in State
  BY <1>1, <1>2, <1>3, OriginStates, Table DEF can_transition
<1>5. r.state \notin Finished
  BY <1>1, Table, Names DEF can_transition
<1>6. dst = "blocked" => "blocked" \in TRANSITIONS[r.state]
  BY <1>1, <1>2, <1>3, OriginStates DEF can_transition
<1>7. dst = "awaiting_user_reply" =>
        \/ "awaiting_user_reply" \in TRANSITIONS[r.state]
        \/ r.state = "blocked" /\ r.blocked_from = "awaiting_user_reply"
  BY <1>1, <1>3, OriginStates DEF can_transition
<1> QED BY <1>1, <1>4, <1>5, <1>6, <1>7

LEMMA MovedRow ==
  ASSUME NEW r, RowOK(r), NEW dst, CanMove(r, dst), NEW reason \in BOOLEAN
  PROVE  GoodRow(r, Moved(r, dst, reason))
<1> DEFINE b == IF ClosesThreads(r, dst) THEN CloseAll(r) ELSE r
           q == Moved(r, dst, reason)
<1>1. /\ b \in Ticket /\ b.state = r.state
      /\ b.blocked_from = r.blocked_from /\ b.paused_from = r.paused_from
      /\ b.open + b.closed <= MaxThreads
      /\ ClosesThreads(r, dst) => b.open = 0
  BY CloseAllFields, Counts DEF RowOK
<1>2. r.state \in State /\ dst \in State /\ r.state \notin Finished
  BY Destinations
<1> DEFINE bf == IF dst = "blocked" THEN r.state
                 ELSE IF r.state = "blocked" THEN None ELSE b.blocked_from
           rs == IF dst = "blocked" THEN reason
                 ELSE IF r.state = "blocked" THEN FALSE ELSE b.reason
           pf == IF dst = "awaiting_user_reply"
                 THEN (IF b.paused_from = None THEN r.state ELSE b.paused_from)
                 ELSE IF r.state = "awaiting_user_reply" /\ dst # "blocked" THEN None
                 ELSE b.paused_from
<1>3. bf \in State \union {None} /\ pf \in State \union {None} /\ rs \in BOOLEAN
  BY <1>1, <1>2 DEF Ticket
<1>4. q = [b EXCEPT !.state = dst, !.blocked_from = bf, !.reason = rs, !.paused_from = pf]
  BY <1>1 DEF Moved, Ticket
<1>5. /\ q \in Ticket /\ q.state = dst /\ q.blocked_from = bf /\ q.paused_from = pf
      /\ q.open = b.open /\ q.closed = b.closed
  <2> HIDE DEF b, bf, rs, pf, q
  <2> QED BY <1>1, <1>2, <1>3, <1>4 DEF Ticket
<1> HIDE DEF q
<1>6. Origins(q)
  <2>1. bf # None => "blocked" \in TRANSITIONS[bf]
    BY <1>1, Destinations DEF RowOK, Origins
  <2>2. pf # None => "awaiting_user_reply" \in TRANSITIONS[pf]
    BY <1>1, Destinations DEF RowOK, Origins, Paused
  <2>3. dst = "blocked" => bf # None
    BY <1>2, Names
  <2>4. dst = "awaiting_user_reply" \/ (dst = "blocked" /\ bf = "awaiting_user_reply") => pf # None
    BY <1>1, <1>2, Names DEF RowOK, Origins, Paused
  <2> QED BY <1>5, <2>1, <2>2, <2>3, <2>4 DEF Origins, Paused
<1>7. RowOK(q)
  BY <1>1, <1>5, <1>6 DEF RowOK
<1>8. r.state = "awaiting_user_reply" /\ dst = "ready" => q.open = 0
  BY <1>1, <1>5 DEF ClosesThreads
<1> QED BY <1>2, <1>5, <1>7, <1>8 DEF GoodRow, q

-----------------------------------------------------------------------------
(* The rows the other operations write. *)

LEMMA FreshRow ==
  ASSUME NEW s \in State \union {"absent", "deleted"},
         s \notin {"blocked", "awaiting_user_reply"}
  PROVE  RowOK([Absent EXCEPT !.state = s])
<1> DEFINE q == [Absent EXCEPT !.state = s]
<1>1. 0 \in 0..MaxThreads /\ 0 \in 0..MaxAttempt /\ 0 + 0 <= MaxThreads
  BY ServiceConstants
<1>2. q \in Ticket
  BY <1>1 DEF Absent, Ticket
<1>3. /\ q.state = s /\ q.blocked_from = None /\ q.paused_from = None
      /\ q.open = 0 /\ q.closed = 0
  BY DEF Absent
<1> HIDE DEF q
<1>4. Origins(q)
  BY <1>3 DEF Origins, Paused
<1>5. RowOK(q)
  BY <1>1, <1>2, <1>3, <1>4 DEF RowOK
<1> QED BY <1>5 DEF q

\* resume_blocked: back to the origin, which is not BLOCKED; if it is the
\* pause, paused_from is still there.
LEMMA ResumedRow ==
  ASSUME NEW r, RowOK(r), r.state = "blocked", r.blocked_from # None
  PROVE  GoodRow(r, [r EXCEPT !.state = r.blocked_from, !.blocked_from = None,
                              !.reason = FALSE, !.attempt = 0, !.parked = FALSE])
<1> DEFINE s == r.blocked_from
           q == [r EXCEPT !.state = s, !.blocked_from = None,
                          !.reason = FALSE, !.attempt = 0, !.parked = FALSE]
<1>1. s \in State /\ s # "blocked" /\ 0 \in 0..MaxAttempt
  BY OriginStates, Counts
<1>2. /\ q \in Ticket /\ q.state = s /\ q.blocked_from = None
      /\ q.paused_from = r.paused_from /\ q.open = r.open /\ q.closed = r.closed
  <2>1. r \in Ticket
    BY DEF RowOK
  <2> HIDE DEF s
  <2> QED BY <1>1, <2>1 DEF Ticket
<1>3. s = "awaiting_user_reply" => r.paused_from # None
  BY DEF RowOK, Origins, Paused
<1> HIDE DEF q
<1>4. Origins(q)
  BY <1>1, <1>2, <1>3 DEF RowOK, Origins, Paused
<1>5. GoodRow(r, q)
  BY <1>2, <1>4, Names DEF RowOK, GoodRow
<1> QED BY <1>5 DEF q

\* A row that only changes its state, to one of the pipeline.
LEMMA RestatedRow ==
  ASSUME NEW r, RowOK(r), r.state \notin Finished \union {"awaiting_user_reply"},
         NEW s \in {"draft", "ready"}
  PROVE  GoodRow(r, [r EXCEPT !.state = s])
<1> DEFINE q == [r EXCEPT !.state = s]
<1>1. r \in Ticket /\ s \in State
  BY Names DEF RowOK
<1>2. /\ q \in Ticket /\ q.state = s /\ q.blocked_from = r.blocked_from
      /\ q.paused_from = r.paused_from /\ q.open = r.open /\ q.closed = r.closed
  BY <1>1 DEF Ticket
<1> HIDE DEF q
<1>3. Origins(q)
  BY <1>2 DEF RowOK, Origins, Paused
<1>4. GoodRow(r, q)
  BY <1>2, <1>3 DEF RowOK, GoodRow
<1> QED BY <1>4 DEF q

\* close_tracker.
LEMMA TrackerRow ==
  ASSUME NEW r, RowOK(r), r.state \in Finished => r.state = "closed"
  PROVE  GoodRow(r, [r EXCEPT !.state = "closed", !.blocked_from = None,
                              !.reason = FALSE, !.paused_from = None])
<1> DEFINE q == [r EXCEPT !.state = "closed", !.blocked_from = None,
                          !.reason = FALSE, !.paused_from = None]
<1>1. r \in Ticket /\ "closed" \in State
  BY Names DEF RowOK
<1>2. /\ q \in Ticket /\ q.state = "closed" /\ q.blocked_from = None
      /\ q.paused_from = None /\ q.open = r.open /\ q.closed = r.closed
  BY <1>1 DEF Ticket
<1> HIDE DEF q
<1>3. Origins(q)
  BY <1>2 DEF Origins, Paused
<1>4. GoodRow(r, q)
  BY <1>2, <1>3 DEF RowOK, GoodRow
<1> QED BY <1>4 DEF q

\* mark_done: it closes the threads and leaves the two columns.
LEMMA DoneRow ==
  ASSUME NEW r, RowOK(r), r.state \notin Finished
  PROVE  GoodRow(r, [CloseAll(r) EXCEPT !.state = "done"])
<1> DEFINE b == CloseAll(r)
           q == [b EXCEPT !.state = "done"]
<1>1. /\ b \in Ticket /\ b.blocked_from = r.blocked_from /\ b.paused_from = r.paused_from
      /\ b.open = 0 /\ b.closed = r.closed + r.open /\ "done" \in State
  BY CloseAllFields, Names
<1> HIDE DEF b
<1>2. /\ q \in Ticket /\ q.state = "done" /\ q.blocked_from = r.blocked_from
      /\ q.paused_from = r.paused_from /\ q.open = 0 /\ q.closed = r.closed + r.open
  BY <1>1 DEF Ticket
<1> HIDE DEF q
<1>3. Origins(q)
  BY <1>2 DEF RowOK, Origins, Paused
<1>4. q.open + q.closed <= MaxThreads
  BY <1>2, Counts
<1>5. GoodRow(r, q)
  BY <1>2, <1>3, <1>4 DEF RowOK, GoodRow
<1> QED BY <1>5 DEF q, b

\* redraft.
LEMMA RedraftRow ==
  ASSUME NEW r, RowOK(r), r.state \notin Finished
  PROVE  GoodRow(r, [r EXCEPT !.state = "draft", !.open = 0, !.closed = 0, !.replied = FALSE])
<1> DEFINE q == [r EXCEPT !.state = "draft", !.open = 0, !.closed = 0, !.replied = FALSE]
<1>1. r \in Ticket /\ "draft" \in State /\ 0 \in 0..MaxThreads /\ 0 + 0 <= MaxThreads
  BY Names, ServiceConstants DEF RowOK
<1>2. /\ q \in Ticket /\ q.state = "draft" /\ q.blocked_from = r.blocked_from
      /\ q.paused_from = r.paused_from /\ q.open = 0 /\ q.closed = 0
  BY <1>1 DEF Ticket
<1> HIDE DEF q
<1>3. Origins(q)
  BY <1>2 DEF RowOK, Origins, Paused
<1>4. GoodRow(r, q)
  BY <1>1, <1>2, <1>3 DEF RowOK, GoodRow
<1> QED BY <1>4 DEF q

\* Questions, replies and retries: neither the state nor an origin changes.
LEMMA SideRow ==
  ASSUME NEW r, RowOK(r), NEW q \in Ticket,
         q.state = r.state, q.blocked_from = r.blocked_from, q.paused_from = r.paused_from,
         q.open + q.closed <= MaxThreads
  PROVE  GoodRow(r, q)
<1>1. Origins(q)
  BY DEF RowOK, Origins, Paused
<1> QED BY <1>1 DEF RowOK, GoodRow

LEMMA ThreadRow ==
  ASSUME NEW r, RowOK(r), NEW o \in 0..MaxThreads, NEW k \in 0..MaxThreads,
         o + k <= MaxThreads, NEW p \in BOOLEAN
  PROVE  /\ GoodRow(r, [r EXCEPT !.open = o, !.closed = k, !.replied = p])
         /\ GoodRow(r, [r EXCEPT !.open = o, !.closed = k])
<1> DEFINE q == [r EXCEPT !.open = o, !.closed = k, !.replied = p]
           u == [r EXCEPT !.open = o, !.closed = k]
<1>1. r \in Ticket
  BY DEF RowOK
<1>2. /\ q \in Ticket /\ q.state = r.state /\ q.blocked_from = r.blocked_from
      /\ q.paused_from = r.paused_from /\ q.open = o /\ q.closed = k
  BY <1>1 DEF Ticket
<1>3. /\ u \in Ticket /\ u.state = r.state /\ u.blocked_from = r.blocked_from
      /\ u.paused_from = r.paused_from /\ u.open = o /\ u.closed = k
  BY <1>1 DEF Ticket
<1> HIDE DEF q, u
<1>4. GoodRow(r, q) /\ GoodRow(r, u)
  BY <1>2, <1>3, SideRow
<1> QED BY <1>4 DEF q, u

\* _maybe_resume: out of the pause to its origin, every question closed.
LEMMA AnsweredRow ==
  ASSUME NEW r, RowOK(r), r.state = "awaiting_user_reply", r.open = 0, r.paused_from # None
  PROVE  GoodRow(r, [r EXCEPT !.state = r.paused_from, !.blocked_from = None,
                              !.reason = FALSE, !.paused_from = None])
<1> DEFINE s == r.paused_from
           q == [r EXCEPT !.state = s, !.blocked_from = None, !.reason = FALSE,
                          !.paused_from = None]
<1>1. r \in Ticket /\ s \in State /\ s \notin {"blocked", "awaiting_user_reply"}
  BY OriginStates DEF RowOK
<1> HIDE DEF s
<1>2. /\ q \in Ticket /\ q.state = s /\ q.blocked_from = None
      /\ q.paused_from = None /\ q.open = r.open /\ q.closed = r.closed
  BY <1>1 DEF Ticket
<1> HIDE DEF q
<1>3. Origins(q)
  BY <1>1, <1>2 DEF Origins, Paused
<1>4. GoodRow(r, q)
  BY <1>2, <1>3, Names DEF RowOK, GoodRow
<1> QED BY <1>4 DEF q, s

-----------------------------------------------------------------------------
(* The steps. *)

\* One row is replaced by a good one.
LEMMA PutStep ==
  ASSUME SInv, NEW t \in Tickets, NEW q, GoodRow(tk[t], q), Put(t, q),
         pending' \subseteq Continuation
  PROVE  SInv' /\ GoodStep
<1>1. q \in Ticket
  BY DEF GoodRow, RowOK
<1>2. tk' \in [Tickets -> Ticket] /\ tk'[t] = q /\ \A u \in Tickets : u # t => tk'[u] = tk[u]
  BY <1>1 DEF Put, SInv
<1>3. \A u \in Tickets : RowOK(tk'[u])
  BY <1>2 DEF SInv, GoodRow
<1>4. GoodStep
  BY <1>2 DEF GoodStep, GoodRow
<1>5. SInv'
  BY <1>2, <1>3 DEF SInv, RowOK, Origins, Paused
<1> QED BY <1>4, <1>5

\* No row changes.
LEMMA SameRows ==
  ASSUME SInv, UNCHANGED tk, pending' \subseteq Continuation
  PROVE  SInv' /\ GoodStep
<1>1. GoodStep
  BY DEF GoodStep
<1>2. SInv'
  BY DEF SInv, RowOK, Origins, Paused
<1> QED BY <1>1, <1>2

LEMMA LaterType ==
  ASSUME NEW t \in Tickets, NEW op \in {"resume", "transition", "unblock", "reawait"},
         NEW dst \in State \union {None}
  PROVE  Later(t, op, dst) \in Continuation
  BY DEF Later, Continuation

LEMMA UnblockedType ==
  ASSUME NEW t \in Tickets, NEW dst
  PROVE  Unblocked(t, dst) \subseteq Continuation
<1>1. Unblocks[t] \subseteq Tickets
  BY ServiceConstants
<1> QED BY <1>1 DEF Unblocked, Continuation

LEMMA MoveStep ==
  ASSUME SInv, NEW t \in Tickets, NEW dst, NEW reason \in BOOLEAN,
         NEW rest \in SUBSET Continuation, Move(t, dst, reason, rest)
  PROVE  SInv' /\ GoodStep
<1>1. RowOK(tk[t]) /\ CanMove(tk[t], dst)
  BY DEF SInv, Move
<1>2. GoodRow(tk[t], Moved(tk[t], dst, reason))
  BY <1>1, MovedRow
<1>3. pending' \subseteq Continuation
  BY UnblockedType DEF Move
<1>4. Put(t, Moved(tk[t], dst, reason))
  BY DEF Move, Put
<1> QED BY <1>2, <1>3, <1>4, PutStep

LEMMA UserStep ==
  ASSUME SInv, NEW t \in Tickets, UserCall(t)
  PROVE  SInv' /\ GoodStep
<1>0. RowOK(tk[t]) /\ pending \subseteq Continuation
  BY DEF SInv
<1>1. ASSUME NEW s \in InitialStates, Create(t, s) PROVE SInv' /\ GoodStep
  <2>1. s \in State /\ s \notin {"blocked", "awaiting_user_reply"}
    BY ServiceConstants DEF State
  <2>2. RowOK([Absent EXCEPT !.state = s])
    BY <2>1, FreshRow
  <2>3. tk[t].state \notin Finished \union {"awaiting_user_reply"}
    BY <1>1 DEF Create, Finished
  <2>4. GoodRow(tk[t], [Absent EXCEPT !.state = s])
    BY <2>2, <2>3 DEF GoodRow
  <2> QED BY <1>0, <1>1, <2>4, PutStep DEF Create
<1>2. ASSUME NEW dst \in Requests, Transition(t, dst) PROVE SInv' /\ GoodStep
  <2>1. PICK reason \in Reasons : Move(t, dst, reason, pending)
    BY <1>2 DEF Transition
  <2>2. reason \in BOOLEAN
    BY ServiceConstants
  <2> QED BY <1>0, <2>1, <2>2, MoveStep
<1>3. CASE Delete(t)
  <2>1. RowOK([Absent EXCEPT !.state = "deleted"])
    BY FreshRow
  <2>2. [Absent EXCEPT !.state = "deleted"].state = "deleted"
    BY DEF Absent
  <2>3. GoodRow(tk[t], [Absent EXCEPT !.state = "deleted"])
    BY <2>1, <2>2 DEF GoodRow
  <2> QED BY <1>0, <1>3, <2>3, PutStep DEF Delete
<1>4. CASE ResumeBlocked(t)
  BY <1>0, <1>4, ResumedRow, PutStep DEF ResumeBlocked
<1>5. CASE RequestChanges(t)
  <2>1. tk[t].state \notin Finished \union {"awaiting_user_reply"}
    BY <1>5 DEF RequestChanges, Finished
  <2> QED BY <1>0, <1>5, <2>1, RestatedRow, PutStep DEF RequestChanges
<1>6. CASE RequestImplementationChanges(t)
  <2>1. tk[t].state \notin Finished \union {"awaiting_user_reply"}
    BY <1>6 DEF RequestImplementationChanges, Finished
  <2> QED BY <1>0, <1>6, <2>1, RestatedRow, PutStep DEF RequestImplementationChanges
<1>7. CASE CloseTracker(t)
  <2>1. tk[t].state \notin Finished
    BY <1>7 DEF CloseTracker, Finished
  <2> QED BY <1>0, <1>7, <2>1, TrackerRow, PutStep DEF CloseTracker
<1>8. CASE MarkDone(t)
  <2>1. tk[t].state \notin Finished
    BY <1>8 DEF MarkDone, Finished
  <2>2. pending' \subseteq Continuation
    BY <1>0, <1>8, UnblockedType DEF MarkDone
  <2> QED BY <1>0, <1>8, <2>1, <2>2, DoneRow, PutStep DEF MarkDone
<1>9. CASE Redraft(t)
  <2>1. tk[t].state \notin Finished
    BY <1>9 DEF Redraft, Finished
  <2> QED BY <1>0, <1>9, <2>1, RedraftRow, PutStep DEF Redraft
<1>10. /\ tk[t].open \in 0..MaxThreads /\ tk[t].closed \in 0..MaxThreads
       /\ tk[t].closed + tk[t].open \in 0..MaxThreads
       /\ tk[t] \in Ticket
  BY <1>0, Counts DEF RowOK
<1> DEFINE answered == [tk[t] EXCEPT !.open = @ - 1, !.closed = @ + 1, !.replied = TRUE]
           closedOne == [tk[t] EXCEPT !.open = @ - 1, !.closed = @ + 1]
<1>11. ASSUME tk[t].open > 0 PROVE GoodRow(tk[t], answered) /\ GoodRow(tk[t], closedOne)
  <2> DEFINE o == tk[t].open - 1
             k == tk[t].closed + 1
  <2>1. o \in 0..MaxThreads /\ k \in 0..MaxThreads /\ o + k <= MaxThreads
    BY <1>10, <1>11, ServiceConstants
  <2>2. /\ answered = [tk[t] EXCEPT !.open = o, !.closed = k, !.replied = TRUE]
        /\ closedOne = [tk[t] EXCEPT !.open = o, !.closed = k]
    BY <1>10 DEF Ticket
  <2> HIDE DEF o, k, answered, closedOne
  <2> QED BY <1>0, <2>1, <2>2, ThreadRow
<1>12. \A op \in {"resume", "transition", "unblock", "reawait"}, dst \in {"ready", None} :
         Later(t, op, dst) \in Continuation
  BY LaterType, Names
<1> HIDE DEF answered, closedOne
<1>13. CASE Reply(t)
  <2>1. CASE tk[t].open > 0 /\ Put(t, answered) /\ pending' = pending \union {Later(t, "resume", None)}
    <3>1. pending' \subseteq Continuation
      BY <1>0, <1>12, <2>1
    <3> QED BY <1>11, <2>1, <3>1, PutStep
  <2>2. CASE Put(t, [tk[t] EXCEPT !.replied = TRUE]) /\ UNCHANGED pending
    <3> DEFINE q == [tk[t] EXCEPT !.replied = TRUE]
    <3>1. /\ q \in Ticket /\ q.state = tk[t].state /\ q.blocked_from = tk[t].blocked_from
          /\ q.paused_from = tk[t].paused_from /\ q.open = tk[t].open /\ q.closed = tk[t].closed
      BY <1>10 DEF Ticket
    <3> HIDE DEF q
    <3>2. GoodRow(tk[t], q)
      BY <1>0, <3>1, SideRow DEF RowOK
    <3> QED BY <1>0, <2>2, <3>2, PutStep DEF q
  <2> QED BY <1>13, <2>1, <2>2 DEF Reply, answered
<1>14. CASE CloseThread(t)
  <2>1. pending' \subseteq Continuation
    BY <1>0, <1>12, <1>14 DEF CloseThread
  <2>2. CASE tk[t].open > 0 /\ Put(t, closedOne)
    BY <1>11, <2>1, <2>2, PutStep
  <2>3. CASE UNCHANGED tk
    BY <2>1, <2>3, SameRows
  <2> QED BY <1>14, <2>2, <2>3 DEF CloseThread, closedOne
<1>15. CASE ReopenThread(t)
  <2> DEFINE o == tk[t].open + 1
             k == tk[t].closed - 1
  <2>1. o \in 0..MaxThreads /\ k \in 0..MaxThreads /\ o + k <= MaxThreads
    BY <1>10, <1>15, ServiceConstants DEF ReopenThread
  <2>2. Put(t, [tk[t] EXCEPT !.open = o, !.closed = k])
    BY <1>10, <1>15 DEF ReopenThread, Ticket
  <2> HIDE DEF o, k
  <2>3. GoodRow(tk[t], [tk[t] EXCEPT !.open = o, !.closed = k])
    BY <1>0, <2>1, ThreadRow
  <2> QED BY <1>0, <1>15, <2>2, <2>3, PutStep DEF ReopenThread
<1>16. ASSUME NEW change \in BOOLEAN, AnswerPendingQuestion(t, change) PROVE SInv' /\ GoodStep
  <2>1. tk[t].open > 0 /\ Put(t, answered)
    BY <1>16 DEF AnswerPendingQuestion, answered
  <2>2. pending' \subseteq Continuation
    BY <1>0, <1>12, <1>16 DEF AnswerPendingQuestion
  <2> QED BY <1>11, <2>1, <2>2, PutStep
<1> QED BY <1>1, <1>2, <1>3, <1>4, <1>5, <1>6, <1>7, <1>8, <1>9, <1>13, <1>14, <1>15, <1>16
        DEF UserCall

LEMMA WorkerStep ==
  ASSUME SInv, NEW t \in Tickets, WorkerCall(t)
  PROVE  SInv' /\ GoodStep
<1>0. /\ RowOK(tk[t]) /\ pending \subseteq Continuation /\ tk[t] \in Ticket
      /\ tk[t].open \in 0..MaxThreads /\ tk[t].closed \in 0..MaxThreads
  BY Counts DEF SInv, RowOK
<1>1. ASSUME NEW a \in 0..MaxAttempt, NEW p \in BOOLEAN, SetRetryState(t, a, p)
      PROVE  SInv' /\ GoodStep
  <2> DEFINE q == [tk[t] EXCEPT !.attempt = a, !.parked = p]
  <2>1. /\ q \in Ticket /\ q.state = tk[t].state /\ q.blocked_from = tk[t].blocked_from
        /\ q.paused_from = tk[t].paused_from /\ q.open = tk[t].open /\ q.closed = tk[t].closed
    BY <1>0 DEF Ticket
  <2>2. Put(t, q) /\ pending' \subseteq Continuation
    BY <1>0, <1>1 DEF SetRetryState
  <2> HIDE DEF q
  <2>3. GoodRow(tk[t], q)
    BY <1>0, <2>1, SideRow DEF RowOK
  <2> QED BY <2>2, <2>3, PutStep
<1>2. CASE AskUser(t)
  <2> DEFINE o == tk[t].open + 1
             k == tk[t].closed
             q == [tk[t] EXCEPT !.open = o]
  <2>1. o \in 0..MaxThreads /\ o + k <= MaxThreads
    BY <1>0, <1>2, ServiceConstants DEF AskUser
  <2>2. Put(t, q) /\ pending' \subseteq Continuation
    BY <1>0, <1>2 DEF AskUser, Ticket
  <2> HIDE DEF o
  <2>3. /\ q \in Ticket /\ q.state = tk[t].state /\ q.blocked_from = tk[t].blocked_from
        /\ q.paused_from = tk[t].paused_from /\ q.open = o /\ q.closed = k
    BY <1>0, <2>1 DEF Ticket
  <2> HIDE DEF q
  <2>4. GoodRow(tk[t], q)
    BY <1>0, <2>1, <2>3, SideRow
  <2> QED BY <2>2, <2>4, PutStep
<1> QED BY <1>1, <1>2 DEF WorkerCall

LEMMA ContinueStep ==
  ASSUME SInv, NEW c \in pending, Continue(c)
  PROVE  SInv' /\ GoodStep
<1>0. /\ c \in Continuation /\ c.t \in Tickets /\ c.dst \in State \union {None}
      /\ RowOK(tk[c.t]) /\ pending \subseteq Continuation /\ pending \ {c} \in SUBSET Continuation
  BY DEF SInv, Continuation
<1>1. CASE MaybeResume(c)
  <2>1. pending' \subseteq Continuation
    BY <1>0, <1>1 DEF MaybeResume
  <2>2. CASE UNCHANGED tk
    BY <2>1, <2>2, SameRows
  <2>3. CASE /\ tk[c.t].state = "awaiting_user_reply" /\ tk[c.t].open = 0
             /\ tk[c.t].paused_from # None
             /\ Put(c.t, [tk[c.t] EXCEPT !.state = tk[c.t].paused_from, !.blocked_from = None,
                                         !.reason = FALSE, !.paused_from = None])
    BY <1>0, <2>1, <2>3, AnsweredRow, PutStep
  <2> QED BY <1>1, <2>2, <2>3 DEF MaybeResume
<1>2. CASE Deferred(c)
  <2>1. CASE Move(c.t, c.dst, FALSE, pending \ {c})
    BY <1>0, <2>1, MoveStep
  <2>2. CASE UNCHANGED tk /\ pending' = pending \ {c}
    BY <1>0, <2>2, SameRows
  <2> QED BY <1>2, <2>1, <2>2 DEF Deferred
<1>3. CASE Reawait(c)
  <2> DEFINE next == IF c.dst = None THEN Later(c.t, "resume", None)
                     ELSE Later(c.t, "transition", c.dst)
  <2>1. next \in Continuation
    BY <1>0, LaterType
  <2>2. CASE Move(c.t, "awaiting_user_reply", FALSE, (pending \ {c}) \union {next})
    <3>1. (pending \ {c}) \union {next} \in SUBSET Continuation
      BY <1>0, <2>1
    <3> HIDE DEF next
    <3> QED BY <1>0, <2>2, <3>1, MoveStep
  <2>3. CASE UNCHANGED tk /\ pending' = pending \ {c}
    BY <1>0, <2>3, SameRows
  <2> QED BY <1>3, <2>2, <2>3 DEF Reawait
<1>4. CASE FireUnblock(c)
  <2>1. tk[c.t].blocked_from \in State \union {None} /\ "draft" \in State
    BY <1>0, Names DEF RowOK, Ticket
  <2>2. Later(c.t, "transition",
              IF tk[c.t].blocked_from # None THEN tk[c.t].blocked_from ELSE "draft") \in Continuation
    BY <1>0, <2>1, LaterType
  <2>3. pending' \subseteq Continuation
    BY <1>0, <1>4, <2>2 DEF FireUnblock
  <2> QED BY <1>4, <2>3, SameRows DEF FireUnblock
<1> QED BY <1>1, <1>2, <1>3, <1>4 DEF Continue

LEMMA ServiceInit == Init => SInv
<1> SUFFICES ASSUME Init PROVE SInv
  OBVIOUS
<1>1. Absent \in Ticket /\ 0 + 0 <= MaxThreads
  BY ServiceConstants DEF Absent, Ticket
<1>2. RowOK(Absent)
  BY <1>1 DEF RowOK, Origins, Paused, Absent
<1> QED BY <1>2 DEF Init, SInv, RowOK

LEMMA ServiceStep == SInv /\ [Next]_vars => SInv' /\ [GoodStep]_vars
<1> SUFFICES ASSUME SInv, [Next]_vars PROVE SInv' /\ [GoodStep]_vars
  OBVIOUS
<1>1. CASE UNCHANGED vars
  <2>1. UNCHANGED tk /\ pending' \subseteq Continuation
    BY <1>1 DEF vars, SInv
  <2> QED BY <1>1, <2>1, SameRows
<1>2. ASSUME NEW t \in Tickets, Call(t) PROVE SInv' /\ GoodStep
  BY <1>2, UserStep, WorkerStep DEF Call
<1>3. ASSUME NEW c \in pending, Continue(c) PROVE SInv' /\ GoodStep
  BY <1>3, ContinueStep
<1>4. CASE Crash
  BY <1>4, SameRows DEF Crash
<1> QED BY <1>1, <1>2, <1>3, <1>4 DEF Next, Step

-----------------------------------------------------------------------------

(***************************************************************************)
(* The rows and the second sessions keep their types, and the columns      *)
(* blocked_from and paused_from only ever name states one can come from.   *)
(***************************************************************************)
THEOREM ServiceInvariant == Spec => []SInv
<1>1. SInv /\ [Next]_vars => SInv'
  BY ServiceStep
<1> QED BY <1>1, ServiceInit, PTL DEF Spec

(***************************************************************************)
(* The ticket table keeps its types.                                       *)
(***************************************************************************)
THEOREM ServiceTypeCorrect == Spec => []TypeOK
<1>1. SInv => TypeOK
  BY DEF SInv, TypeOK
<1> QED BY <1>1, ServiceInvariant, PTL

(***************************************************************************)
(* Every blocked ticket has a place to resume to, and it is not BLOCKED    *)
(* and not a finished state (resume_blocked, _fire_unblocks).              *)
(***************************************************************************)
THEOREM BlockedCanResume == Spec => []BlockedIsResumable
<1>1. SInv => BlockedIsResumable
  BY DEF SInv, RowOK, Origins, BlockedIsResumable
<1> QED BY <1>1, ServiceInvariant, PTL

(***************************************************************************)
(* Every paused ticket, escalated or not, has a place to resume to when    *)
(* its questions are answered (_maybe_resume_awaiting_user_reply).         *)
(***************************************************************************)
THEOREM PausedCanResume == Spec => []PausedIsResumable
<1>1. SInv => PausedIsResumable
  BY DEF SInv, RowOK, Origins, PausedIsResumable
<1> QED BY <1>1, ServiceInvariant, PTL

(***************************************************************************)
(* Both together, with the types: what the runs check of a parked ticket.  *)
(***************************************************************************)
THEOREM ParkedCanResume == Spec => []ParkedIsResumable
<1>1. TypeOK /\ BlockedIsResumable /\ PausedIsResumable => ParkedIsResumable
  BY DEF ParkedIsResumable
<1> QED BY <1>1, ServiceTypeCorrect, BlockedCanResume, PausedCanResume, PTL

(***************************************************************************)
(* No operation of the service, and no second session of one that began    *)
(* before the end, moves a finished ticket.                                *)
(***************************************************************************)
THEOREM FinishedStaysFinished == Spec => FinishedIsFinal
<1>1. SInv /\ [Next]_vars =>
        [\A t \in Tickets :
           tk[t].state \in Finished => tk'[t].state \in {tk[t].state, "deleted"}]_vars
  BY ServiceStep DEF GoodStep
<1> QED BY <1>1, ServiceInvariant, PTL DEF Spec, FinishedIsFinal

(***************************************************************************)
(* A paused ticket goes on to implement only with every question closed.   *)
(***************************************************************************)
THEOREM OnlyAnsweredImplement == Spec => ImplementsOnlyAnswered
<1>1. SInv /\ [Next]_vars =>
        [\A t \in Tickets :
           tk[t].state = "awaiting_user_reply" /\ tk'[t].state = "ready" => tk'[t].open = 0]_vars
  BY ServiceStep DEF GoodStep
<1> QED BY <1>1, ServiceInvariant, PTL DEF Spec, ImplementsOnlyAnswered

-----------------------------------------------------------------------------
(* The refine stage.  DecisionsAreSound needs that a description only moves *)
(* on, so that a visit the cache did not answer is of a later form than the *)
(* outcome in it (Visited), that what the cache serves is what the guard    *)
(* let through (CacheHeld), how far the children of a split are (KidsHeld)  *)
(* and that a ticket closed by a visit left its outcome in the cache        *)
(* (Decided).                                                               *)
VisitRec == [pc : Steps, key : Texts \cup {"none"}, cmts : SUBSET Threads, res : Results \cup {Nothing},
             dst : CardStates, note : Notes, passes : Nat, out : Texts \cup {"none"}, agent : BOOLEAN]
Entries == [key : Texts, dst : CardStates \ {"BLOCKED", "DRAFT"}, note : Notes]

\* A description only ever moves on, to an advisory and to a specification.
Form(t) == IF t = "empty" THEN 0 ELSE IF t = "draft" THEN 1 ELSE IF t = "advised" THEN 2 ELSE 3

SplitDone == kids.made = 2 /\ kids.linked /\ kids.decided = 2
Undecided == {"idle", "clone", "gates", "classify", "advise", "agent", "saved", "result", "create",
              "link", "children"}
Ahead == (Undecided \ {"idle"}) \cup {"count", "guard"}
Unresolved(d, n) == d = "DONE" /\ card.branch = "none" /\ n # "close"

\* Only a draft, or a ticket its own visit has parked, is being refined.  The
\* outcome in the cache is of an earlier description until a new one is there.
Visited ==
  /\ visit.pc # "idle" => card.st \in {"DRAFT", "AWAITING_USER_REPLY"}
  /\ visit.pc \in Ahead =>
       /\ visit.key \in Texts /\ Form(visit.key) <= Form(doc)
       /\ disk.cache # Nothing => Form(disk.cache.key) < Form(doc)
  /\ visit.pc \in Undecided => visit.note = "none"
  /\ visit.pc \in {"saved", "result", "create", "link", "children"} =>
       visit.res \in Results /\ visit.res.text \in {doc, "spec"}
  /\ visit.agent /\ MaxPasses > 0 => visit.passes < MaxPasses
  /\ visit.pc = "count" => visit.agent

\* What the cache serves is what the guard let through.
CacheHeld == disk.cache # Nothing =>
  /\ Form(disk.cache.key) <= Form(doc)
  /\ disk.cache.note = "split" /\ Form(disk.cache.key) = Form(doc) => SplitDone
  /\ ~Unresolved(disk.cache.dst, disk.cache.note)

\* How far the children are.
KidsHeld ==
  /\ visit.pc = "create" => kids.made < 2 /\ kids.decided = 0
  /\ visit.pc = "link" => kids.made = 2 /\ kids.decided = 0
  /\ visit.pc = "children" => kids.made = 2 /\ kids.linked
  /\ visit.note = "split" => SplitDone

\* What a visit ends with.
Decided ==
  /\ visit.pc \in {"clear", "return"} => ~Unresolved(visit.dst, visit.note)
  /\ visit.pc \in {"clear", "return"} /\ visit.dst = "CLOSED" =>
       disk.cache # Nothing /\ disk.cache.note = visit.note

CardRec == [st : CardStates, source : Sources, branch : Branches, child : BOOLEAN, unmet : BOOLEAN,
            trips : 0..MaxTrips, passes : Nat, out : Texts \cup {"none"}]
DiskRec == [cache : Entries \cup {Nothing}, ckpt : Results \cup {Nothing}, conv : BOOLEAN,
            verdict : [of : Texts, ok : BOOLEAN] \cup {Nothing}]
PastRec == [approved : BOOLEAN, sentback : BOOLEAN, paused : BOOLEAN, moved : BOOLEAN]
TalkRec == [open : SUBSET Threads, acked : SUBSET Threads, seen : SUBSET Threads,
            asked : {"none", "open", "answered"}]
KidsRec == [made : 0..2, linked : BOOLEAN, decided : 0..2]

RTypes ==
  /\ card \in CardRec /\ (MaxPasses > 0 => card.passes <= MaxPasses)
  /\ doc \in Texts /\ disk \in DiskRec /\ hist \in PastRec /\ talk \in TalkRec /\ kids \in KidsRec
  /\ visit \in VisitRec /\ faults \in 0..MaxFaults
  /\ disk.ckpt # Nothing => disk.ckpt.text = "spec"
RInv == RTypes /\ Visited /\ CacheHeld /\ KidsHeld /\ Decided /\ SplitIsComplete

\* What a step leaves as it was, or typed, outside of the visit.
Frame ==
  /\ card' \in CardRec /\ card'.branch = card.branch /\ card'.passes = card.passes
  /\ doc' \in Texts /\ Form(doc) <= Form(doc')
  /\ disk' \in DiskRec /\ disk'.cache = disk.cache /\ (disk'.ckpt # Nothing => disk'.ckpt.text = "spec")
  /\ hist' \in PastRec /\ talk' \in TalkRec /\ kids' \in KidsRec /\ faults' \in 0..MaxFaults

----------------------------------------------------------------------------
(* The shapes of a step *)

Plain == [dst : CardStates, note : Notes \ {"split"}]

LEMMA PlainOut == ASSUME NEW d \in CardStates, NEW n \in Notes \ {"split"} PROVE Out(d, n) \in Plain
  BY DEF Plain, Out

LEMMA ResolvedPlain ==
    ASSUME NEW t, NEW w, NEW v, NEW n \in Notes \ {"split"}
    PROVE  _resolve_next_state(t, w, v, n) \subseteq Plain
<1> DEFINE ok == IF v.ok THEN "READY" ELSE "HUMAN_ISSUE_APPROVAL"
<1>1. ok \in {"READY", "HUMAN_ISSUE_APPROVAL"}
  OBVIOUS
<1>2. {Out("READY", n), Out("BLOCKED", n), Out("HUMAN_ISSUE_APPROVAL", n), Out(ok, "verdict")} \subseteq Plain
  <2>1. {"READY", "BLOCKED", "HUMAN_ISSUE_APPROVAL"} \subseteq CardStates /\ "verdict" \in Notes \ {"split"}
    BY DEF CardStates, Notes
  <2> HIDE DEF ok
  <2> QED
    BY <1>1, <2>1, PlainOut
<1>3. _resolve_next_state(t, w, v, n) \subseteq {Out("READY", n), Out("BLOCKED", n), Out("HUMAN_ISSUE_APPROVAL", n), Out(ok, "verdict")}
  <2> DEFINE r == Out("READY", n)
             b == Out("BLOCKED", n)
             h == Out("HUMAN_ISSUE_APPROVAL", n)
             vo == Out(ok, "verdict")
             last == IF w /\ v # Nothing THEN {vo} ELSE {r, h}
             first == IF card.source = "audit" THEN {r} ELSE {}
  <2>1. _resolve_next_state(t, w, v, n) =
          IF ~RequireApproval THEN {r} ELSE IF t = "empty" THEN {b} ELSE IF hist.approved THEN {r}
          ELSE first \cup last
    BY DEF _resolve_next_state
  <2> HIDE DEF r, b, h, vo
  <2>2. first \subseteq {r, b, h, vo} /\ last \subseteq {r, b, h, vo}
    OBVIOUS
  <2> HIDE DEF first, last
  <2>3. _resolve_next_state(t, w, v, n) \subseteq {r, b, h, vo}
    BY <2>1, <2>2
  <2> QED
    BY <2>3 DEF r, b, h, vo
<1> QED
  BY <1>2, <1>3, Zenon

LEMMA TriagedPlain == _triage_outcome("plain") \subseteq Plain
  BY ResolvedPlain DEF _triage_outcome, Notes

LEMMA GatedPlain ==
    _run_freshness_gate \cup _run_deliverable_exists_gate \cup _run_doc_only_gate
    \cup _run_workflow_portability_gate \cup _run_scope_triage_repo_awareness_gate
    \cup _run_obsolescence_gate \subseteq Plain
<1>1. {"DONE", "READY", "HUMAN_ISSUE_APPROVAL"} \subseteq CardStates /\ {"plain", "close"} \subseteq Notes \ {"split"}
  BY DEF CardStates, Notes
<1>2. /\ _run_freshness_gate \subseteq Plain /\ _run_deliverable_exists_gate \subseteq Plain
      /\ _run_doc_only_gate \subseteq Plain /\ _run_workflow_portability_gate \subseteq Plain
      /\ _run_obsolescence_gate \subseteq Plain
  BY <1>1, PlainOut DEF _run_freshness_gate, _run_deliverable_exists_gate, _run_doc_only_gate,
     _run_workflow_portability_gate, _run_obsolescence_gate
<1>3. _run_scope_triage_repo_awareness_gate \subseteq Plain
  BY <1>1, PlainOut, Zenon DEF _run_scope_triage_repo_awareness_gate
<1> QED
  BY <1>2, <1>3, Zenon

LEMMA ClassifiedPlain ==
    deterministic_triage_pre_checks \cup handle_triage_decision \cup ReviewerAgreement
    \cup StandardsGate \cup DedupVerdict \subseteq Plain
<1>1. /\ {"DONE", "READY", "CLOSED", "HUMAN_ISSUE_APPROVAL"} \subseteq CardStates
      /\ {"plain", "close", "claim", "placeholder"} \subseteq Notes \ {"split"}
  BY DEF CardStates, Notes
<1>2. StandardsGate \subseteq Plain /\ DedupVerdict \subseteq Plain
  BY <1>1, PlainOut DEF StandardsGate, DedupVerdict
<1>3. _emit_no_change \subseteq Plain
  BY <1>1, PlainOut, TriagedPlain DEF _emit_no_change
<1>4. handle_triage_decision \subseteq Plain
  BY <1>1, <1>3, PlainOut, TriagedPlain DEF handle_triage_decision
<1>5. ReviewerAgreement \subseteq Plain
  BY <1>1, PlainOut, TriagedPlain DEF ReviewerAgreement
<1>6. deterministic_triage_pre_checks \subseteq Plain
  BY <1>1, PlainOut, TriagedPlain DEF deterministic_triage_pre_checks, _ci_tooling_auto_disposition,
     _scanner_auto_disposition
<1> QED
  BY <1>2, <1>4, <1>5, <1>6

LEMMA DecideFields ==
    ASSUME visit \in VisitRec, NEW o, o.dst \in CardStates, o.note \in Notes, Decide(o)
    PROVE  /\ visit' \in VisitRec /\ visit'.pc = (IF visit.agent THEN "count" ELSE "guard")
           /\ visit'.dst = o.dst /\ visit'.note = o.note
           /\ visit'.key = visit.key /\ visit'.passes = visit.passes /\ visit'.agent = visit.agent
<1> DEFINE l == IF visit.agent THEN "count" ELSE "guard"
<1>1. l \in Steps
  BY DEF Steps
<1>2. visit' = [visit EXCEPT !.pc = l, !.dst = o.dst, !.note = o.note, !.res = Nothing, !.cmts = {}]
  BY DEF Decide
<1> HIDE DEF l
<1>3. /\ visit' \in VisitRec /\ visit'.pc = l /\ visit'.dst = o.dst /\ visit'.note = o.note
      /\ visit'.key = visit.key /\ visit'.passes = visit.passes /\ visit'.agent = visit.agent
  BY <1>1, <1>2 DEF VisitRec
<1> QED
  BY <1>3 DEF l

LEMMA ToLabelFields ==
    ASSUME visit \in VisitRec, NEW l \in Steps, StepTo(l)
    PROVE  /\ visit' \in VisitRec /\ visit'.pc = l /\ visit'.res = visit.res /\ visit'.dst = visit.dst
           /\ visit'.note = visit.note /\ visit'.key = visit.key /\ visit'.passes = visit.passes
           /\ visit'.agent = visit.agent
  BY DEF VisitRec, StepTo

LEMMA FormNumbers == \A t \in Texts : Form(t) \in 0..3
  BY DEF Texts, Form

LEMMA SameFrame == RInv /\ UNCHANGED <<card, doc, disk, hist, talk, kids, faults>> => Frame
  BY FormNumbers DEF Frame, RInv, RTypes

LEMMA FrameTypes == ASSUME RInv, Frame, visit' \in VisitRec PROVE RTypes'
  BY DEF RInv, RTypes, Frame

LEMMA EntryForms == ASSUME RInv, disk.cache # Nothing PROVE disk.cache \in Entries /\ Form(disk.cache.key) \in 0..3
  BY FormNumbers DEF RInv, RTypes, DiskRec, Entries

\* A step to the end of the gates and the agent.
LEMMA DecideKept ==
    ASSUME RInv, Frame, visit.pc \in Undecided \ {"idle"}, card'.st \in {"DRAFT", "AWAITING_USER_REPLY"},
           NEW o, o.dst \in CardStates, o.note \in Notes, Decide(o), kids' = kids, o.note = "split" => SplitDone
    PROVE  RInv'
<1>1. /\ visit' \in VisitRec /\ visit'.pc = (IF visit.agent THEN "count" ELSE "guard")
      /\ visit'.dst = o.dst /\ visit'.note = o.note
      /\ visit'.key = visit.key /\ visit'.passes = visit.passes /\ visit'.agent = visit.agent
  BY DecideFields DEF RInv, RTypes
<1>2. visit'.pc \in {"count", "guard"}
  BY <1>1
<1>3. /\ visit.key \in Texts /\ Form(visit.key) <= Form(doc)
      /\ disk.cache # Nothing => Form(disk.cache.key) < Form(doc)
      /\ visit.agent /\ MaxPasses > 0 => visit.passes < MaxPasses
  BY DEF RInv, Visited, Ahead
<1>4. Form(doc) \in 0..3 /\ Form(doc') \in 0..3 /\ Form(visit.key) \in 0..3
  BY <1>3, FormNumbers DEF RInv, RTypes, Frame
<1>5. Visited'
  <2>1. disk'.cache # Nothing => Form(disk'.cache.key) < Form(doc')
    BY <1>3, <1>4, EntryForms DEF Frame
  <2>2. Form(visit.key) <= Form(doc')
    BY <1>3, <1>4 DEF Frame
  <2> QED
    BY <1>1, <1>2, <1>3, <2>1, <2>2 DEF Visited, Ahead, Undecided
<1>6. CacheHeld'
  BY <1>3, <1>4, EntryForms DEF CacheHeld, RInv, Frame, Unresolved
<1>7. KidsHeld'
  BY <1>1, <1>2 DEF KidsHeld, RInv, SplitDone
<1>8. Decided'
  BY <1>2 DEF Decided
<1>9. SplitIsComplete'
  BY DEF SplitIsComplete
<1> QED
  BY <1>1, <1>5, <1>6, <1>7, <1>8, <1>9, FrameTypes DEF RInv

\* A step on, before anything is decided.
LEMMA MoveKept ==
    ASSUME RInv, Frame, visit.pc \in Undecided \ {"idle"}, card' = card, visit' \in VisitRec,
           visit'.pc \in Undecided \ {"idle"}, visit'.note = visit.note, visit'.key = visit.key,
           visit'.agent /\ MaxPasses > 0 => visit'.passes < MaxPasses,
           visit'.pc \in {"saved", "result", "create", "link", "children"} =>
             visit'.res \in Results /\ visit'.res.text \in {doc', "spec"},
           visit'.pc = "create" => kids'.made < 2 /\ kids'.decided = 0,
           visit'.pc = "link" => kids'.made = 2 /\ kids'.decided = 0,
           visit'.pc = "children" => kids'.made = 2 /\ kids'.linked
    PROVE  RInv'
<1>1. /\ visit.key \in Texts /\ Form(visit.key) <= Form(doc) /\ visit.note = "none"
      /\ disk.cache # Nothing => Form(disk.cache.key) < Form(doc)
      /\ card.st \in {"DRAFT", "AWAITING_USER_REPLY"}
  BY DEF RInv, Visited, Ahead
<1>2. Form(doc) \in 0..3 /\ Form(doc') \in 0..3 /\ Form(visit.key) \in 0..3
  BY <1>1, FormNumbers DEF RInv, RTypes, Frame
<1>3. Visited'
  <2>1. disk'.cache # Nothing => Form(disk'.cache.key) < Form(doc')
    BY <1>1, <1>2, EntryForms DEF Frame
  <2>2. Form(visit.key) <= Form(doc')
    BY <1>1, <1>2 DEF Frame
  <2> QED
    BY <1>1, <2>1, <2>2 DEF Visited, Undecided
<1>4. CacheHeld'
  BY <1>1, <1>2, EntryForms DEF CacheHeld, RInv, Frame, Unresolved
<1>5. KidsHeld'
  BY <1>1 DEF KidsHeld
<1>6. Decided'
  BY DEF Decided, Undecided
<1>7. SplitIsComplete'
  BY <1>1 DEF SplitIsComplete
<1> QED
  BY <1>3, <1>4, <1>5, <1>6, <1>7, FrameTypes DEF RInv

\* A step that leaves no run, or one that will change nothing but the row.
LEMMA RestKept ==
    ASSUME RInv, Frame, visit' \in VisitRec, doc' = doc, kids' = kids, SplitIsComplete',
           visit'.pc \in {"idle", "return"}, visit'.note = "split" => SplitDone,
           visit'.pc = "idle" => visit'.note = "none",
           visit'.pc = "return" =>
             /\ card' = card /\ card.st \in {"DRAFT", "AWAITING_USER_REPLY"}
             /\ ~Unresolved(visit'.dst, visit'.note)
             /\ visit'.dst = "CLOSED" => disk.cache # Nothing /\ disk.cache.note = visit'.note,
           visit'.agent /\ MaxPasses > 0 => visit'.passes < MaxPasses
    PROVE  RInv'
<1>1. Visited'
  BY DEF Visited, Ahead, Undecided
<1>2. CacheHeld'
  BY DEF CacheHeld, RInv, Frame, Unresolved, SplitDone
<1>3. KidsHeld'
  BY DEF KidsHeld, SplitDone
<1>4. Decided'
  BY DEF Decided, Frame, Unresolved
<1> QED
  BY <1>1, <1>2, <1>3, <1>4, FrameTypes DEF RInv

----------------------------------------------------------------------------
(* One lemma per kind of step *)

LEMMA EnterKept == ASSUME RInv, Enter PROVE RInv'
<1>1. Frame /\ card' = card /\ doc' = doc /\ kids' = kids /\ card.st = "DRAFT" /\ SplitIsComplete'
  BY SameFrame DEF Enter, SplitIsComplete
<1>2. ASSUME NEW d \in CardStates, NEW n \in Notes, visit' = [Visit("return") EXCEPT !.dst = d, !.note = n]
      PROVE  visit' \in VisitRec /\ visit'.pc = "return" /\ visit'.dst = d /\ visit'.note = n /\ ~visit'.agent
  BY <1>2 DEF Visit, VisitRec, Steps, RInv, RTypes, CardRec, TalkRec
<1>3. CASE visit' = [Visit("return") EXCEPT !.dst = "BLOCKED", !.note = "plain"]
  <2>1. "BLOCKED" \in CardStates /\ "plain" \in Notes
    BY DEF CardStates, Notes
  <2> QED
    BY <1>1, <1>2, <1>3, <2>1, RestKept DEF Unresolved
<1>4. ASSUME NEW d \in {"DONE", "BLOCKED"}, visit' = [Visit("return") EXCEPT !.dst = d, !.note = "close"]
      PROVE  RInv'
  <2>1. d \in CardStates /\ "close" \in Notes
    BY DEF CardStates, Notes
  <2> QED
    BY <1>1, <1>2, <1>4, <2>1, RestKept DEF Unresolved
<1>5. CASE _check /\ visit' = [Visit("return") EXCEPT !.dst = disk.cache.dst, !.note = disk.cache.note]
  <2>1. disk.cache # Nothing /\ disk.cache.key = doc
    BY <1>5 DEF _check
  <2>2. disk.cache.dst \in CardStates /\ disk.cache.note \in Notes
    BY <2>1, EntryForms DEF Entries
  <2>3. ~Unresolved(disk.cache.dst, disk.cache.note) /\ (disk.cache.note = "split" => SplitDone)
    BY <2>1 DEF RInv, CacheHeld
  <2> QED
    BY <1>1, <1>2, <1>5, <2>1, <2>2, <2>3, RestKept
<1>6. CASE ~_check /\ visit' = Visit("clone")
  <2>1. /\ visit' \in VisitRec /\ visit'.pc = "clone" /\ visit'.key = doc /\ visit'.note = "none"
        /\ ~visit'.agent
    BY <1>6 DEF Visit, VisitRec, Steps, CardStates, Notes, RInv, RTypes, CardRec
  <2>2. disk.cache # Nothing => Form(disk.cache.key) < Form(doc)
    <3> SUFFICES ASSUME disk.cache # Nothing PROVE Form(disk.cache.key) < Form(doc)
      OBVIOUS
    <3>1. disk.cache.key \in Texts /\ disk.cache.key # doc /\ doc \in Texts
      BY <1>6, EntryForms DEF _check, Entries, RInv, RTypes
    <3>2. Form(disk.cache.key) # Form(doc)
      BY <3>1 DEF Texts, Form
    <3> QED
      BY <3>1, <3>2, FormNumbers DEF RInv, CacheHeld
  <2>3. Visited'
    BY <1>1, <2>1, <2>2, FormNumbers DEF Visited, Frame
  <2>4. CacheHeld' /\ KidsHeld' /\ Decided'
    BY <1>1, <2>1 DEF CacheHeld, KidsHeld, Decided, RInv, Frame, Unresolved, SplitDone
  <2> QED
    BY <1>1, <2>1, <2>3, <2>4, FrameTypes DEF RInv
<1> QED
  BY <1>3, <1>4, <1>5, <1>6 DEF Enter

\* What holds of a run that has not decided.
LEMMA Refining == ASSUME RInv, visit.pc \in Undecided \ {"idle"}
                  PROVE  visit \in VisitRec /\ visit.note = "none" /\ card.st \in {"DRAFT", "AWAITING_USER_REPLY"}
                         /\ (visit.agent /\ MaxPasses > 0 => visit.passes < MaxPasses)
  BY DEF RInv, RTypes, Visited

\* A stop with an outcome that is not a split.
LEMMA StopKept ==
    ASSUME RInv, Frame, visit.pc \in Undecided \ {"idle"}, card' = card, kids' = kids,
           NEW o \in Plain, Decide(o)
    PROVE  RInv'
<1>1. o.dst \in CardStates /\ o.note \in Notes /\ o.note # "split"
  BY DEF Plain
<1> QED
  BY <1>1, Refining, DecideKept

LEMMA CloneOrResumeKept == ASSUME RInv, CloneOrResume PROVE RInv'
<1>1. /\ Frame /\ card' = card /\ doc' = doc /\ kids' = kids /\ visit.pc = "clone"
      /\ visit.pc \in Undecided \ {"idle"}
  BY SameFrame DEF CloneOrResume, Undecided, At
<1>2. CASE StepTo("gates")
  <2>1. "gates" \in Steps /\ "gates" \in Undecided \ {"idle"}
    BY DEF Steps, Undecided
  <2> QED
    BY <1>1, <1>2, <2>1, Refining, ToLabelFields, MoveKept
<1>3. CASE visit' = [visit EXCEPT !.pc = "return", !.dst = "BLOCKED", !.note = "plain"]
  <2>1. /\ visit' \in VisitRec /\ visit'.pc = "return" /\ visit'.dst = "BLOCKED" /\ visit'.note = "plain"
        /\ visit'.agent = visit.agent /\ visit'.passes = visit.passes
    BY <1>1, <1>3, Refining DEF VisitRec, Steps, CardStates, Notes
  <2>2. SplitIsComplete'
    BY <1>1, Refining DEF SplitIsComplete
  <2> QED
    BY <1>1, <2>1, <2>2, Refining, RestKept DEF Unresolved
<1> QED
  BY <1>2, <1>3 DEF CloneOrResume

LEMMA GateKept == ASSUME RInv, Gate PROVE RInv'
<1>1. /\ Frame /\ card' = card /\ doc' = doc /\ kids' = kids /\ visit.pc = "gates"
      /\ visit.pc \in Undecided \ {"idle"}
  BY SameFrame DEF Gate, Undecided, At
<1>2. CASE \E o \in Plain : Decide(o)
  BY <1>1, <1>2, StopKept
<1>3. CASE visit' = [visit EXCEPT !.pc = "classify", !.cmts = talk.open]
  <2>1. /\ visit' \in VisitRec /\ visit'.pc = "classify" /\ visit'.note = visit.note /\ visit'.key = visit.key
        /\ visit'.agent = visit.agent /\ visit'.passes = visit.passes
    BY <1>3 DEF VisitRec, Steps, RInv, RTypes, TalkRec
  <2>2. "classify" \in Undecided \ {"idle"}
    BY DEF Undecided
  <2> QED
    BY <1>1, <2>1, <2>2, Refining, MoveKept
<1> QED
  BY <1>2, <1>3, GatedPlain DEF Gate

LEMMA ClassifyKept == ASSUME RInv, Classify PROVE RInv'
<1>1. /\ Frame /\ card' = card /\ doc' = doc /\ kids' = kids /\ visit.pc = "classify"
      /\ visit.pc \in Undecided \ {"idle"}
  BY SameFrame DEF Classify, Undecided, At
<1>2. CASE \E o \in Plain : Decide(o)
  BY <1>1, <1>2, StopKept
<1>3. CASE StepTo("advise")
  <2>1. "advise" \in Steps /\ "advise" \in Undecided \ {"idle"}
    BY DEF Steps, Undecided
  <2> QED
    BY <1>1, <1>3, <2>1, Refining, ToLabelFields, MoveKept
<1> QED
  BY <1>2, <1>3, GatedPlain, ClassifiedPlain DEF Classify

LEMMA MigrateKept == ASSUME RInv, Migrate PROVE RInv'
<1>1. /\ card' = card /\ doc' = doc /\ kids' = kids /\ disk' = disk /\ talk' = talk /\ faults' = faults
      /\ visit.pc \in Undecided \ {"idle"}
  BY DEF Migrate, Undecided, At
<1>2. hist' \in PastRec
  BY DEF Migrate, RInv, RTypes, PastRec
<1>3. Frame
  BY <1>1, <1>2, FormNumbers DEF Frame, RInv, RTypes
<1>4. Out("DRAFT", "plain") \in Plain
  BY PlainOut DEF CardStates, Notes
<1>5. \E o \in Plain : Decide(o)
  BY <1>4, TriagedPlain DEF Migrate
<1> QED
  BY <1>1, <1>3, <1>5, StopKept

LEMMA AdviseKept == ASSUME RInv, Advise PROVE RInv'
<1>1. /\ card' = card /\ kids' = kids /\ disk' = disk /\ talk' = talk /\ faults' = faults /\ hist' = hist
      /\ visit.pc = "advise" /\ visit.pc \in Undecided \ {"idle"}
  BY DEF Advise, Undecided, At
<1>2. doc' \in Advised
  BY DEF Advise
<1>3. doc' \in Texts /\ Form(doc) <= Form(doc')
  BY <1>2 DEF Advised, Texts, Form, RInv, RTypes
<1>4. Frame
  BY <1>1, <1>3 DEF Frame, RInv, RTypes
<1>5. CASE PassCap /\ visit' = [visit EXCEPT !.pc = "return", !.dst = "BLOCKED", !.note = "plain"]
  <2>1. /\ visit' \in VisitRec /\ visit'.pc = "return" /\ visit'.dst = "BLOCKED" /\ visit'.note = "plain"
        /\ visit'.agent = visit.agent /\ visit'.passes = visit.passes
    BY <1>1, <1>5, Refining DEF VisitRec, Steps, CardStates, Notes
  <2>2. /\ card.st \in {"DRAFT", "AWAITING_USER_REPLY"}
        /\ disk.cache # Nothing => Form(disk.cache.key) < Form(doc)
    BY <1>1 DEF RInv, Visited, Ahead
  <2>3. Form(doc) \in 0..3 /\ Form(doc') \in 0..3
    BY <1>3, FormNumbers DEF RInv, RTypes
  <2>4. Visited'
    BY <1>1, <2>1, <2>2, Refining DEF Visited, Ahead, Undecided
  <2>5. CacheHeld'
    BY <1>1, <1>3, <2>2, <2>3, EntryForms DEF CacheHeld, RInv, Unresolved
  <2>6. KidsHeld' /\ Decided' /\ SplitIsComplete'
    BY <1>1, <2>1, <2>2 DEF KidsHeld, Decided, SplitIsComplete, Unresolved
  <2> QED
    BY <1>4, <2>1, <2>4, <2>5, <2>6, FrameTypes DEF RInv
<1>6. CASE Decide(Out(IF RequireApproval THEN "HUMAN_ISSUE_APPROVAL" ELSE "READY", "converged"))
  <2>1. Out(IF RequireApproval THEN "HUMAN_ISSUE_APPROVAL" ELSE "READY", "converged") \in Plain
    BY PlainOut DEF CardStates, Notes
  <2> QED
    BY <1>1, <1>4, <1>6, <2>1, StopKept
<1>7. CASE ~PassCap /\ visit' = [visit EXCEPT !.pc = "agent", !.agent = TRUE, !.cmts = talk.open]
  <2>1. /\ visit' \in VisitRec /\ visit'.pc = "agent" /\ visit'.note = visit.note /\ visit'.key = visit.key
        /\ visit'.passes = visit.passes
    BY <1>7 DEF VisitRec, Steps, RInv, RTypes, TalkRec
  <2>2. "agent" \in Undecided \ {"idle"} /\ visit.passes \in Nat
    BY DEF Undecided, RInv, RTypes, VisitRec
  <2>3. MaxPasses > 0 => visit'.passes < MaxPasses
    BY <1>7, <2>1, <2>2, RefineConstants DEF PassCap
  <2> QED
    BY <1>1, <1>4, <2>1, <2>2, <2>3, MoveKept
<1> QED
  BY <1>5, <1>6, <1>7, Zenon DEF Advise

\* The ways to a description that is the specification, or the result's text.
LEMMA Settled ==
    ASSUME RInv, doc' \in {doc, "spec"}
    PROVE  doc' \in Texts /\ Form(doc) <= Form(doc')
  BY DEF Texts, Form, RInv, RTypes

LEMMA AtAgent ==
    ASSUME RInv, visit.pc = "agent", card' = card, disk' = disk, hist' = hist, talk' = talk, kids' = kids,
           faults' = faults, doc' \in {doc, "spec"}, \E o \in Plain : Decide(o)
    PROVE  RInv'
<1>1. visit.pc \in Undecided \ {"idle"}
  BY DEF Undecided
<1>2. Frame
  BY Settled DEF Frame, RInv, RTypes
<1> QED
  BY <1>1, <1>2, StopKept

LEMMA BlockedPlain == Out("BLOCKED", "plain") \in Plain
  BY PlainOut DEF CardStates, Notes

LEMMA NoAgentKept ==
    ASSUME RInv, split_child_fast_path \/ short_circuit_for_internal_failure \/ AgentBlocks
    PROVE  RInv'
<1>1. CASE split_child_fast_path
  <2>1. \E o \in Plain : Decide(o)
    BY <1>1, BlockedPlain, TriagedPlain DEF split_child_fast_path
  <2> QED
    BY <1>1, <2>1, AtAgent DEF split_child_fast_path, At
<1>2. CASE short_circuit_for_internal_failure
  <2>1. \E o \in Plain : Decide(o)
    BY <1>2, ResolvedPlain DEF short_circuit_for_internal_failure, Notes
  <2> QED
    BY <1>2, <2>1, AtAgent DEF short_circuit_for_internal_failure, At
<1>3. CASE AgentBlocks
  <2>1. \E o \in Plain : Decide(o)
    BY <1>3, BlockedPlain DEF AgentBlocks
  <2> QED
    BY <1>3, <2>1, AtAgent DEF AgentBlocks, MayCallAgent, At
<1> QED
  BY <1>1, <1>2, <1>3

\* A result to work on.
LEMMA ResultKept ==
    ASSUME RInv, Frame, card' = card, kids' = kids, doc' = doc, visit.pc = "agent",
           NEW r \in Results, r.text \in {doc, "spec"}, NEW l \in {"saved", "result"},
           visit' = [visit EXCEPT !.pc = l, !.res = r]
    PROVE  RInv'
<1>1. visit.pc \in Undecided \ {"idle"} /\ l \in Undecided \ {"idle"} /\ l \in Steps
  BY DEF Undecided, Steps
<1>2. /\ visit' \in VisitRec /\ visit'.pc = l /\ visit'.note = visit.note /\ visit'.key = visit.key
      /\ visit'.agent = visit.agent /\ visit'.passes = visit.passes /\ visit'.res = r
  BY <1>1, Refining DEF VisitRec
<1> QED
  BY <1>1, <1>2, Refining, MoveKept

LEMMA ReuseCheckpointKept == ASSUME RInv, ReuseCheckpoint PROVE RInv'
<1> DEFINE r == load_refine_checkpoint(disk.ckpt)
<1>1. disk.ckpt \in Results /\ disk.ckpt.text = "spec"
  BY DEF ReuseCheckpoint, RInv, RTypes, DiskRec
<1>2. r \in Results /\ r.text = "spec"
  BY <1>1 DEF load_refine_checkpoint, Results, Kinds
<1>3. /\ Frame /\ card' = card /\ kids' = kids /\ doc' = doc /\ visit.pc = "agent"
      /\ visit' = [visit EXCEPT !.pc = "result", !.res = r]
  BY SameFrame DEF ReuseCheckpoint, At
<1> HIDE DEF r
<1> QED
  BY <1>2, <1>3, ResultKept

LEMMA SkipImplReadyKept == ASSUME RInv, SkipImplReady PROVE RInv'
<1> DEFINE r == [kind |-> "spec", text |-> doc]
<1>1. r \in Results /\ r.text = doc
  BY DEF Results, Kinds, RInv, RTypes
<1>2. /\ Frame /\ card' = card /\ kids' = kids /\ doc' = doc /\ visit.pc = "agent"
      /\ visit' = [visit EXCEPT !.pc = "result", !.res = r]
  BY SameFrame DEF SkipImplReady, MayCallAgent, At
<1> HIDE DEF r
<1> QED
  BY <1>1, <1>2, ResultKept

LEMMA RunAgentKept == ASSUME RInv, RunAgent PROVE RInv'
<1>1. PICK r \in [kind : Kinds, text : {"spec"}] :
         disk' = [disk EXCEPT !.ckpt = r] /\ visit' = [visit EXCEPT !.pc = "saved", !.res = r]
  BY DEF RunAgent
<1>2. r \in Results /\ r.text = "spec"
  BY DEF Results, Texts
<1>3. disk' \in DiskRec /\ disk'.cache = disk.cache /\ disk'.ckpt = r
  BY <1>1, <1>2 DEF DiskRec, RInv, RTypes
<1>4. talk' \in TalkRec
  <2> DEFINE seen == talk.seen \cup visit.cmts
             asked == IF talk.asked = "answered" /\ disk.conv /\ hist.paused THEN "none" ELSE talk.asked
  <2>1. seen \in SUBSET Threads /\ asked \in {"none", "open", "answered"}
    BY DEF RInv, RTypes, TalkRec, VisitRec
  <2>2. talk' = [talk EXCEPT !.seen = seen, !.asked = asked]
    BY DEF RunAgent
  <2> HIDE DEF seen, asked
  <2> QED
    BY <2>1, <2>2 DEF RInv, RTypes, TalkRec
<1>5. /\ card' = card /\ kids' = kids /\ doc' = doc /\ hist' = hist /\ faults' = faults /\ visit.pc = "agent"
  BY DEF RunAgent, MayCallAgent, At
<1>6. Frame
  BY <1>2, <1>3, <1>4, <1>5, FormNumbers DEF Frame, RInv, RTypes
<1> QED
  BY <1>1, <1>2, <1>5, <1>6, ResultKept

LEMMA PauseKept == ASSUME RInv, Pause PROVE RInv'
<1> DEFINE o == Out("AWAITING_USER_REPLY", "question")
<1>1. o.dst \in CardStates /\ o.note \in Notes /\ o.note # "split"
  BY DEF Out, CardStates, Notes
<1>2. /\ kids' = kids /\ doc' = doc /\ faults' = faults /\ visit.pc = "saved" /\ Decide(o)
      /\ visit.pc \in Undecided \ {"idle"}
  BY DEF Pause, At, Undecided
<1>3. disk' \in DiskRec /\ disk'.cache = disk.cache /\ disk'.ckpt = disk.ckpt
  BY DEF Pause, DiskRec, RInv, RTypes
<1>4. card' \in CardRec /\ card'.branch = card.branch /\ card'.passes = card.passes /\ card'.st = "AWAITING_USER_REPLY"
  BY DEF Pause, CardRec, CardStates, RInv, RTypes
<1>5. hist' \in PastRec /\ talk' \in TalkRec
  BY DEF Pause, PastRec, TalkRec, RInv, RTypes
<1>6. Frame
  BY <1>2, <1>3, <1>4, <1>5, FormNumbers DEF Frame, RInv, RTypes
<1> HIDE DEF o
<1> QED
  BY <1>1, <1>2, <1>4, <1>6, DecideKept

LEMMA CollectedKept == ASSUME RInv, Collected PROVE RInv'
<1>1. /\ card' = card /\ kids' = kids /\ doc' = doc /\ hist' = hist /\ talk' = talk /\ faults' = faults
      /\ visit.pc = "saved" /\ visit.pc \in Undecided \ {"idle"} /\ StepTo("result")
  BY DEF Collected, At, Undecided
<1>2. disk' \in DiskRec /\ disk'.cache = disk.cache /\ disk'.ckpt = disk.ckpt
  BY DEF Collected, DiskRec, RInv, RTypes
<1>3. Frame
  BY <1>1, <1>2, FormNumbers DEF Frame, RInv, RTypes
<1>4. visit.res \in Results /\ visit.res.text \in {doc, "spec"}
  BY <1>1 DEF RInv, Visited
<1>5. "result" \in Steps /\ "result" \in Undecided \ {"idle"}
  BY DEF Steps, Undecided
<1> QED
  BY <1>1, <1>3, <1>4, <1>5, Refining, ToLabelFields, MoveKept

----------------------------------------------------------------------------
(* The result paths *)

\* A result that is decided at once.
LEMMA AtResult ==
    ASSUME RInv, visit.pc = "result", card' = card, hist' = hist, kids' = kids, faults' = faults,
           talk' \in TalkRec, disk' \in DiskRec, disk'.cache = disk.cache, disk'.ckpt = disk.ckpt,
           doc' \in {doc, "spec"}, \E o \in Plain : Decide(o)
    PROVE  RInv'
<1>1. visit.pc \in Undecided \ {"idle"}
  BY DEF Undecided
<1>2. Frame
  BY Settled DEF Frame, RInv, RTypes
<1> QED
  BY <1>1, <1>2, StopKept

LEMMA OfResult == ASSUME RInv, visit.pc = "result"
                  PROVE  visit.res \in Results /\ visit.res.text \in {doc, "spec"}
                         /\ talk \in TalkRec /\ disk \in DiskRec
  BY DEF RInv, RTypes, Visited

LEMMA Acknowledged == ASSUME RInv, ack_threads PROVE talk' \in TalkRec
<1> DEFINE o == talk.open \ visit.cmts
           a == talk.acked \cup visit.cmts
<1>1. o \in SUBSET Threads /\ a \in SUBSET Threads
  BY DEF RInv, RTypes, TalkRec, VisitRec
<1>2. talk' = [talk EXCEPT !.open = o, !.acked = a]
  BY DEF ack_threads
<1> HIDE DEF o, a
<1> QED
  BY <1>1, <1>2 DEF RInv, RTypes, TalkRec

LEMMA CheckedVerdict ==
    ASSUME RInv, NEW t \in Texts, NEW v \in {disk.verdict} \cup _run_post_refine_check(t),
           disk' = [disk EXCEPT !.verdict = v]
    PROVE  disk' \in DiskRec /\ disk'.cache = disk.cache /\ disk'.ckpt = disk.ckpt
<1>1. v \in [of : Texts, ok : BOOLEAN] \cup {Nothing}
  BY DEF _run_post_refine_check, RInv, RTypes, DiskRec
<1> QED
  BY <1>1 DEF RInv, RTypes, DiskRec

LEMMA ReconcileKept == ASSUME RInv, Reconcile PROVE RInv'
<1>1. gitignored_guard \cup spec_drift_guard \subseteq Plain
  BY PlainOut DEF gitignored_guard, spec_drift_guard, CardStates, Notes
<1> QED
  BY <1>1, OfResult, AtResult DEF Reconcile, At

LEMMA no_change_pathKept == ASSUME RInv, no_change_path PROVE RInv'
<1>1. /\ visit.pc = "result" /\ card' = card /\ hist' = hist /\ kids' = kids /\ faults' = faults
      /\ talk' = talk /\ disk' = disk
  BY DEF no_change_path, At
<1>2. CASE doc' \in {doc, "spec"} /\ \E o \in Plain : Decide(o)
  BY <1>1, <1>2, OfResult, AtResult
<1>3. CASE visit' = [visit EXCEPT !.res.kind = "empty"] /\ doc' = doc
  <2> DEFINE r == [visit.res EXCEPT !.kind = "empty"]
  <2>1. r \in Results /\ r.text \in {doc, "spec"}
    BY <1>1, OfResult DEF Results, Kinds
  <2>2. visit' = [visit EXCEPT !.res = r]
    BY <1>3
  <2> HIDE DEF r
  <2>3. visit.pc \in Undecided \ {"idle"}
    BY <1>1 DEF Undecided
  <2>4. /\ visit' \in VisitRec /\ visit'.pc = "result" /\ visit'.note = visit.note /\ visit'.key = visit.key
        /\ visit'.agent = visit.agent /\ visit'.passes = visit.passes /\ visit'.res = r
    BY <1>1, <2>1, <2>2, <2>3, Refining DEF VisitRec
  <2>5. Frame
    BY <1>1, <1>3, SameFrame
  <2> QED
    BY <1>1, <1>3, <2>1, <2>3, <2>4, <2>5, Refining, MoveKept
<1>4. Out("DONE", "close") \in Plain
  BY PlainOut DEF CardStates, Notes
<1> QED
  BY <1>2, <1>3, <1>4, BlockedPlain, ResolvedPlain DEF no_change_path, Notes

LEMMA promote_to_epic_pathKept == ASSUME RInv, promote_to_epic_path PROVE RInv'
<1>1. Out("EPIC_OPEN", "plain") \in Plain
  BY PlainOut DEF CardStates, Notes
<1> QED
  BY <1>1, OfResult, AtResult DEF promote_to_epic_path, At

LEMMA _degenerate_spec_outcomeKept == ASSUME RInv, _degenerate_spec_outcome PROVE RInv'
<1>1. talk' \in TalkRec
  BY OfResult, Acknowledged DEF _degenerate_spec_outcome, At
<1>2. \E o \in Plain : Decide(o)
  BY ResolvedPlain DEF _degenerate_spec_outcome, Notes
<1> QED
  BY <1>1, <1>2, OfResult, AtResult DEF _degenerate_spec_outcome, At

LEMMA single_scope_pathKept == ASSUME RInv, single_scope_path PROVE RInv'
<1>1. visit.pc = "result" /\ visit.res.text \in Texts
  BY OfResult DEF single_scope_path, At, Results
<1>2. PICK v \in {disk.verdict} \cup _run_post_refine_check(visit.res.text) :
         /\ disk' = [disk EXCEPT !.verdict = v]
         /\ \E o \in _resolve_next_state(visit.res.text, TRUE, v, "plain") : Decide(o)
  BY DEF single_scope_path
<1>3. disk' \in DiskRec /\ disk'.cache = disk.cache /\ disk'.ckpt = disk.ckpt
  BY <1>1, <1>2, CheckedVerdict
<1>4. \E o \in Plain : Decide(o)
  BY <1>2, ResolvedPlain DEF Notes
<1> QED
  BY <1>1, <1>3, <1>4, OfResult, Acknowledged, AtResult DEF single_scope_path

LEMMA SplitStartsKept == ASSUME RInv, SplitStarts PROVE RInv'
<1>1. /\ visit.pc = "result" /\ card' = card /\ hist' = hist /\ doc' = doc /\ faults' = faults
      /\ visit.pc \in Undecided \ {"idle"}
  BY DEF SplitStarts, At, Undecided
<1>2. CASE ack_threads /\ Decide(Out("BLOCKED", "plain")) /\ kids' = kids /\ disk' = disk
  BY <1>1, <1>2, BlockedPlain, OfResult, Acknowledged, AtResult
<1>3. CASE /\ StepTo("create") /\ talk' = talk
           /\ kids' = [made |-> 0, linked |-> FALSE, decided |-> 0]
           /\ \E v \in _run_post_refine_check(visit.res.text) : disk' = [disk EXCEPT !.verdict = v]
  <2>1. visit.res.text \in Texts
    BY <1>1, OfResult DEF Results
  <2>2. disk' \in DiskRec /\ disk'.cache = disk.cache /\ disk'.ckpt = disk.ckpt
    BY <1>3, <2>1, CheckedVerdict
  <2>3. kids' \in KidsRec /\ kids'.made < 2 /\ kids'.decided = 0
    BY <1>3 DEF KidsRec
  <2>4. Frame
    BY <1>1, <1>3, <2>2, <2>3, FormNumbers DEF Frame, RInv, RTypes
  <2>5. "create" \in Steps /\ "create" \in Undecided \ {"idle"}
    BY DEF Steps, Undecided
  <2> QED
    BY <1>1, <1>3, <2>3, <2>4, <2>5, OfResult, Refining, ToLabelFields, MoveKept
<1> QED
  BY <1>2, <1>3 DEF SplitStarts

\* The labels of a split.
LEMMA OfSplit ==
    ASSUME RInv, visit.pc \in {"create", "link", "children"}
    PROVE  /\ visit.pc \in Undecided \ {"idle"} /\ kids \in KidsRec /\ talk \in TalkRec
           /\ visit.res \in Results /\ visit.res.text \in {doc, "spec"} /\ KidsHeld
  BY DEF Undecided, RInv, RTypes, Visited

LEMMA SplitFrame ==
    ASSUME RInv, kids' \in KidsRec, talk' \in TalkRec, UNCHANGED <<card, doc, disk, hist, faults>>
    PROVE  Frame
  BY FormNumbers DEF Frame, RInv, RTypes

LEMMA CreateChildKept == ASSUME RInv, CreateChild PROVE RInv'
<1>1. visit.pc = "create"
  BY DEF CreateChild, At
<1>2. kids.made \in {0, 1} /\ kids.decided = 0
  BY <1>1, OfSplit DEF KidsHeld, KidsRec
<1>3. kids' \in KidsRec /\ kids'.made = kids.made + 1 /\ kids'.decided = 0
  <2> DEFINE m == kids.made + 1
  <2>1. m \in 0..2 /\ kids' = [kids EXCEPT !.made = m]
    BY <1>2 DEF CreateChild
  <2> HIDE DEF m
  <2>2. kids' \in KidsRec /\ kids'.made = m /\ kids'.decided = 0
    BY <1>1, <1>2, <2>1, OfSplit DEF KidsRec
  <2> QED
    BY <2>2 DEF m
<1>4. Frame
  BY <1>1, <1>3, OfSplit, SplitFrame DEF CreateChild
<1>5. CASE kids.made = 1
  <2>1. StepTo("link") /\ kids'.made = 2
    BY <1>3, <1>5 DEF CreateChild
  <2>2. "link" \in Steps /\ "link" \in Undecided \ {"idle"}
    BY DEF Steps, Undecided
  <2> QED
    BY <1>1, <1>3, <1>4, <2>1, <2>2, OfSplit, Refining, ToLabelFields, MoveKept DEF CreateChild
<1>6. CASE kids.made = 0
  <2>1. visit' = visit /\ kids'.made < 2
    BY <1>3, <1>6 DEF CreateChild
  <2> QED
    BY <1>1, <1>3, <1>4, <2>1, OfSplit, Refining, MoveKept DEF CreateChild
<1> QED
  BY <1>2, <1>5, <1>6

LEMMA LinkChildrenKept == ASSUME RInv, LinkChildren PROVE RInv'
<1>1. visit.pc = "link"
  BY DEF LinkChildren, At
<1>2. kids' \in KidsRec /\ kids'.made = 2 /\ kids'.linked
  BY <1>1, OfSplit DEF LinkChildren, KidsHeld, KidsRec
<1>3. Frame
  BY <1>1, <1>2, OfSplit, SplitFrame DEF LinkChildren
<1>4. "children" \in Steps /\ "children" \in Undecided \ {"idle"}
  BY DEF Steps, Undecided
<1> QED
  BY <1>1, <1>2, <1>3, <1>4, OfSplit, Refining, ToLabelFields, MoveKept DEF LinkChildren

LEMMA DecideChildrenKept == ASSUME RInv, DecideChildren PROVE RInv'
<1>1. visit.pc = "children"
  BY DEF DecideChildren, At
<1>2. kids.made = 2 /\ kids.linked /\ kids.decided \in 0..2
  BY <1>1, OfSplit DEF KidsHeld, KidsRec
<1>3. CASE kids.decided < 2
  <2> DEFINE n == kids.decided + 1
  <2>1. n \in 0..2 /\ kids' = [kids EXCEPT !.decided = n] /\ visit' = visit /\ talk' = talk
    BY <1>2, <1>3 DEF DecideChildren
  <2> HIDE DEF n
  <2>2. kids' \in KidsRec /\ kids'.made = 2 /\ kids'.linked
    BY <1>1, <1>2, <2>1, OfSplit DEF KidsRec
  <2>3. Frame
    BY <1>1, <2>1, <2>2, OfSplit, SplitFrame DEF DecideChildren
  <2> QED
    BY <1>1, <2>1, <2>2, <2>3, OfSplit, Refining, MoveKept DEF DecideChildren
<1>4. CASE ~(kids.decided < 2)
  <2> DEFINE o == Out("CLOSED", "split")
  <2>1. Decide(o) /\ ack_threads /\ kids' = kids
    BY <1>4 DEF DecideChildren
  <2>2. o.dst \in CardStates /\ o.note \in Notes
    BY DEF Out, CardStates, Notes
  <2>3. SplitDone
    BY <1>2, <1>4 DEF SplitDone
  <2>4. Frame
    BY <1>1, <2>1, OfSplit, Acknowledged, SplitFrame DEF DecideChildren
  <2> HIDE DEF o
  <2> QED
    BY <1>1, <2>1, <2>2, <2>3, <2>4, OfSplit, Refining, DecideKept DEF DecideChildren
<1> QED
  BY <1>3, <1>4

----------------------------------------------------------------------------
(* The end of a visit, and what happens around it *)

LEMMA Ending == ASSUME RInv, visit.pc \in {"count", "guard", "clear", "return"}
                PROVE  /\ visit \in VisitRec /\ card.st \in {"DRAFT", "AWAITING_USER_REPLY"}
                       /\ (visit.agent /\ MaxPasses > 0 => visit.passes < MaxPasses)
                       /\ (visit.pc = "count" => visit.agent)
                       /\ (visit.note = "split" => SplitDone)
  BY DEF RInv, RTypes, Visited, KidsHeld

LEMMA CountPassKept == ASSUME RInv, CountPass PROVE RInv'
<1>1. /\ visit.pc = "count" /\ StepTo("guard") /\ UNCHANGED <<doc, disk, hist, talk, kids, faults>>
      /\ "guard" \in Steps
  BY DEF CountPass, At, Steps
<1>2. /\ visit' \in VisitRec /\ visit'.pc = "guard" /\ visit'.note = visit.note /\ visit'.key = visit.key
      /\ visit'.passes = visit.passes /\ visit'.agent = visit.agent
  BY <1>1, Ending, ToLabelFields
<1>3. /\ card' \in CardRec /\ (MaxPasses > 0 => card'.passes <= MaxPasses)
      /\ card'.st = card.st /\ card'.branch = card.branch
  <2> DEFINE p == visit.passes + 1
  <2>1. p \in Nat /\ (MaxPasses > 0 => p <= MaxPasses)
    BY <1>1, Ending, RefineConstants DEF VisitRec
  <2>2. CASE card' = card
    BY <2>2 DEF RInv, RTypes
  <2>3. CASE card' = [card EXCEPT !.out = doc, !.passes = p]
    <3> HIDE DEF p
    <3> QED
      BY <2>1, <2>3 DEF RInv, RTypes, CardRec
  <2> QED
    BY <2>2, <2>3 DEF CountPass
<1>4. RTypes'
  BY <1>1, <1>2, <1>3 DEF RInv, RTypes
<1>5. Visited'
  BY <1>1, <1>2, <1>3 DEF RInv, Visited, Ahead, Undecided
<1>6. CacheHeld' /\ KidsHeld' /\ Decided' /\ SplitIsComplete'
  BY <1>1, <1>2, <1>3, Ending DEF RInv, CacheHeld, KidsHeld, Decided, SplitIsComplete, Unresolved, SplitDone
<1> QED
  BY <1>4, <1>5, <1>6 DEF RInv

LEMMA GuardKept == ASSUME RInv, _guard_implementation_done PROVE RInv'
<1> DEFINE o == Guarded(Out(visit.dst, visit.note))
           l == IF visit.agent THEN "clear" ELSE "return"
           c == [key |-> visit.key, dst |-> o.dst, note |-> o.note]
<1>1. /\ visit.pc = "guard" /\ UNCHANGED <<card, doc, hist, talk, kids, faults>>
      /\ visit' = [visit EXCEPT !.pc = l, !.dst = o.dst, !.note = o.note]
      /\ disk' = IF Cacheable(o) THEN [disk EXCEPT !.cache = c] ELSE disk
  BY DEF _guard_implementation_done, At
<1>2. /\ visit \in VisitRec /\ card.st \in {"DRAFT", "AWAITING_USER_REPLY"}
      /\ visit.key \in Texts /\ Form(visit.key) <= Form(doc)
      /\ (disk.cache # Nothing => Form(disk.cache.key) < Form(doc))
      /\ (visit.agent /\ MaxPasses > 0 => visit.passes < MaxPasses) /\ (visit.note = "split" => SplitDone)
  BY <1>1, Ending DEF RInv, Visited, Ahead
<1>3. /\ o.dst \in CardStates /\ o.note = visit.note /\ o.note \in Notes /\ ~Unresolved(o.dst, o.note)
  BY <1>2 DEF Guarded, Out, Unresolved, CardStates, VisitRec
<1>4. l \in {"clear", "return"}
  OBVIOUS
<1>5. Cacheable(o) <=> o.dst \notin {"DRAFT", "BLOCKED"}
  BY DEF Cacheable
<1>6. Cacheable(o) => c \in Entries /\ c # Nothing /\ c.key = visit.key /\ c.dst = o.dst /\ c.note = o.note
  BY <1>2, <1>3, <1>5 DEF Entries, Nothing
<1> HIDE DEF o, l
<1>7. /\ visit' \in VisitRec /\ visit'.pc = l /\ visit'.dst = o.dst /\ visit'.note = o.note
      /\ visit'.agent = visit.agent /\ visit'.passes = visit.passes
  BY <1>1, <1>2, <1>3, <1>4 DEF VisitRec, Steps
<1> HIDE DEF c
<1>8. /\ disk' \in DiskRec /\ disk'.ckpt = disk.ckpt
      /\ IF Cacheable(o) THEN disk'.cache = c ELSE disk'.cache = disk.cache
  BY <1>1, <1>6 DEF RInv, RTypes, DiskRec
<1>9. RTypes'
  BY <1>1, <1>7, <1>8 DEF RInv, RTypes
<1>10. Visited'
  BY <1>1, <1>2, <1>4, <1>7 DEF Visited, Ahead, Undecided
<1>11. CacheHeld'
  <2>1. CASE Cacheable(o)
    <3>1. disk'.cache = c /\ c.key = visit.key /\ c.dst = o.dst /\ c.note = o.note
      BY <1>6, <1>8, <2>1
    <3> QED
      BY <1>1, <1>2, <1>3, <3>1 DEF CacheHeld, Unresolved, SplitDone
  <2>2. CASE ~Cacheable(o)
    BY <1>1, <1>8, <2>2 DEF RInv, CacheHeld, Unresolved, SplitDone
  <2> QED
    BY <2>1, <2>2
<1>12. KidsHeld'
  BY <1>1, <1>2, <1>3, <1>4, <1>7 DEF KidsHeld, SplitDone
<1>13. Decided'
  <2>1. o.dst = "CLOSED" => disk'.cache # Nothing /\ disk'.cache.note = o.note
    BY <1>5, <1>6, <1>8
  <2> QED
    BY <1>1, <1>3, <1>7, <2>1 DEF Decided, Unresolved
<1>14. SplitIsComplete'
  BY <1>1, <1>2 DEF SplitIsComplete
<1> QED
  BY <1>9, <1>10, <1>11, <1>12, <1>13, <1>14 DEF RInv

LEMMA ClearKept == ASSUME RInv, clear_refine_checkpoint PROVE RInv'
<1>1. /\ visit.pc = "clear" /\ StepTo("return") /\ UNCHANGED <<card, doc, hist, talk, kids, faults>>
      /\ "return" \in Steps
  BY DEF clear_refine_checkpoint, At, Steps
<1>2. /\ visit' \in VisitRec /\ visit'.pc = "return" /\ visit'.note = visit.note /\ visit'.dst = visit.dst
      /\ visit'.passes = visit.passes /\ visit'.agent = visit.agent
  BY <1>1, Ending, ToLabelFields
<1>3. disk' \in DiskRec /\ disk'.cache = disk.cache /\ disk'.ckpt \in {disk.ckpt, Nothing}
  BY DEF clear_refine_checkpoint, RInv, RTypes, DiskRec
<1>4. Frame
  BY <1>1, <1>3, FormNumbers DEF Frame, RInv, RTypes
<1>5. ~Unresolved(visit.dst, visit.note)
      /\ (visit.dst = "CLOSED" => disk.cache # Nothing /\ disk.cache.note = visit.note)
  BY <1>1 DEF RInv, Decided
<1>6. SplitIsComplete'
  BY <1>1, Ending DEF SplitIsComplete
<1> QED
  BY <1>1, <1>2, <1>4, <1>5, <1>6, Ending, RestKept

LEMMA NoVisitTyped == NoVisit \in VisitRec /\ NoVisit.pc = "idle" /\ NoVisit.note = "none" /\ ~NoVisit.agent
  BY DEF NoVisit, VisitRec, Steps, CardStates, Notes

LEMMA ReturnOutcomeKept == ASSUME RInv, ReturnOutcome PROVE RInv'
<1>1. /\ visit.pc = "return" /\ visit' = NoVisit /\ UNCHANGED <<doc, disk, talk, kids, faults>>
      /\ card' = [card EXCEPT !.st = visit.dst]
  BY DEF ReturnOutcome, At
<1>2. card' \in CardRec /\ card'.st = visit.dst /\ card'.branch = card.branch /\ card'.passes = card.passes
  BY <1>1, Ending DEF RInv, RTypes, CardRec, VisitRec
<1>3. hist' \in PastRec
  BY DEF ReturnOutcome, RInv, RTypes, PastRec
<1>4. Frame
  BY <1>1, <1>2, <1>3, FormNumbers DEF Frame, RInv, RTypes
<1>5. SplitIsComplete'
  BY <1>1, <1>2, Ending DEF SplitIsComplete, RInv, Decided, SplitDone
<1> QED
  BY <1>1, <1>4, <1>5, NoVisitTyped, RestKept

LEMMA AbandonKept == ASSUME RInv, Abandon PROVE RInv'
<1>1. visit' = NoVisit /\ UNCHANGED <<card, doc, disk, hist, talk, kids>>
  BY DEF Abandon
<1>2. faults' \in 0..MaxFaults
  BY RefineConstants DEF Abandon, RInv, RTypes
<1>3. Frame
  BY <1>1, <1>2, FormNumbers DEF Frame, RInv, RTypes
<1>4. SplitIsComplete'
  BY <1>1 DEF SplitIsComplete, RInv
<1> QED
  BY <1>1, <1>3, <1>4, NoVisitTyped, RestKept

\* The row as people and the other passes may change it.
LEMMA RowOutside ==
    ASSUME RInv, Outside
    PROVE  /\ card' \in CardRec /\ card'.branch = card.branch /\ card'.passes = card.passes
           /\ hist' \in PastRec /\ talk' \in TalkRec /\ UNCHANGED <<doc, disk, kids, faults, visit>>
           /\ card'.st = card.st \/ (visit.pc = "idle" /\ card'.st \in {"DRAFT", "READY"})
<1>1. ASSUME ReturnsToDraft
      PROVE  card' \in CardRec /\ card'.branch = card.branch /\ card'.passes = card.passes /\ card'.st = "DRAFT"
  <2> DEFINE n == card.trips + 1
  <2>1. n \in 0..MaxTrips /\ card' = [card EXCEPT !.st = "DRAFT", !.trips = n]
    BY <1>1, RefineConstants DEF ReturnsToDraft, RInv, RTypes, CardRec
  <2> HIDE DEF n
  <2> QED
    BY <2>1 DEF RInv, RTypes, CardRec, CardStates
<1>2. ASSUME NEW c \in Threads, talk' = [talk EXCEPT !.open = @ \cup {c}] PROVE talk' \in TalkRec
  <2> DEFINE s == talk.open \cup {c}
  <2>1. s \in SUBSET Threads /\ talk' = [talk EXCEPT !.open = s]
    BY <1>2 DEF RInv, RTypes, TalkRec
  <2> HIDE DEF s
  <2> QED
    BY <2>1 DEF RInv, RTypes, TalkRec
<1>3. CASE Approve
  BY <1>3 DEF Approve, At, RInv, RTypes, CardRec, CardStates, PastRec
<1>4. CASE \E c \in Threads : SendBack(c)
  <2>1. PICK c \in Threads : SendBack(c)
    BY <1>4
  <2>2. hist' \in PastRec
    BY <2>1 DEF SendBack, RInv, RTypes, PastRec
  <2> QED
    BY <1>1, <1>2, <2>1, <2>2 DEF SendBack, At
<1>5. CASE \E c \in Threads : Comment(c)
  BY <1>2, <1>5 DEF Comment, RInv, RTypes
<1>6. CASE BackToDraft
  BY <1>1, <1>6 DEF BackToDraft, At, RInv, RTypes
<1>7. CASE Answer
  <2>1. talk' \in TalkRec
    BY <1>7 DEF Answer, RInv, RTypes, TalkRec
  <2> QED
    BY <1>1, <1>7, <2>1 DEF Answer, At, RInv, RTypes
<1>8. CASE DependenciesMet
  BY <1>8 DEF DependenciesMet, RInv, RTypes, CardRec
<1> QED
  BY <1>3, <1>4, <1>5, <1>6, <1>7, <1>8 DEF Outside

LEMMA OutsideKept == ASSUME RInv, Outside PROVE RInv'
<1>1. /\ card' \in CardRec /\ card'.branch = card.branch /\ card'.passes = card.passes
      /\ hist' \in PastRec /\ talk' \in TalkRec /\ UNCHANGED <<doc, disk, kids, faults, visit>>
      /\ card'.st = card.st \/ (visit.pc = "idle" /\ card'.st \in {"DRAFT", "READY"})
  BY RowOutside
<1>2. RTypes'
  BY <1>1 DEF RInv, RTypes
<1>3. Visited' /\ CacheHeld' /\ KidsHeld' /\ Decided'
  BY <1>1 DEF RInv, Visited, CacheHeld, KidsHeld, Decided, Unresolved, SplitDone
<1>4. SplitIsComplete'
  BY <1>1 DEF RInv, SplitIsComplete
<1> QED
  BY <1>2, <1>3, <1>4 DEF RInv

LEMMA RefineStep == ASSUME RInv, [RNext]_rvars PROVE RInv'
<1>1. CASE RStage
  BY <1>1, EnterKept, CloneOrResumeKept, GateKept, ClassifyKept, MigrateKept, AdviseKept, NoAgentKept,
     ReuseCheckpointKept, SkipImplReadyKept, RunAgentKept, PauseKept, CollectedKept, ReconcileKept,
     no_change_pathKept, promote_to_epic_pathKept, _degenerate_spec_outcomeKept, single_scope_pathKept,
     SplitStartsKept, CreateChildKept, LinkChildrenKept, DecideChildrenKept, CountPassKept, GuardKept,
     ClearKept, ReturnOutcomeKept, Zenon DEF RStage
<1>2. CASE UNCHANGED rvars
  BY <1>2 DEF rvars, RInv, RTypes, Visited, CacheHeld, KidsHeld, Decided, SplitIsComplete, Unresolved, SplitDone
<1> QED
  BY <1>1, <1>2, AbandonKept, OutsideKept DEF RNext

LEMMA RefineStart == RInit => RInv
<1> SUFFICES ASSUME RInit PROVE RInv
  OBVIOUS
<1>1. visit = NoVisit /\ disk.cache = Nothing /\ card.st = "DRAFT"
  BY DEF RInit
<1>2. card \in CardRec /\ card.passes = 0
  BY RefineConstants DEF RInit, CardRec, CardStates, Sources, Branches
<1>3. disk \in DiskRec /\ disk.ckpt = Nothing /\ hist \in PastRec /\ kids \in KidsRec /\ talk \in TalkRec
  BY DEF RInit, DiskRec, PastRec, KidsRec, TalkRec
<1>4. RTypes
  BY <1>1, <1>2, <1>3, NoVisitTyped, RefineConstants DEF RTypes, RInit, Texts
<1>5. Visited /\ CacheHeld /\ KidsHeld /\ Decided /\ SplitIsComplete
  BY <1>1, NoVisitTyped DEF Visited, CacheHeld, KidsHeld, Decided, SplitIsComplete, Ahead, Undecided
<1> QED
  BY <1>4, <1>5 DEF RInv

\* The inductive invariant of the refine stage, however its visits are cut
\* short and whatever is cached, checkpointed or commented in between.
THEOREM RefineInvariant == RSpec => []RInv
BY RefineStart, RefineStep, PTL DEF RSpec

\* For every number of passes, trips, threads and kinds of tickets, the refine
\* stage counts its passes within the cap, closes no ticket as split that
\* lacks a child, and reports none as done that has no branch and was not
\* found to be resolved.
THEOREM DecisionsAlwaysSound == RSpec => DecisionsAreSound
<1>1. RInv => RTypeOK /\ SplitIsComplete
  BY DEF RInv, RTypes, RTypeOK, CardRec, DiskRec, PastRec, TalkRec, KidsRec, VisitRec, Entries
<1>2. RInv /\ [RNext]_rvars =>
        [card.st = "DRAFT" /\ card'.st = "DONE" /\ card.branch = "none" => visit.note = "close"]_rvars
  <2> SUFFICES ASSUME RInv, RNext, card.st = "DRAFT", card'.st = "DONE", card.branch = "none"
               PROVE  visit.note = "close"
    BY DEF rvars
  <2>1. CASE ReturnOutcome
    BY <2>1 DEF ReturnOutcome, At, RInv, RTypes, CardRec, Decided, Unresolved
  <2>2. CASE Outside
    BY <2>2, RowOutside
  <2>3. CASE Pause \/ CountPass
    BY <2>3 DEF Pause, CountPass, RInv, RTypes, CardRec
  <2>4. card' = card \/ ReturnOutcome \/ Outside \/ Pause \/ CountPass
    BY Zenon DEF RNext, RStage, Enter, CloneOrResume, Gate, Classify, Migrate, Advise, split_child_fast_path,
       short_circuit_for_internal_failure, ReuseCheckpoint, SkipImplReady, AgentBlocks, RunAgent, Collected,
       Reconcile, no_change_path, promote_to_epic_path, _degenerate_spec_outcome, single_scope_path,
       SplitStarts, CreateChild, LinkChildren, DecideChildren, _guard_implementation_done,
       clear_refine_checkpoint, Abandon
  <2> QED
    BY <2>1, <2>2, <2>3, <2>4
<1> QED
  BY <1>1, <1>2, RefineInvariant, PTL DEF RSpec, DecisionsAreSound, ClosesOnlyResolved

-----------------------------------------------------------------------------
(***************************************************************************)
(* The worker on top of the service, for any tickets, paths, reasons and   *)
(* bounds: what the service promises of a row still holds when outcomes    *)
(* are applied late and abandoned threads go on, and the retry budget is   *)
(* charged only for failures.                                              *)
(*                                                                         *)
(* BudgetIsEarned is not inductive: a run clears the count of a row only   *)
(* when its own copy says there is one, and the handler writes back a      *)
(* count it read before.  The invariant therefore follows the copy: while  *)
(* a stage may still succeed, the row is never charged more than the copy  *)
(* says, and a copy that will be written back was earned.  Only the run    *)
(* itself charges the row, so no one else can come between the two.        *)
(***************************************************************************)

GoodRun(t, r) ==
  /\ r \in Run
  /\ r.pc # "idle" => r.at \in ActiveStates
  /\ r.pc \in {"fetched", "stage", "returned"} => tk[t].attempt <= r.attempt
  /\ r.pc \in {"fetched", "failed"} => r.attempt <= fails[t]
  /\ r.pc = "failed" => r.kind \in FailKinds

DInv ==
  /\ SInv
  /\ run \in [Tickets -> Run]
  /\ zombie \in [Tickets -> Thread]
  /\ fails \in [Tickets -> 0..MaxAttempt]
  /\ \A t \in Tickets :
       /\ ~Exists(t) => tk[t].attempt = 0
       /\ tk[t].attempt <= fails[t]
       /\ GoodRun(t, run[t])

\* No row is charged, and a ticket that is gone has no charge.
Uncharged ==
  \A t \in Tickets : tk'[t].attempt <= tk[t].attempt /\ (~Exists(t)' => tk'[t].attempt = 0)

-----------------------------------------------------------------------------
(* What the service does to the counts. *)

LEMMA Limits ==
  /\ MaxAttempt \in Nat /\ MaxAttempt > 0 /\ 0 \in 0..MaxAttempt
  /\ StageRetryMax \in 0..MaxAttempt /\ OutageParksMax \in 0..MaxAttempt /\ Path \subseteq State
  BY ServiceConstants, ProcessingConstants

LEMMA Stages ==
  /\ ActiveStates \subseteq State /\ None \notin Stage
  /\ \A s \in ActiveStates : STAGE_FOR_STATE[s] \in Stage
  BY DEF ActiveStates, Stage

\* The count of a row.
LEMMA Attempts == ASSUME DInv, NEW t \in Tickets
  PROVE  /\ tk[t] \in Ticket /\ tk[t].attempt \in 0..MaxAttempt /\ RowOK(tk[t])
         /\ fails[t] \in 0..MaxAttempt /\ tk[t].attempt <= fails[t]
         /\ ~Exists(t) => tk[t].attempt = 0
         /\ GoodRun(t, run[t]) /\ run[t] \in Run /\ run[t].attempt \in 0..MaxAttempt
  BY DEF DInv, SInv, Ticket, Run

\* One row is replaced by one of a ticket that exists and is not charged.
LEMMA PutUncharged ==
  ASSUME DInv, NEW t \in Tickets, NEW q, Put(t, q), q.attempt \in Nat,
         q.attempt <= tk[t].attempt, q.state \in State \/ q.attempt = 0
  PROVE  Uncharged
<1>1. tk'[t] = q /\ \A u \in Tickets : u # t => tk'[u] = tk[u]
  BY DEF Put, DInv, SInv
<1>2. \A u \in Tickets : tk[u].attempt \in 0..MaxAttempt /\ (~Exists(u) => tk[u].attempt = 0)
  BY Attempts
<1> QED BY <1>1, <1>2, Limits DEF Uncharged, Exists

LEMMA SameUncharged ==
  ASSUME DInv, UNCHANGED tk
  PROVE  Uncharged
<1>1. \A u \in Tickets : tk[u].attempt \in 0..MaxAttempt /\ (~Exists(u) => tk[u].attempt = 0)
  BY Attempts
<1> QED BY <1>1, Limits DEF Uncharged, Exists

LEMMA CloseAllAttempt ==
  ASSUME NEW r \in Ticket
  PROVE  CloseAll(r).attempt = r.attempt /\ CloseAll(r).state = r.state
  BY DEF CloseAll, Ticket

LEMMA MoveUncharged ==
  ASSUME DInv, NEW t \in Tickets, NEW dst, NEW reason \in BOOLEAN,
         NEW rest \in SUBSET Continuation, Move(t, dst, reason, rest)
  PROVE  SInv' /\ GoodStep /\ Uncharged
<1>1. SInv' /\ GoodStep
  BY MoveStep DEF DInv
<1>2. RowOK(tk[t]) /\ CanMove(tk[t], dst) /\ tk[t] \in Ticket /\ tk[t].attempt \in 0..MaxAttempt
  BY Attempts DEF Move
<1>3. dst \in State
  BY <1>2, Destinations
<1> DEFINE r == tk[t]
           b == IF ClosesThreads(r, dst) THEN CloseAll(r) ELSE r
<1>4. b.attempt = r.attempt /\ b \in Ticket
  BY <1>2, CloseAllAttempt, CloseAllFields
<1>5. Moved(r, dst, reason).attempt = r.attempt /\ Moved(r, dst, reason).state = dst
  <2> HIDE DEF r
  <2>1. \E bf, rs, pf : Moved(r, dst, reason) =
          [b EXCEPT !.state = dst, !.blocked_from = bf, !.reason = rs, !.paused_from = pf]
    BY DEF Moved
  <2> HIDE DEF b
  <2> QED BY <1>4, <2>1 DEF Ticket
<1>6. Put(t, Moved(r, dst, reason))
  BY DEF Move, Put
<1>7. Moved(r, dst, reason).attempt \in Nat /\ Moved(r, dst, reason).attempt <= tk[t].attempt
  BY <1>2, <1>5, Limits
<1> HIDE DEF r
<1>8. Uncharged
  BY <1>3, <1>5, <1>6, <1>7, PutUncharged
<1> QED BY <1>1, <1>8

\* A row that replaces tk[t] by EXCEPT without naming the count.
LEMMA EditUncharged ==
  ASSUME DInv, NEW t \in Tickets, Exists(t), NEW q, Put(t, q),
         q.attempt = tk[t].attempt, q.state = tk[t].state \/ q.state \in State
  PROVE  Uncharged
<1>1. q.attempt \in Nat /\ q.attempt <= tk[t].attempt /\ q.state \in State
  BY Attempts, Limits DEF Exists
<1> QED BY <1>1, PutUncharged

LEMMA UserUncharged ==
  ASSUME DInv, NEW t \in Tickets, UserCall(t)
  PROVE  Uncharged
<1>0. /\ tk[t] \in Ticket /\ tk[t].attempt \in 0..MaxAttempt /\ RowOK(tk[t]) /\ 0 <= tk[t].attempt
      /\ 0 \in Nat /\ pending \in SUBSET Continuation
  BY Attempts, Limits DEF DInv, SInv
<1>1. ASSUME NEW s \in InitialStates, Create(t, s) PROVE Uncharged
  <2>1. s \in State /\ [Absent EXCEPT !.state = s].attempt = 0
    BY ServiceConstants DEF State, Absent
  <2> QED BY <1>0, <1>1, <2>1, PutUncharged DEF Create
<1>2. ASSUME NEW dst \in Requests, Transition(t, dst) PROVE Uncharged
  <2>1. PICK reason \in Reasons : Move(t, dst, reason, pending)
    BY <1>2 DEF Transition
  <2>2. reason \in BOOLEAN
    BY ServiceConstants
  <2> QED BY <1>0, <2>1, <2>2, MoveUncharged
<1>3. CASE Delete(t)
  <2>1. [Absent EXCEPT !.state = "deleted"].attempt = 0
    BY DEF Absent
  <2> QED BY <1>0, <1>3, <2>1, PutUncharged DEF Delete
<1>4. CASE ResumeBlocked(t)
  <2> DEFINE q == [tk[t] EXCEPT !.state = tk[t].blocked_from, !.blocked_from = None,
                                !.reason = FALSE, !.attempt = 0, !.parked = FALSE]
  <2>1. q.attempt = 0 /\ Put(t, q)
    BY <1>0, <1>4 DEF ResumeBlocked, Ticket
  <2> HIDE DEF q
  <2> QED BY <1>0, <2>1, PutUncharged
<1>5. CASE RequestChanges(t)
  <2> DEFINE q == [tk[t] EXCEPT !.state = "draft"]
  <2>1. q.attempt = tk[t].attempt /\ q.state = "draft" /\ Put(t, q) /\ Exists(t)
    BY <1>0, <1>5 DEF RequestChanges, Ticket, Exists, State
  <2> HIDE DEF q
  <2> QED BY <2>1, EditUncharged, Names
<1>6. CASE RequestImplementationChanges(t)
  <2> DEFINE q == [tk[t] EXCEPT !.state = "ready"]
  <2>1. q.attempt = tk[t].attempt /\ q.state = "ready" /\ Put(t, q) /\ Exists(t)
    BY <1>0, <1>6 DEF RequestImplementationChanges, Ticket, Exists, State
  <2> HIDE DEF q
  <2> QED BY <2>1, EditUncharged, Names
<1>7. CASE CloseTracker(t)
  <2> DEFINE q == [tk[t] EXCEPT !.state = "closed", !.blocked_from = None,
                                !.reason = FALSE, !.paused_from = None]
  <2>1. q.attempt = tk[t].attempt /\ q.state = "closed" /\ Put(t, q) /\ Exists(t)
    BY <1>0, <1>7 DEF CloseTracker, Ticket
  <2> HIDE DEF q
  <2> QED BY <2>1, EditUncharged, Names
<1>8. CASE MarkDone(t)
  <2> DEFINE q == [CloseAll(tk[t]) EXCEPT !.state = "done"]
  <2>1. Put(t, q) /\ Exists(t)
    BY <1>8 DEF MarkDone
  <2>2. q.attempt = tk[t].attempt /\ q.state = "done"
    <3>1. CloseAll(tk[t]) \in Ticket /\ CloseAll(tk[t]).attempt = tk[t].attempt
      BY <1>0, CloseAllFields, CloseAllAttempt
    <3> QED BY <3>1 DEF Ticket
  <2> HIDE DEF q
  <2> QED BY <2>1, <2>2, EditUncharged, Names
<1>9. CASE Redraft(t)
  <2> DEFINE q == [tk[t] EXCEPT !.state = "draft", !.open = 0, !.closed = 0, !.replied = FALSE]
  <2>1. q.attempt = tk[t].attempt /\ q.state = "draft" /\ Put(t, q) /\ Exists(t)
    BY <1>0, <1>9 DEF Redraft, Ticket
  <2> HIDE DEF q
  <2> QED BY <2>1, EditUncharged, Names
<1> DEFINE answered == [tk[t] EXCEPT !.open = @ - 1, !.closed = @ + 1, !.replied = TRUE]
           closedOne == [tk[t] EXCEPT !.open = @ - 1, !.closed = @ + 1]
           reopened == [tk[t] EXCEPT !.open = @ + 1, !.closed = @ - 1]
           replied == [tk[t] EXCEPT !.replied = TRUE]
<1>10. \A q \in {answered, closedOne, reopened, replied} :
         q.attempt = tk[t].attempt /\ q.state = tk[t].state
  BY <1>0 DEF Ticket
<1> HIDE DEF answered, closedOne, reopened, replied
<1>11. CASE Reply(t)
  <2>1. Exists(t) /\ (Put(t, answered) \/ Put(t, replied))
    BY <1>11 DEF Reply, answered, replied
  <2> QED BY <1>10, <2>1, EditUncharged
<1>12. CASE CloseThread(t)
  <2>1. Exists(t) /\ (Put(t, closedOne) \/ UNCHANGED tk)
    BY <1>12 DEF CloseThread, closedOne
  <2> QED BY <1>10, <2>1, EditUncharged, SameUncharged
<1>13. CASE ReopenThread(t)
  <2>1. Exists(t) /\ Put(t, reopened)
    BY <1>13 DEF ReopenThread, reopened
  <2> QED BY <1>10, <2>1, EditUncharged
<1>14. ASSUME NEW change \in BOOLEAN, AnswerPendingQuestion(t, change) PROVE Uncharged
  <2>1. Exists(t) /\ Put(t, answered)
    BY <1>14 DEF AnswerPendingQuestion, answered
  <2> QED BY <1>10, <2>1, EditUncharged
<1> QED BY <1>1, <1>2, <1>3, <1>4, <1>5, <1>6, <1>7, <1>8, <1>9, <1>11, <1>12, <1>13, <1>14
        DEF UserCall

LEMMA ContinueUncharged ==
  ASSUME DInv, NEW c \in pending, Continue(c)
  PROVE  Uncharged
<1>0. /\ c.t \in Tickets /\ pending \in SUBSET Continuation /\ pending \ {c} \in SUBSET Continuation
      /\ c \in Continuation /\ c.dst \in State \union {None}
  BY DEF DInv, SInv, Continuation
<1>1. CASE MaybeResume(c)
  <2> DEFINE r == tk[c.t]
             q == [r EXCEPT !.state = r.paused_from, !.blocked_from = None,
                            !.reason = FALSE, !.paused_from = None]
  <2>1. CASE UNCHANGED tk
    BY <2>1, SameUncharged
  <2>2. CASE r.state = "awaiting_user_reply" /\ r.paused_from # None /\ Put(c.t, q)
    <3>1. r \in Ticket /\ r.paused_from \in State /\ Exists(c.t)
      BY <1>0, <2>2, Attempts, Names DEF Ticket, Exists
    <3>2. q.attempt = r.attempt /\ q.state \in State
      BY <3>1 DEF Ticket
    <3> QED BY <1>0, <2>2, <3>1, <3>2, EditUncharged
  <2> QED BY <1>1, <2>1, <2>2 DEF MaybeResume
<1>2. CASE Deferred(c)
  BY <1>0, <1>2, MoveUncharged, SameUncharged DEF Deferred
<1>3. CASE Reawait(c)
  <2>1. CASE UNCHANGED tk
    BY <2>1, SameUncharged
  <2>2. PICK rest \in SUBSET Continuation : \/ UNCHANGED tk
                                           \/ Move(c.t, "awaiting_user_reply", FALSE, rest)
    <3> DEFINE next == IF c.dst = None THEN Later(c.t, "resume", None)
                       ELSE Later(c.t, "transition", c.dst)
    <3>1. next \in Continuation
      BY <1>0, LaterType
    <3>2. (pending \ {c}) \union {next} \in SUBSET Continuation
      BY <1>0, <3>1
    <3> QED BY <1>3, <3>2 DEF Reawait
  <2> QED BY <1>0, <2>1, <2>2, MoveUncharged
<1>4. CASE FireUnblock(c)
  BY <1>4, SameUncharged DEF FireUnblock
<1> QED BY <1>1, <1>2, <1>3, <1>4 DEF Continue

-----------------------------------------------------------------------------
(* The calls of the worker.                                                *)

\* What every step of the worker does to the rows.
Effect == SInv' /\ GoodStep /\ Uncharged

LEMMA SameEffect == ASSUME DInv, UNCHANGED tk, pending' \subseteq Continuation PROVE Effect
  BY SameRows, SameUncharged DEF DInv, Effect

LEMMA StutterEffect == ASSUME DInv, UNCHANGED vars PROVE Effect
<1>1. UNCHANGED tk /\ pending' \subseteq Continuation
  BY DEF vars, DInv, SInv
<1> QED BY <1>1, SameEffect

LEMMA MoveOrRaiseEffect ==
  ASSUME DInv, NEW t \in Tickets, NEW dst, MoveOrRaise(t, dst)
  PROVE  Effect
<1>1. CASE UNCHANGED vars
  BY <1>1, StutterEffect
<1>2. ASSUME NEW reason \in Reasons, Move(t, dst, reason, pending) PROVE Effect
  <2>1. reason \in BOOLEAN /\ pending \in SUBSET Continuation
    BY ServiceConstants DEF DInv, SInv
  <2> QED BY <1>2, <2>1, MoveUncharged DEF Effect
<1> QED BY <1>1, <1>2 DEF MoveOrRaise

LEMMA MoveEffect ==
  ASSUME DInv, NEW t \in Tickets, NEW dst, Move(t, dst, FALSE, pending)
  PROVE  Effect
<1>1. pending \in SUBSET Continuation
  BY DEF DInv, SInv
<1> QED BY <1>1, MoveUncharged DEF Effect

LEMMA AskEffect ==
  ASSUME DInv, NEW t \in Tickets, AskUser(t)
  PROVE  Effect
<1>1. SInv' /\ GoodStep
  BY WorkerStep DEF DInv, WorkerCall
<1> DEFINE q == [tk[t] EXCEPT !.open = @ + 1]
<1>2. q.attempt = tk[t].attempt /\ q.state = tk[t].state /\ Put(t, q) /\ Exists(t)
  BY Attempts DEF AskUser, Ticket
<1> HIDE DEF q
<1> QED BY <1>1, <1>2, EditUncharged DEF Effect

\* A row whose state, origins and count are kept.
LEMMA SideEffect ==
  ASSUME DInv, NEW t \in Tickets, NEW q \in Ticket, Put(t, q), UNCHANGED pending,
         q.state = tk[t].state, q.blocked_from = tk[t].blocked_from,
         q.paused_from = tk[t].paused_from, q.open + q.closed <= MaxThreads,
         q.attempt = tk[t].attempt
  PROVE  Effect
<1>1. GoodRow(tk[t], q) /\ pending' \subseteq Continuation
  BY Attempts, SideRow DEF DInv, SInv
<1>2. SInv' /\ GoodStep
  BY <1>1, PutStep DEF DInv
<1>3. q.attempt \in Nat /\ q.attempt <= tk[t].attempt /\ (q.state \in State \/ q.attempt = 0)
  BY Attempts, Limits DEF Exists
<1> QED BY <1>2, <1>3, PutUncharged DEF Effect

LEMMA CloseAllEffect ==
  ASSUME DInv, NEW t \in Tickets, Put(t, CloseAll(tk[t])), UNCHANGED pending
  PROVE  Effect
<1> DEFINE q == CloseAll(tk[t])
<1>1. RowOK(tk[t]) /\ tk[t] \in Ticket
  BY Attempts
<1>2. q \in Ticket /\ q.state = tk[t].state /\ q.blocked_from = tk[t].blocked_from
      /\ q.paused_from = tk[t].paused_from /\ q.open = 0 /\ q.closed = tk[t].closed + tk[t].open
      /\ q.attempt = tk[t].attempt
  BY <1>1, CloseAllFields, CloseAllAttempt
<1>3. q.open + q.closed <= MaxThreads
  BY <1>1, <1>2, Counts
<1> HIDE DEF q
<1> QED BY <1>2, <1>3, SideEffect DEF q

LEMMA BackoffEffect ==
  ASSUME DInv, NEW t \in Tickets, Put(t, [tk[t] EXCEPT !.parked = FALSE]), UNCHANGED pending
  PROVE  Effect
<1> DEFINE q == [tk[t] EXCEPT !.parked = FALSE]
<1>1. RowOK(tk[t]) /\ tk[t] \in Ticket /\ tk[t].open + tk[t].closed <= MaxThreads
  BY Attempts DEF RowOK
<1>2. q \in Ticket /\ q.state = tk[t].state /\ q.blocked_from = tk[t].blocked_from
      /\ q.paused_from = tk[t].paused_from /\ q.open = tk[t].open /\ q.closed = tk[t].closed
      /\ q.attempt = tk[t].attempt
  BY <1>1 DEF Ticket
<1> HIDE DEF q
<1> QED BY <1>1, <1>2, SideEffect DEF q

\* A charge: only the row of the run gets a new count.
LEMMA RetryEffect ==
  ASSUME DInv, NEW t \in Tickets, NEW a \in 0..MaxAttempt, NEW p \in BOOLEAN, p => a > 0,
         Retry(t, a, p)
  PROVE  /\ SInv' /\ GoodStep
         /\ \A u \in Tickets : u # t => tk'[u] = tk[u]
         /\ tk'[t].attempt = IF Exists(t) THEN a ELSE 0
         /\ tk'[t].state = tk[t].state
<1>1. CASE SetRetryState(t, a, p)
  <2>1. SInv' /\ GoodStep
    BY <1>1, WorkerStep DEF DInv, WorkerCall
  <2> DEFINE q == [tk[t] EXCEPT !.attempt = a, !.parked = p]
  <2>2. q.attempt = a /\ q.state = tk[t].state /\ Put(t, q) /\ Exists(t)
    BY <1>1, Attempts DEF SetRetryState, Ticket
  <2> HIDE DEF q
  <2>3. tk'[t] = q /\ \A u \in Tickets : u # t => tk'[u] = tk[u]
    BY <2>2 DEF Put, DInv, SInv
  <2> QED BY <2>1, <2>2, <2>3
<1>2. CASE ~Exists(t) /\ UNCHANGED vars
  <2>1. UNCHANGED tk
    BY <1>2 DEF vars
  <2> QED BY <1>2, <2>1, StutterEffect, Attempts DEF Effect
<1> QED BY <1>1, <1>2 DEF Retry

-----------------------------------------------------------------------------
(* From the rows to the invariant.                                         *)

LEMMA IdleRun == Idle \in Run /\ Idle.pc = "idle" /\ Idle.attempt = 0 /\ Idle.asked = FALSE
  BY Limits DEF Idle, Run

LEMMA IdleIsGood == ASSUME NEW t \in Tickets PROVE GoodRun(t, Idle)
  BY IdleRun DEF GoodRun

\* A step that charges nothing and leaves a good copy behind.
LEMMA QuietStep ==
  ASSUME DInv, NEW t \in Tickets, Effect, NEW r, Goto(t, r), GoodRun(t, r), UNCHANGED fails,
         zombie' \in [Tickets -> Thread]
  PROVE  DInv' /\ GoodStep
<1>1. r \in Run /\ run' = [run EXCEPT ![t] = r] /\ run \in [Tickets -> Run]
  BY DEF Goto, GoodRun, DInv
<1>2. run' \in [Tickets -> Run] /\ fails' \in [Tickets -> 0..MaxAttempt] /\ SInv' /\ GoodStep
  BY <1>1 DEF DInv, Effect
<1>3. ASSUME NEW u \in Tickets
      PROVE  (~Exists(u) => tk[u].attempt = 0)' /\ (tk[u].attempt <= fails[u])' /\ GoodRun(u, run[u])'
  <2>1. GoodRun(u, run'[u])
    BY <1>1 DEF DInv
  <2>2. /\ tk'[u].attempt \in 0..MaxAttempt /\ tk'[u].attempt <= tk[u].attempt
        /\ ~Exists(u)' => tk'[u].attempt = 0
    BY <1>2 DEF SInv, Ticket, Effect, Uncharged
  <2>3. /\ tk[u].attempt \in 0..MaxAttempt /\ tk[u].attempt <= fails[u] /\ fails[u] \in 0..MaxAttempt
        /\ run'[u].attempt \in 0..MaxAttempt /\ fails'[u] = fails[u]
    BY <1>2, Attempts DEF Run
  <2>4. tk'[u].attempt <= fails'[u] /\ (tk[u].attempt <= run'[u].attempt => tk'[u].attempt <= run'[u].attempt)
    BY <2>2, <2>3, Limits
  <2>5. GoodRun(u, run[u])'
    BY <2>1, <2>3, <2>4 DEF GoodRun
  <2> QED BY <2>2, <2>4, <2>5
<1> QED BY <1>2, <1>3 DEF DInv

\* A failure is charged: at most one more than was earned before.
LEMMA ChargeStep ==
  ASSUME DInv, NEW t \in Tickets, NEW a \in 0..MaxAttempt, a > 0, a <= fails[t] + 1,
         Retry(t, a, TRUE), Failed(t), Finish(t), UNCHANGED zombie
  PROVE  DInv' /\ GoodStep
<1>1. /\ SInv' /\ GoodStep /\ \A u \in Tickets : u # t => tk'[u] = tk[u]
      /\ tk'[t].attempt = (IF Exists(t) THEN a ELSE 0) /\ tk'[t].state = tk[t].state
  BY RetryEffect
<1>2. /\ run' \in [Tickets -> Run] /\ run'[t] = Idle /\ zombie' \in [Tickets -> Thread]
      /\ \A u \in Tickets : u # t => run'[u] = run[u]
  BY IdleRun DEF Finish, Goto, DInv
<1> DEFINE n == IF fails[t] < MaxAttempt THEN fails[t] + 1 ELSE fails[t]
<1>3. n \in 0..MaxAttempt /\ fails[t] <= n /\ a <= n
  BY Attempts, Limits
<1>4. /\ fails' \in [Tickets -> 0..MaxAttempt] /\ fails'[t] = n
      /\ \A u \in Tickets : u # t => fails'[u] = fails[u]
  <2>1. fails' = [fails EXCEPT ![t] = n]
    BY DEF Failed
  <2> HIDE DEF n
  <2> QED BY <1>3, <2>1 DEF DInv
<1> HIDE DEF n
<1>5. ASSUME NEW u \in Tickets
      PROVE  (~Exists(u) => tk[u].attempt = 0)' /\ (tk[u].attempt <= fails[u])' /\ GoodRun(u, run[u])'
  <2>1. CASE u = t
    <3>1. (~Exists(u) => tk[u].attempt = 0)'
      BY <1>1, <2>1 DEF Exists
    <3>2. (tk[u].attempt <= fails[u])'
      BY <1>1, <1>3, <1>4, <2>1, Limits
    <3>3. GoodRun(u, run[u])'
      BY <1>2, <2>1, IdleRun DEF GoodRun
    <3> QED BY <3>1, <3>2, <3>3
  <2>2. CASE u # t
    <3>1. tk'[u] = tk[u] /\ fails'[u] = fails[u] /\ run'[u] = run[u]
      BY <1>1, <1>2, <1>4, <2>2
    <3> QED BY <3>1, Attempts DEF Exists, GoodRun
  <2> QED BY <2>1, <2>2
<1> QED BY <1>1, <1>2, <1>4, <1>5 DEF DInv

\* A success: the copy tells whether there is a charge to clear.
LEMMA ClearStep ==
  ASSUME DInv, NEW t \in Tickets, run[t].pc \in {"fetched", "returned"}, ClearedRetry(t),
         fails' = [fails EXCEPT ![t] = 0], NEW r \in Run, Goto(t, r),
         r.pc \in {"idle", "preflight", "apply"}, r.pc # "idle" => r.at \in ActiveStates,
         UNCHANGED zombie
  PROVE  DInv' /\ GoodStep
<1>1. tk[t].attempt \in 0..MaxAttempt /\ run[t].attempt \in 0..MaxAttempt /\ tk[t].attempt <= run[t].attempt
  BY Attempts DEF GoodRun
<1>2. /\ SInv' /\ GoodStep /\ \A u \in Tickets : u # t => tk'[u] = tk[u]
      /\ tk'[t].attempt = 0
  <2>1. CASE run[t].attempt > 0
    <3>1. Retry(t, 0, FALSE)
      BY <2>1 DEF ClearedRetry
    <3>2. SInv' /\ GoodStep /\ (\A u \in Tickets : u # t => tk'[u] = tk[u])
          /\ tk'[t].attempt = IF Exists(t) THEN 0 ELSE 0
      BY <3>1, RetryEffect, Limits
    <3> QED BY <3>2
  <2>2. CASE ~(run[t].attempt > 0)
    <3>1. UNCHANGED vars
      BY <2>2 DEF ClearedRetry
    <3>2. tk[t].attempt = 0
      BY <1>1, <2>2, Limits
    <3> QED BY <3>1, <3>2, StutterEffect DEF Effect, vars
  <2> QED BY <2>1, <2>2
<1>3. /\ run' \in [Tickets -> Run] /\ run'[t] = r /\ zombie' \in [Tickets -> Thread]
      /\ \A u \in Tickets : u # t => run'[u] = run[u]
  BY DEF Goto, DInv
<1>4. /\ fails' \in [Tickets -> 0..MaxAttempt] /\ fails'[t] = 0
      /\ \A u \in Tickets : u # t => fails'[u] = fails[u]
  BY Limits DEF DInv
<1>5. ASSUME NEW u \in Tickets
      PROVE  (~Exists(u) => tk[u].attempt = 0)' /\ (tk[u].attempt <= fails[u])' /\ GoodRun(u, run[u])'
  <2>1. CASE u = t
    <3>1. (~Exists(u) => tk[u].attempt = 0)' /\ (tk[u].attempt <= fails[u])'
      BY <1>2, <1>4, <2>1
    <3>2. GoodRun(u, run[u])'
      BY <1>3, <2>1 DEF GoodRun
    <3> QED BY <3>1, <3>2
  <2>2. CASE u # t
    <3>1. tk'[u] = tk[u] /\ fails'[u] = fails[u] /\ run'[u] = run[u]
      BY <1>2, <1>3, <1>4, <2>2
    <3> QED BY <3>1, Attempts DEF Exists, GoodRun
  <2> QED BY <2>1, <2>2
<1> QED BY <1>2, <1>3, <1>4, <1>5 DEF DInv

\* A failure that leaves the count alone.
LEMMA FailStep ==
  ASSUME DInv, NEW t \in Tickets, Effect, Failed(t), Finish(t), UNCHANGED zombie
  PROVE  DInv' /\ GoodStep
<1>1. /\ run' \in [Tickets -> Run] /\ run'[t] = Idle /\ zombie' \in [Tickets -> Thread]
      /\ \A u \in Tickets : u # t => run'[u] = run[u]
  BY IdleRun DEF Finish, Goto, DInv
<1> DEFINE n == IF fails[t] < MaxAttempt THEN fails[t] + 1 ELSE fails[t]
<1>2. n \in 0..MaxAttempt /\ fails[t] <= n
  BY Attempts, Limits
<1>3. /\ fails' \in [Tickets -> 0..MaxAttempt] /\ fails'[t] = n
      /\ \A u \in Tickets : u # t => fails'[u] = fails[u]
  <2>1. fails' = [fails EXCEPT ![t] = n]
    BY DEF Failed
  <2> HIDE DEF n
  <2> QED BY <1>2, <2>1 DEF DInv
<1> HIDE DEF n
<1>4. SInv' /\ GoodStep
  BY DEF Effect
<1>5. ASSUME NEW u \in Tickets
      PROVE  (~Exists(u) => tk[u].attempt = 0)' /\ (tk[u].attempt <= fails[u])' /\ GoodRun(u, run[u])'
  <2>1. /\ tk'[u].attempt \in 0..MaxAttempt /\ tk'[u].attempt <= tk[u].attempt
        /\ ~Exists(u)' => tk'[u].attempt = 0
    BY <1>4 DEF SInv, Ticket, Effect, Uncharged
  <2>2. /\ tk[u].attempt \in 0..MaxAttempt /\ tk[u].attempt <= fails[u] /\ fails[u] \in 0..MaxAttempt
        /\ run[u].attempt \in 0..MaxAttempt /\ GoodRun(u, run[u])
    BY Attempts
  <2>3. CASE u = t
    <3>1. tk'[u].attempt <= fails'[u]
      BY <1>2, <1>3, <2>1, <2>2, <2>3, Limits
    <3>2. GoodRun(u, run[u])'
      BY <1>1, <2>3, IdleRun DEF GoodRun
    <3> QED BY <2>1, <3>1, <3>2
  <2>4. CASE u # t
    <3>1. fails'[u] = fails[u] /\ run'[u] = run[u]
      BY <1>1, <1>3, <2>4
    <3>2. tk'[u].attempt <= fails'[u] /\ (tk[u].attempt <= run[u].attempt => tk'[u].attempt <= run[u].attempt)
      BY <2>1, <2>2, <3>1, Limits
    <3>3. GoodRun(u, run[u])'
      BY <2>2, <3>1, <3>2 DEF GoodRun
    <3> QED BY <2>1, <3>2, <3>3
  <2> QED BY <2>3, <2>4
<1> QED BY <1>1, <1>3, <1>4, <1>5 DEF DInv

-----------------------------------------------------------------------------
(* The steps of a run, one lemma for each group of actions.                *)

\* What is known of a run before its step.
LEMMA RunFields == ASSUME DInv, NEW t \in Tickets
  PROVE  /\ run[t] \in Run /\ run[t].attempt \in 0..MaxAttempt /\ run[t].at \in State \union {None}
         /\ run[t].out \in State \union {None} /\ run[t].asked \in BOOLEAN
         /\ run[t].kind \in FailKinds \union {None}
         /\ run[t].pc # "idle" => run[t].at \in ActiveStates
         /\ run[t].pc \in {"fetched", "stage", "returned"} => tk[t].attempt <= run[t].attempt
         /\ run[t].pc \in {"fetched", "failed"} => run[t].attempt <= fails[t]
         /\ run[t].pc = "failed" => run[t].kind \in FailKinds
         /\ zombie[t] \in Thread /\ tk[t].attempt \in 0..MaxAttempt /\ fails[t] \in 0..MaxAttempt
         /\ tk[t].attempt <= fails[t]
  <1>1. GoodRun(t, run[t]) /\ run[t] \in Run
    BY Attempts
  <1>2. run[t].attempt \in 0..MaxAttempt /\ run[t].at \in State \union {None}
        /\ run[t].out \in State \union {None} /\ run[t].asked \in BOOLEAN
        /\ run[t].kind \in FailKinds \union {None}
    BY <1>1, Stages DEF Run
  <1>3. zombie[t] \in Thread
    BY DEF DInv
  <1> QED BY <1>1, <1>2, <1>3, Attempts DEF GoodRun

\* The copies a run goes on with.
LEMMA NextRun ==
  ASSUME DInv, NEW t \in Tickets, run[t].pc \in {"fetched", "stage", "returned"},
         NEW o \in State
  PROVE  /\ run[t].pc = "fetched" => GoodRun(t, [run[t] EXCEPT !.pc = "stage"])
         /\ GoodRun(t, [run[t] EXCEPT !.asked = TRUE])
         /\ GoodRun(t, [run[t] EXCEPT !.pc = "preflight", !.out = o])
         /\ run[t].pc = "stage" => GoodRun(t, [run[t] EXCEPT !.pc = "returned", !.out = o])
         /\ GoodRun(t, [run[t] EXCEPT !.pc = "apply"])
         /\ GoodRun(t, [run[t] EXCEPT !.pc = "force", !.out = o])
<1>1. /\ run[t] \in Run /\ run[t].at \in ActiveStates /\ tk[t].attempt <= run[t].attempt
      /\ run[t].pc \in {"fetched", "failed"} => run[t].attempt <= fails[t]
  BY RunFields
<1> QED BY <1>1 DEF GoodRun, Run

LEMMA FailedRun ==
  ASSUME DInv, NEW t \in Tickets, run[t].pc = "stage", NEW k \in FailKinds
  PROVE  GoodRun(t, [run[t] EXCEPT !.pc = "failed", !.kind = k, !.attempt = tk[t].attempt])
<1>1. /\ run[t] \in Run /\ run[t].at \in ActiveStates
      /\ tk[t].attempt \in 0..MaxAttempt /\ tk[t].attempt <= fails[t]
  BY RunFields
<1> QED BY <1>1 DEF GoodRun, Run

LEMMA FetchStep == ASSUME DInv, NEW t \in Tickets, Fetch(t) PROVE DInv' /\ GoodStep
<1> DEFINE r == [Idle EXCEPT !.pc = "fetched", !.at = tk[t].state, !.attempt = tk[t].attempt]
<1>1. /\ r \in Run /\ r.pc = "fetched" /\ r.at = tk[t].state /\ r.attempt = tk[t].attempt
  BY RunFields DEF Fetch, Idle, Run
<1>2. GoodRun(t, r)
  <2> HIDE DEF r
  <2>1. tk[t].attempt <= tk[t].attempt
    BY RunFields, Limits
  <2> QED BY <1>1, <2>1, RunFields DEF GoodRun, Fetch
<1>3. Goto(t, r) /\ UNCHANGED fails /\ zombie' \in [Tickets -> Thread] /\ UNCHANGED tk
      /\ pending' \subseteq Continuation
  BY DEF Fetch, DInv, SInv
<1> HIDE DEF r
<1> QED BY <1>2, <1>3, SameEffect, QuietStep

LEMMA DiskParkStep == ASSUME DInv, NEW t \in Tickets, DiskPark(t) PROVE DInv' /\ GoodStep
<1> DEFINE a == AtLeast1(run[t].attempt)
<1>1. a \in 0..MaxAttempt /\ a > 0 /\ a <= fails[t] + 1
  BY RunFields, Limits DEF DiskPark, AtLeast1
<1>2. Retry(t, a, TRUE) /\ Failed(t) /\ Finish(t) /\ UNCHANGED zombie
  BY DEF DiskPark
<1> HIDE DEF a
<1> QED BY <1>1, <1>2, ChargeStep

\* A run that ends without a charge.
LEMMA FinishStep ==
  ASSUME DInv, NEW t \in Tickets, Effect, Finish(t), UNCHANGED fails, UNCHANGED zombie
  PROVE  DInv' /\ GoodStep
<1>1. Goto(t, Idle) /\ GoodRun(t, Idle) /\ zombie' \in [Tickets -> Thread]
  BY IdleIsGood DEF Finish, DInv
<1> QED BY <1>1, QuietStep

LEMMA ApplyingStep ==
  ASSUME DInv, NEW t \in Tickets, CycleCeiling(t) \/ ApplyPreflight(t) \/ ForceOutcome(t)
  PROVE  DInv' /\ GoodStep
<1>1. \E dst : MoveOrRaise(t, dst)
  BY DEF CycleCeiling, ApplyPreflight, ForceOutcome
<1>2. Effect
  BY <1>1, MoveOrRaiseEffect
<1>3. Finish(t) /\ UNCHANGED fails /\ UNCHANGED zombie
  BY DEF CycleCeiling, ApplyPreflight, ForceOutcome
<1> QED BY <1>2, <1>3, FinishStep

LEMMA StartStep == ASSUME DInv, NEW t \in Tickets, StartStage(t) PROVE DInv' /\ GoodStep
<1> DEFINE r == [run[t] EXCEPT !.pc = "stage"]
<1>1. Goto(t, r) /\ UNCHANGED fails /\ zombie' \in [Tickets -> Thread] /\ UNCHANGED tk
      /\ pending' \subseteq Continuation /\ run[t].pc = "fetched"
  BY DEF StartStage, DInv, SInv
<1>2. GoodRun(t, r)
  BY <1>1, NextRun, Names
<1> HIDE DEF r
<1> QED BY <1>1, <1>2, SameEffect, QuietStep

LEMMA AskingStep ==
  ASSUME DInv, NEW t \in Tickets, PreflightAsks(t) \/ StageAsks(t)
  PROVE  DInv' /\ GoodStep
<1> DEFINE r == [run[t] EXCEPT !.asked = TRUE]
<1>1. Goto(t, r) /\ UNCHANGED fails /\ zombie' \in [Tickets -> Thread] /\ AskUser(t)
      /\ run[t].pc \in {"fetched", "stage"}
  BY DEF PreflightAsks, StageAsks, DInv
<1>2. GoodRun(t, r)
  BY <1>1, NextRun, Names
<1> HIDE DEF r
<1> QED BY <1>1, <1>2, AskEffect, QuietStep

LEMMA PreflightStep == ASSUME DInv, NEW t \in Tickets, Preflight(t) PROVE DInv' /\ GoodStep
<1>1. CASE Finish(t) /\ UNCHANGED <<tk, pending, fails>>
  <2>1. UNCHANGED tk /\ pending' \subseteq Continuation /\ UNCHANGED fails /\ UNCHANGED zombie
    BY <1>1 DEF DInv, SInv, Preflight
  <2> QED BY <1>1, <2>1, SameEffect, FinishStep
<1>2. CASE /\ ClearedRetry(t)
           /\ fails' = [fails EXCEPT ![t] = 0]
           /\ Goto(t, [run[t] EXCEPT !.pc = "preflight", !.out = "blocked"])
  <2> DEFINE r == [run[t] EXCEPT !.pc = "preflight", !.out = "blocked"]
  <2>1. run[t].pc = "fetched" /\ UNCHANGED zombie
    BY DEF Preflight
  <2>2. r \in Run /\ r.pc = "preflight" /\ r.at \in ActiveStates
    BY <2>1, RunFields, Names DEF Run
  <2> HIDE DEF r
  <2> QED BY <1>2, <2>1, <2>2, ClearStep DEF r
<1> QED BY <1>1, <1>2 DEF Preflight

LEMMA PausingStep ==
  ASSUME DInv, NEW t \in Tickets, PreflightPauses(t) \/ StagePauses(t)
  PROVE  DInv' /\ GoodStep
<1>0. UNCHANGED fails /\ UNCHANGED zombie /\ zombie' \in [Tickets -> Thread]
  BY DEF PreflightPauses, StagePauses, DInv
<1>1. ASSUME NEW r, Move(t, "awaiting_user_reply", FALSE, pending), Goto(t, r), GoodRun(t, r)
      PROVE  DInv' /\ GoodStep
  BY <1>0, <1>1, MoveEffect, QuietStep
<1>2. CASE PreflightPauses(t)
  <2>1. CASE CanMove(tk[t], "awaiting_user_reply")
    <3>1. run[t].pc = "fetched" /\ Move(t, "awaiting_user_reply", FALSE, pending)
          /\ Goto(t, [run[t] EXCEPT !.pc = "preflight", !.out = "awaiting_user_reply"])
      BY <1>2, <2>1 DEF PreflightPauses
    <3> QED BY <1>1, <3>1, NextRun, Names
  <2>2. CASE ~CanMove(tk[t], "awaiting_user_reply")
    <3>1. Finish(t) /\ UNCHANGED vars
      BY <1>2, <2>2 DEF PreflightPauses
    <3> QED BY <1>0, <3>1, StutterEffect, FinishStep
  <2> QED BY <2>1, <2>2
<1>3. CASE StagePauses(t)
  <2>1. CASE CanMove(tk[t], "awaiting_user_reply")
    <3>1. run[t].pc = "stage" /\ Move(t, "awaiting_user_reply", FALSE, pending)
          /\ Goto(t, [run[t] EXCEPT !.pc = "returned", !.out = "awaiting_user_reply"])
      BY <1>3, <2>1 DEF StagePauses
    <3> QED BY <1>1, <3>1, NextRun, Names
  <2>2. CASE ~CanMove(tk[t], "awaiting_user_reply")
    <3>1. run[t].pc = "stage" /\ UNCHANGED vars
          /\ Goto(t, [run[t] EXCEPT !.pc = "failed", !.kind = "fatal", !.attempt = tk[t].attempt])
      BY <1>3, <2>2 DEF StagePauses
    <3>2. "fatal" \in FailKinds
      BY DEF FailKinds
    <3> QED BY <1>0, <3>1, <3>2, FailedRun, StutterEffect, QuietStep
  <2> QED BY <2>1, <2>2
<1> QED BY <1>2, <1>3

LEMMA ReturnStep ==
  ASSUME DInv, NEW t \in Tickets, NEW out \in State, StageReturns(t, out)
  PROVE  DInv' /\ GoodStep
<1> DEFINE r == [run[t] EXCEPT !.pc = "returned", !.out = out]
<1>1. Goto(t, r) /\ UNCHANGED fails /\ zombie' \in [Tickets -> Thread] /\ UNCHANGED tk
      /\ pending' \subseteq Continuation /\ run[t].pc = "stage"
  BY DEF StageReturns, DInv, SInv
<1>2. GoodRun(t, r)
  BY <1>1, NextRun
<1> HIDE DEF r
<1> QED BY <1>1, <1>2, SameEffect, QuietStep

LEMMA RaiseStep ==
  ASSUME DInv, NEW t \in Tickets, NEW kind \in FailKinds, StageFails(t, kind)
  PROVE  DInv' /\ GoodStep
<1> DEFINE r == [run[t] EXCEPT !.pc = "failed", !.kind = kind, !.attempt = tk[t].attempt]
<1>1. Goto(t, r) /\ UNCHANGED fails /\ zombie' \in [Tickets -> Thread] /\ UNCHANGED tk
      /\ pending' \subseteq Continuation /\ run[t].pc = "stage"
  BY DEF StageFails, DInv, SInv
<1>2. GoodRun(t, r)
  BY <1>1, FailedRun
<1> HIDE DEF r
<1> QED BY <1>1, <1>2, SameEffect, QuietStep

LEMMA DeadlineStep == ASSUME DInv, NEW t \in Tickets, Deadline(t) PROVE DInv' /\ GoodStep
<1>1. run[t].pc = "stage" /\ UNCHANGED fails
  BY DEF Deadline
<1>2. zombie' \in [Tickets -> Thread]
  <2>1. [stage |-> StageOf(t), asked |-> run[t].asked] \in Thread
    BY <1>1, RunFields, Stages DEF Thread, StageOf
  <2> QED BY <2>1 DEF Deadline, DInv
<1>3. ASSUME NEW dst, MoveOrRaise(t, dst), Finish(t) PROVE DInv' /\ GoodStep
  BY <1>1, <1>2, <1>3, MoveOrRaiseEffect, IdleIsGood, QuietStep DEF Finish
<1>4. CASE StageOf(t) \in {"implement", "ci_fix"}
  <2>1. /\ Goto(t, [run[t] EXCEPT !.pc = "failed", !.kind = "transient", !.attempt = tk[t].attempt])
        /\ UNCHANGED vars
    BY <1>4 DEF Deadline
  <2>2. "transient" \in FailKinds
    BY DEF FailKinds
  <2> QED BY <1>1, <1>2, <2>1, <2>2, FailedRun, StutterEffect, QuietStep
<1>5. CASE StageOf(t) = "retrospect" /\ QuestionRefuses(t, "closed")
  <2>1. /\ Put(t, CloseAll(tk[t])) /\ UNCHANGED pending
        /\ Goto(t, [run[t] EXCEPT !.pc = "force", !.out = "closed"])
    BY <1>5 DEF Deadline
  <2> QED BY <1>1, <1>2, <2>1, CloseAllEffect, NextRun, Names, QuietStep
<1>6. CASE StageOf(t) = "retrospect" /\ ~QuestionRefuses(t, "closed")
  <2>1. MoveOrRaise(t, "closed") /\ Finish(t)
    BY <1>6 DEF Deadline
  <2> QED BY <1>3, <2>1
<1>7. CASE StageOf(t) \notin {"implement", "ci_fix", "retrospect"}
  <2>1. MoveOrRaise(t, "blocked") /\ Finish(t)
    BY <1>7 DEF Deadline
  <2> QED BY <1>3, <2>1
<1> QED BY <1>4, <1>5, <1>6, <1>7

\* A step that leaves the run as it is.
LEMMA AsideStep ==
  ASSUME DInv, NEW t \in Tickets, Effect, UNCHANGED run, UNCHANGED fails,
         zombie' \in [Tickets -> Thread]
  PROVE  DInv' /\ GoodStep
<1>1. Goto(t, run[t]) /\ GoodRun(t, run[t])
  BY Attempts DEF Goto, DInv
<1> QED BY <1>1, QuietStep

LEMMA LateStep == ASSUME DInv, NEW t \in Tickets, ZombieStep(t) PROVE DInv' /\ GoodStep
<1>0. UNCHANGED run /\ UNCHANGED fails
  BY DEF ZombieStep
<1>1. zombie' \in [Tickets -> Thread]
  <2>1. NoThread \in Thread /\ [zombie[t] EXCEPT !.asked = TRUE] \in Thread
    BY RunFields DEF Thread, NoThread
  <2>2. \/ zombie' = [zombie EXCEPT ![t].asked = TRUE]
        \/ zombie' = [zombie EXCEPT ![t] = NoThread]
    BY DEF ZombieStep
  <2> QED BY <2>1, <2>2 DEF DInv
<1>2. Effect
  <2>1. AskUser(t) \/ MoveOrRaise(t, "awaiting_user_reply") \/ UNCHANGED vars
    BY DEF ZombieStep
  <2> QED BY <2>1, AskEffect, MoveOrRaiseEffect, StutterEffect
<1> QED BY <1>0, <1>1, <1>2, AsideStep

LEMMA DoneStep == ASSUME DInv, NEW t \in Tickets, StageDone(t) PROVE DInv' /\ GoodStep
<1>1. /\ run[t].pc = "returned" /\ ClearedRetry(t) /\ UNCHANGED zombie
      /\ fails' = [fails EXCEPT ![t] = 0]
      /\ Finish(t) \/ Goto(t, [run[t] EXCEPT !.pc = "apply"])
  BY DEF StageDone
<1>2. CASE Finish(t)
  BY <1>1, <1>2, IdleRun, ClearStep DEF Finish
<1>3. CASE Goto(t, [run[t] EXCEPT !.pc = "apply"])
  <2> DEFINE r == [run[t] EXCEPT !.pc = "apply"]
  <2>1. r \in Run /\ r.pc = "apply" /\ r.at \in ActiveStates
    BY <1>1, RunFields DEF Run
  <2> HIDE DEF r
  <2> QED BY <1>1, <1>3, <2>1, ClearStep DEF r
<1> QED BY <1>1, <1>2, <1>3

LEMMA OutcomeStep == ASSUME DInv, NEW t \in Tickets, ApplyOutcome(t) PROVE DInv' /\ GoodStep
<1>0. run[t].pc = "apply" /\ UNCHANGED fails /\ UNCHANGED zombie /\ zombie' \in [Tickets -> Thread]
  BY DEF ApplyOutcome, DInv
<1>1. CASE tk[t].state # run[t].out /\ QuestionRefuses(t, run[t].out)
  <2>1. /\ Put(t, CloseAll(tk[t])) /\ UNCHANGED pending
        /\ Goto(t, [run[t] EXCEPT !.pc = "force"])
    BY <1>1 DEF ApplyOutcome
  <2>2. GoodRun(t, [run[t] EXCEPT !.pc = "force"])
    BY <1>0, RunFields DEF GoodRun, Run
  <2> QED BY <1>0, <2>1, <2>2, CloseAllEffect, QuietStep
<1>2. CASE ~(tk[t].state # run[t].out /\ QuestionRefuses(t, run[t].out))
  <2>1. (UNCHANGED vars \/ MoveOrRaise(t, run[t].out)) /\ Finish(t)
    BY <1>2 DEF ApplyOutcome
  <2> QED BY <1>0, <2>1, StutterEffect, MoveOrRaiseEffect, FinishStep
<1> QED BY <1>1, <1>2

LEMMA ErrorStep == ASSUME DInv, NEW t \in Tickets, HandleStageError(t) PROVE DInv' /\ GoodStep
<1> DEFINE n == run[t].attempt
<1>0. /\ run[t].pc = "failed" /\ Failed(t) /\ Finish(t) /\ UNCHANGED zombie
      /\ n \in 0..MaxAttempt /\ n <= fails[t] /\ run[t].kind \in FailKinds
  BY RunFields DEF HandleStageError
<1>1. ASSUME NEW dst, MoveOrRaise(t, dst) PROVE DInv' /\ GoodStep
  BY <1>0, <1>1, MoveOrRaiseEffect, FailStep
<1>2. ASSUME NEW max \in 0..MaxAttempt, ~(n + 1 > max), Retry(t, n + 1, TRUE)
      PROVE  DInv' /\ GoodStep
  <2>1. n + 1 \in 0..MaxAttempt /\ n + 1 > 0 /\ n + 1 <= fails[t] + 1
    BY <1>0, <1>2, RunFields, Limits
  <2> HIDE DEF n
  <2> QED BY <1>0, <1>2, <2>1, ChargeStep
<1>3. CASE run[t].kind \in {"network", "disk"}
  <2>1. Retry(t, AtLeast1(n), TRUE)
    BY <1>3 DEF HandleStageError
  <2>2. AtLeast1(n) \in 0..MaxAttempt /\ AtLeast1(n) > 0 /\ AtLeast1(n) <= fails[t] + 1
    BY <1>0, RunFields, Limits DEF AtLeast1
  <2> HIDE DEF n
  <2> QED BY <1>0, <2>1, <2>2, ChargeStep
<1>4. CASE run[t].kind = "model"
  <2>1. IF n + 1 > OutageParksMax THEN MoveOrRaise(t, "blocked") ELSE Retry(t, n + 1, TRUE)
    BY <1>4 DEF HandleStageError
  <2> QED BY <1>1, <1>2, <2>1, Limits
<1>5. CASE run[t].kind = "transient"
  <2>1. \/ \E dst : MoveOrRaise(t, dst)
        \/ ~(n + 1 > StageRetryMax) /\ Retry(t, n + 1, TRUE)
    BY <1>5 DEF HandleStageError
  <2> QED BY <1>1, <1>2, <2>1, Limits
<1>6. CASE run[t].kind = "fatal"
  <2>1. \E dst : MoveOrRaise(t, dst)
    BY <1>6 DEF HandleStageError
  <2> QED BY <1>1, <2>1
<1> QED BY <1>0, <1>3, <1>4, <1>5, <1>6 DEF FailKinds

LEMMA ExpiryStep == ASSUME DInv, NEW t \in Tickets, BackoffExpires(t) PROVE DInv' /\ GoodStep
<1>1. /\ Put(t, [tk[t] EXCEPT !.parked = FALSE]) /\ UNCHANGED pending
      /\ UNCHANGED run /\ UNCHANGED fails /\ zombie' \in [Tickets -> Thread]
  BY DEF BackoffExpires, DInv
<1> QED BY <1>1, BackoffEffect, AsideStep

\* People, webhooks and the delayed calls of the service.
LEMMA OthersStep == ASSUME DInv, Others PROVE DInv' /\ GoodStep
<1>0. UNCHANGED run /\ UNCHANGED fails /\ zombie' \in [Tickets -> Thread]
      /\ pending \subseteq Continuation /\ SInv
  BY DEF Others, DInv, SInv
<1>1. ASSUME NEW t \in Tickets, UserCall(t) PROVE DInv' /\ GoodStep
  BY <1>0, <1>1, UserStep, UserUncharged, AsideStep DEF Effect
<1>2. ASSUME NEW c \in pending, Continue(c) PROVE DInv' /\ GoodStep
  <2>1. c.t \in Tickets
    BY <1>0 DEF Continuation
  <2> QED BY <1>0, <1>2, <2>1, ContinueStep, ContinueUncharged, AsideStep DEF Effect
<1> QED BY <1>1, <1>2 DEF Others

LEMMA WorkerSteps == ASSUME DInv, NEW t \in Tickets, Worker(t) PROVE DInv' /\ GoodStep
  BY FetchStep, DiskParkStep, ApplyingStep, StartStep, AskingStep, PreflightStep, PausingStep,
     ReturnStep, RaiseStep, DeadlineStep, LateStep, DoneStep, OutcomeStep, ErrorStep, ExpiryStep
  DEF Worker

LEMMA RestartStep == ASSUME DInv, Restart PROVE DInv' /\ GoodStep
<1>1. UNCHANGED tk /\ UNCHANGED fails /\ pending' \subseteq Continuation /\ SInv
  BY DEF Restart, DInv
<1>2. SInv' /\ GoodStep
  BY <1>1, SameRows
<1>3. /\ run' \in [Tickets -> Run] /\ zombie' \in [Tickets -> Thread]
      /\ \A t \in Tickets : run'[t] = Idle
  BY IdleRun DEF Restart, NoThread, Thread
<1>4. ASSUME NEW t \in Tickets
      PROVE  (~Exists(t) => tk[t].attempt = 0)' /\ (tk[t].attempt <= fails[t])' /\ GoodRun(t, run[t])'
  BY <1>1, <1>3, IdleRun, Attempts DEF GoodRun, Exists
<1> QED BY <1>1, <1>2, <1>3, <1>4 DEF DInv

LEMMA DriverStep == DInv /\ [PNext]_pvars => DInv' /\ [GoodStep]_pvars
<1> SUFFICES ASSUME DInv, [PNext]_pvars PROVE DInv' /\ [GoodStep]_pvars
  OBVIOUS
<1>1. CASE UNCHANGED pvars
  BY <1>1 DEF pvars, DInv, SInv, Exists, GoodRun, RowOK, Ticket
<1>2. CASE PNext
  BY <1>2, OthersStep, WorkerSteps, RestartStep DEF PNext, PStep
<1> QED BY <1>1, <1>2

LEMMA DriverInit == PInit => DInv
<1> SUFFICES ASSUME PInit PROVE DInv
  OBVIOUS
<1>1. SInv /\ \A t \in Tickets : tk[t] = Absent
  BY ServiceInit DEF PInit, Init
<1>2. /\ run \in [Tickets -> Run] /\ zombie \in [Tickets -> Thread] /\ fails \in [Tickets -> 0..MaxAttempt]
      /\ \A t \in Tickets : run[t] = Idle /\ fails[t] = 0
  BY IdleRun, Limits DEF PInit, NoThread, Thread
<1>3. Absent.attempt = 0 /\ 0 <= 0
  BY DEF Absent
<1> QED BY <1>1, <1>2, <1>3, IdleIsGood DEF DInv

-----------------------------------------------------------------------------
(* What is proved of the driven service. *)

\* Late outcomes, late threads and stale copies keep the invariant of the
\* rows and of the copies.
THEOREM DriverInvariant == PSpec => []DInv
<1>1. DInv /\ [PNext]_pvars => DInv'
  BY DriverStep
<1> QED BY <1>1, DriverInit, PTL DEF PSpec

\* Every run, thread and count of the driver stays of its type.
THEOREM DriverTypeCorrect == PSpec => []PTypeOK
<1>1. DInv => PTypeOK
  BY DEF DInv, SInv, TypeOK, PTypeOK
<1> QED BY <1>1, DriverInvariant, PTL

\* set_retry_state charges a row only for runs that failed or parked since
\* one succeeded, whatever happened to the row while the stage ran.
THEOREM BudgetAlwaysEarned == PSpec => []BudgetIsEarned
<1>1. DInv => BudgetIsEarned
  BY DEF DInv, BudgetIsEarned
<1> QED BY <1>1, DriverInvariant, PTL

\* A blocked or paused row has somewhere to go when it is resumed, also
\* when the worker and its abandoned threads move it.
THEOREM DrivenParkedCanResume == PSpec => []ParkedIsResumable
<1>1. DInv => ParkedIsResumable
  BY DEF DInv, SInv, RowOK, Origins, TypeOK, BlockedIsResumable, PausedIsResumable, ParkedIsResumable
<1> QED BY <1>1, DriverInvariant, PTL

\* No late outcome brings a finished ticket back.
THEOREM DrivenFinishedStaysFinished == PSpec => FinishedIsFinal
<1>1. DInv /\ [PNext]_pvars =>
        [\A t \in Tickets :
           tk[t].state \in Finished => tk'[t].state \in {tk[t].state, "deleted"}]_vars
  BY DriverStep DEF GoodStep, pvars, vars
<1> QED BY <1>1, DriverInvariant, PTL DEF PSpec, FinishedIsFinal

\* A paused ticket reaches implement only with every question answered,
\* even when its own stage's outcome is what moves it.
THEOREM DrivenOnlyAnsweredImplement == PSpec => ImplementsOnlyAnswered
<1>1. DInv /\ [PNext]_pvars =>
        [\A t \in Tickets :
           tk[t].state = "awaiting_user_reply" /\ tk'[t].state = "ready" => tk'[t].open = 0]_vars
  BY DriverStep DEF GoodStep, pvars, vars
<1> QED BY <1>1, DriverInvariant, PTL DEF PSpec, ImplementsOnlyAnswered
=============================================================================
