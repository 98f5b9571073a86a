---------------------------- MODULE PriorityGate ----------------------------
(***************************************************************************)
(* The admission gate of the worker (runtime/worker/_gate.py): a global    *)
(* cap of Value slots whose waiters are served best rank first, with a     *)
(* quota of slots held back for privileged callers (the classify stage).   *)
(*                                                                         *)
(* asyncio runs one callback at a time, so every stretch of code between   *)
(* two awaits is one action.  A caller is a consumer task of the worker.   *)
(* What a test hardly reaches is the window between a future changing and  *)
(* its task being resumed: a waiter may be cancelled after it was granted  *)
(* a slot, or be still in the heap when it is already cancelled.           *)
(***************************************************************************)
EXTENDS Integers, FiniteSets

CONSTANTS
  Callers,      \* the tasks that call acquire
  Value,        \* the "value" argument of PriorityGate(value, reserved)
  ReservedArg,  \* its "reserved" argument
  Ranks         \* rank tuples, in their lexicographic order (lower is better)

ASSUME GateArguments ==
  /\ IsFiniteSet(Callers)
  /\ Value \in Nat \ {0}
  /\ ReservedArg \in Nat
  /\ Ranks \subseteq Nat
  /\ Ranks # {}

VARIABLES
  value,    \* _value: the free slots
  pc,       \* what each caller is doing, its future included
  rank,     \* the rank each caller gave to acquire
  priv,     \* the callers that passed reserved_ok=True
  heap,     \* the callers with an entry in _waiters
  arrived   \* <<a, b>>: both in the heap and the seq of a below that of b

vars == <<value, pc, rank, priv, heap, arrived>>

(***************************************************************************)
(* "waiting": suspended on a pending future.  "cancelled": the future was  *)
(* cancelled, the except clause has not run.  "granted": set_result was    *)
(* called, the task has not resumed.  "revoked": granted, then the task    *)
(* was cancelled before it resumed.                                        *)
(***************************************************************************)
Phases == {"idle", "waiting", "cancelled", "granted", "revoked", "holding"}

Occupying == {"granted", "revoked", "holding"}

Occupants == {c \in Callers : pc[c] \in Occupying}

Unprivileged == {c \in Occupants : c \notin priv}

\* Mutant: the clamp compares with <= and so gives away every slot.
Reserved_Unclamped == IF ReservedArg <= Value THEN ReservedArg ELSE Value

\* The clamp in __init__: unprivileged work keeps at least one slot.
Reserved == IF ReservedArg < Value THEN ReservedArg ELSE Value - 1

\* Mutant: unprivileged callers may draw on the reserved slots.
CanAdmit_IgnoresReserve(free, c, p) == free > 0

CanAdmit(free, c, p) == free > 0 /\ (c \in p \/ free > Reserved)

Live(w) == pc[w] = "waiting"

AdmissibleWaiterExists == \E w \in heap : Live(w) /\ CanAdmit(value, w, priv)

\* Mutant: ties broken last-in first-out.
Outranks_Lifo(a, b) ==
  rank[a] < rank[b] \/ (rank[a] = rank[b] /\ <<b, a>> \in arrived)

\* The order of the heap's tuples: rank first, then seq.
Outranks(a, b) == rank[a] < rank[b] \/ (rank[a] = rank[b] /\ <<a, b>> \in arrived)

Init ==
  /\ value = Value
  /\ pc = [c \in Callers |-> "idle"]
  /\ rank = [c \in Callers |-> CHOOSE r \in Ranks : TRUE]
  /\ priv = {}
  /\ heap = {}
  /\ arrived = {}

SetPriv(c, p) == priv' = IF p THEN priv \union {c} ELSE priv \ {c}

\* Mutant: the fast path forgets to take the slot.
AcquireFast_NoDecrement(c, r, p) ==
  /\ pc[c] = "idle"
  /\ SetPriv(c, p)
  /\ rank' = [rank EXCEPT ![c] = r]
  /\ CanAdmit(value, c, priv')
  /\ ~AdmissibleWaiterExists
  /\ pc' = [pc EXCEPT ![c] = "holding"]
  /\ UNCHANGED <<value, heap, arrived>>

\* acquire, the fast path: a free slot nobody queued could take.
AcquireFast(c, r, p) ==
  /\ pc[c] = "idle"
  /\ SetPriv(c, p)
  /\ rank' = [rank EXCEPT ![c] = r]
  /\ CanAdmit(value, c, priv')
  /\ ~AdmissibleWaiterExists
  /\ value' = value - 1
  /\ pc' = [pc EXCEPT ![c] = "holding"]
  /\ UNCHANGED <<heap, arrived>>

\* acquire, the slow path: push an entry and suspend on its future.
AcquireWait(c, r, p) ==
  /\ pc[c] = "idle"
  /\ SetPriv(c, p)
  /\ rank' = [rank EXCEPT ![c] = r]
  /\ ~(CanAdmit(value, c, priv') /\ ~AdmissibleWaiterExists)
  /\ pc' = [pc EXCEPT ![c] = "waiting"]
  /\ heap' = heap \union {c}
  /\ arrived' = arrived \union (heap \X {c})
  /\ UNCHANGED value

\* The heap loses the entries of S.
DropFromHeap(S) ==
  /\ heap' = heap \ S
  /\ arrived' = arrived \intersect ((heap \ S) \X (heap \ S))

(***************************************************************************)
(* _release_slot, called by c, which gives up its slot.  The loop pops the *)
(* heap in order: cancelled entries are dropped, entries the reservation   *)
(* still holds back are put back by the finally clause, and the first      *)
(* entry that may be admitted gets the slot.  With no such entry the loop  *)
(* has popped the whole heap, so every cancelled entry is gone.            *)
(***************************************************************************)
\* Mutant: only the head of the heap is looked at, so a waiter the
\* reservation holds back hides an admissible one behind it.
ReleaseSlot_HeadOnly(c) ==
  LET free == value + 1
      idle == [pc EXCEPT ![c] = "idle"]
      live == {w \in heap : idle[w] = "waiting"}
      first == {w \in live : \A o \in live \ {w} : Outranks(w, o)}
      eligible == {w \in first : CanAdmit(free, w, priv)}
  IN \/ /\ eligible = {}
        /\ value' = free
        /\ pc' = idle
        /\ DropFromHeap({})
     \/ \E w \in eligible :
          /\ value' = free - 1
          /\ pc' = [idle EXCEPT ![w] = "granted"]
          /\ DropFromHeap({w})

ReleaseSlot(c) ==
  LET free == value + 1
      idle == [pc EXCEPT ![c] = "idle"]
      eligible == {w \in heap : idle[w] = "waiting" /\ CanAdmit(free, w, priv)}
      stale == {w \in heap : idle[w] = "cancelled"}
  IN \/ /\ eligible = {}
        /\ value' = free
        /\ pc' = idle
        /\ DropFromHeap(stale)
     \/ \E w \in eligible :
          /\ \A o \in eligible \ {w} : Outranks(w, o)
          /\ value' = free - 1
          /\ pc' = [idle EXCEPT ![w] = "granted"]
          /\ DropFromHeap({w} \union {o \in stale : Outranks(o, w)})

\* release, at the end of the "async with gate.slot(...)" block, also when
\* the task is cancelled inside it.
Release(c) ==
  /\ pc[c] = "holding"
  /\ ReleaseSlot(c)
  /\ UNCHANGED <<rank, priv>>

\* The task of a granted future resumes inside acquire and takes its slot.
Resume(c) ==
  /\ pc[c] = "granted"
  /\ pc' = [pc EXCEPT ![c] = "holding"]
  /\ UNCHANGED <<value, rank, priv, heap, arrived>>

\* Task.cancel() on a suspended task cancels its future at once ...
CancelWaiting(c) ==
  /\ pc[c] = "waiting"
  /\ pc' = [pc EXCEPT ![c] = "cancelled"]
  /\ UNCHANGED <<value, rank, priv, heap, arrived>>

\* ... and on a task whose future is already done it is remembered.
CancelGranted(c) ==
  /\ pc[c] = "granted"
  /\ pc' = [pc EXCEPT ![c] = "revoked"]
  /\ UNCHANGED <<value, rank, priv, heap, arrived>>

\* except CancelledError, the future not granted: remove the entry if the
\* release loop has not dropped it already.
AbandonWait(c) ==
  /\ pc[c] = "cancelled"
  /\ pc' = [pc EXCEPT ![c] = "idle"]
  /\ DropFromHeap({c})
  /\ UNCHANGED <<value, rank, priv>>

\* Mutant: the granted slot is dropped with the cancelled task.
PassOn_Leaks(c) ==
  /\ pc[c] = "revoked"
  /\ pc' = [pc EXCEPT ![c] = "idle"]
  /\ UNCHANGED <<value, rank, priv, heap, arrived>>

\* except CancelledError, the slot already granted: pass it on.
PassOn(c) ==
  /\ pc[c] = "revoked"
  /\ ReleaseSlot(c)
  /\ UNCHANGED <<rank, priv>>

Acquire(c) == \E r \in Ranks, p \in BOOLEAN : AcquireFast(c, r, p) \/ AcquireWait(c, r, p)

Next ==
  \E c \in Callers :
    \/ Acquire(c)
    \/ Release(c)
    \/ Resume(c)
    \/ CancelWaiting(c)
    \/ CancelGranted(c)
    \/ AbandonWait(c)
    \/ PassOn(c)

(***************************************************************************)
(* The event loop runs every scheduled task, and a holder always releases: *)
(* the stage it runs has a hard deadline (runtime/worker/processing.py).   *)
(* Nothing obliges a task to call acquire or anybody to cancel one.        *)
(***************************************************************************)
Fairness ==
  \A c \in Callers :
    WF_vars(Release(c)) /\ WF_vars(Resume(c)) /\ WF_vars(AbandonWait(c)) /\ WF_vars(PassOn(c))

Spec == Init /\ [][Next]_vars

FairSpec == Spec /\ Fairness

-----------------------------------------------------------------------------

TypeOK ==
  /\ value \in 0..Value
  /\ pc \in [Callers -> Phases]
  /\ rank \in [Callers -> Ranks]
  /\ priv \subseteq Callers
  /\ heap \subseteq Callers
  /\ arrived \subseteq Callers \X Callers

(***************************************************************************)
(* The cap is never exceeded and no slot is ever lost, whatever is         *)
(* cancelled when: the free slots and the callers that occupy one (granted *)
(* and not yet running included) always add up to the configured value.    *)
(***************************************************************************)
SlotConservation == value + Cardinality(Occupants) = Value

(***************************************************************************)
(* Unprivileged work never takes the slots held back for the classify      *)
(* stage: it occupies at most value - reserved of them.                    *)
(***************************************************************************)
ReservedKept == Cardinality(Unprivileged) <= Value - Reserved

(***************************************************************************)
(* No lost wakeup: a task suspended in acquire has its entry in the heap,  *)
(* and no slot it may take is free.  One grant per release is enough only  *)
(* because of this.                                                        *)
(***************************************************************************)
NoIdleSlot ==
  \A w \in Callers : Live(w) => w \in heap /\ ~CanAdmit(value, w, priv)

(***************************************************************************)
(* The reservation never starves the others for good: somebody waits only  *)
(* while somebody else occupies a slot.  "A reserved count >= value would  *)
(* deadlock every non-classify stage" without the clamp in __init__.       *)
(***************************************************************************)
WaitersHaveOccupant == (\E w \in Callers : Live(w)) => Occupants # {}

\* The gate's safety: no slot of PriorityGate is lost or given twice under any
\* cancellation, the reserve is kept, and nobody waits for a slot it may take.
GateIsSound ==
  TypeOK /\ SlotConservation /\ ReservedKept /\ NoIdleSlot /\ WaitersHaveOccupant

(***************************************************************************)
(* Best rank first, no barging: a step that admits c leaves behind no      *)
(* waiter that c does not outrank and that the very slot c took was open   *)
(* to (value' + 1 slots were free when it was handed out).                 *)
(***************************************************************************)
AdmitsBestRanked ==
  [][\A c \in Occupants' \ Occupants, w \in Callers :
       /\ Live(w) /\ Live(w)'
       /\ rank[w] < rank'[c] \/ (rank[w] = rank'[c] /\ (<<w, c>> \in arrived \/ c \notin heap))
       => ~(w \in priv \/ value' + 1 > Reserved)]_vars

(***************************************************************************)
(* "seq breaks ties FIFO so ... nothing starves within a rank": a          *)
(* privileged waiter of the best rank is always served or cancelled, even  *)
(* while other callers come and go for ever.                               *)
(***************************************************************************)
BestRank(c) == \A r \in Ranks : rank[c] <= r

TopRankServed ==
  \A c \in Callers : (Live(c) /\ BestRank(c) /\ c \in priv) ~> ~Live(c)

(***************************************************************************)
(* The module comment of _gate.py: "a caller only takes the fast path when *)
(* there are no waiters".                                                  *)
(***************************************************************************)
FastPathOnlyWithoutWaiters ==
  [][\A c \in Callers :
       (pc[c] = "idle" /\ pc'[c] = "holding") => \A w \in Callers : ~Live(w)]_vars

=============================================================================
