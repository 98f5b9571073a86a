---------------------------- MODULE Sandbox ----------------------------
(***************************************************************************)
(* Sandboxes: the slot pool of src/robotsix_mill/sandbox/_slots.py (a      *)
(* condition variable, a heap of waiters and a counter), its use around    *)
(* every container in sandbox/__init__.py, the attempts of                 *)
(* sandbox/_lifecycle.py, and the three reapers: at boot, periodic and     *)
(* after a stage timeout.                                                  *)
(*                                                                         *)
(* A step under the condition's lock is one action.  Time matters in two   *)
(* ways: a waiter's deadline may pass at any moment (Expire), and          *)
(* containers age in ticks, which the operation timeout and the reapers'   *)
(* thresholds are measured in.                                             *)
(***************************************************************************)
EXTENDS Naturals, Sequences, FiniteSets

CONSTANTS
    Users,          \* the threads that call sandbox.run()
    SlotCap,          \* max(1, max_global_concurrency)
    RankOf,           \* sandbox_rank of each caller, as one number
    Polled,           \* the callers that carry an abandon event
    OpTimeout,        \* sandbox_op_timeout, 0 when disabled
    CommandTimeout,   \* command_timeout
    ReapFloor,        \* the least threshold of the periodic reaper (3600 s)
    MaxAttempts,      \* max_attempts of _run_impl (3)
    MaxAge            \* bound: ages are not told apart beyond it

ASSUME SandboxAssumption ==
    /\ IsFiniteSet(Users)
    /\ SlotCap \in Nat \ {0}
    /\ RankOf \in [Users -> Nat]
    /\ Polled \subseteq Users
    /\ MaxAttempts \in Nat \ {0}
    /\ OpTimeout \in Nat /\ CommandTimeout \in Nat \ {0}
    /\ ReapFloor \in Nat /\ MaxAge \in Nat
    /\ MaxAge > 2 * CommandTimeout /\ MaxAge > 2 * OpTimeout /\ MaxAge > ReapFloor

VARIABLES
    spc,         \* where a caller is in sandbox.run()
    waiters,       \* _waiting, in order of arrival
    inUse,       \* _in_use
    expired,     \* callers whose slot deadline has passed
    abandoned,   \* callers whose abandon event is set
    attempt,     \* the attempt a caller is in
    box,         \* the age of the container a call has started
    orphans,     \* the ages of the containers no call waits for
    booted,      \* the start-up reap is over
    pruning      \* prune_package_cache has seen no container

svars == <<spc, waiters, inUse, expired, abandoned, attempt, box, orphans,
           booted, pruning>>

NoBox == MaxAge + 1

Holding == {"granted", "running", "cleaning", "retrying"}
Holders == {c \in Users : spc[c] \in Holding}

STypeOK ==
    /\ spc \in [Users -> {"out", "asleep", "woken"} \cup Holding]
    /\ waiters \in Seq(Users)
    /\ inUse \in 0..SlotCap
    /\ expired \subseteq Users /\ abandoned \subseteq Polled
    /\ attempt \in [Users -> 0..MaxAttempts]
    /\ box \in [Users -> 0..NoBox]
    /\ orphans \subseteq 0..MaxAge
    /\ booted \in BOOLEAN /\ pruning \in BOOLEAN

Pool == INSTANCE SlotPool WITH Callers <- Users, pqueue <- waiters, pholders <- Holders

SInit ==
    /\ spc = [c \in Users |-> "out"]
    /\ waiters = <<>>
    /\ inUse = 0
    /\ expired = {} /\ abandoned = {}
    /\ attempt = [c \in Users |-> 0]
    /\ box = [c \in Users |-> NoBox]
    /\ orphans = {}
    /\ booted = FALSE
    /\ pruning = FALSE

-----------------------------------------------------------------------------
(* The slot pool.                                                          *)

(* _cv.notify_all(): every thread in wait() will look again.               *)
NotifyAll(pcs) == [c \in Users |-> IF pcs[c] = "asleep" THEN "woken" ELSE pcs[c]]

(* The loop's first test: a free slot, and this entry at the top of the    *)
(* heap of (rank, sequence number).                                        *)
(* Mutant: a newcomer takes a free slot past the waiters. *)
MayTake_Barges(c, q) == inUse < SlotCap

MayTake(c, q) == inUse < SlotCap /\ Pool!IsBest(c, q)

(* The caller has a reason to stop waiting.                                *)
GivesUp(c) == c \in expired \/ c \in abandoned

(* What acquire does when the slot is granted.                             *)
(* Mutant: the new head of the heap is not told. *)
Granted_Silent(c, q, pcs) ==
    /\ waiters' = Pool!Without(q, c)
    /\ inUse' = inUse + 1
    /\ spc' = [pcs EXCEPT ![c] = "granted"]
    /\ UNCHANGED <<expired, abandoned>>

Granted(c, q, pcs) ==
    /\ waiters' = Pool!Without(q, c)
    /\ inUse' = inUse + 1
    /\ spc' = [NotifyAll(pcs) EXCEPT ![c] = "granted"]
    /\ UNCHANGED <<expired, abandoned>>

(* A caller that comes back has a fresh deadline and a fresh event.        *)
Afresh(c) == expired' = expired \ {c} /\ abandoned' = abandoned \ {c}

(* _drop: the waiter leaves; acquire returns False, _sandbox_slot raises.  *)
Drop(c, q, pcs) ==
    /\ waiters' = Pool!Without(q, c)
    /\ spc' = [NotifyAll(pcs) EXCEPT ![c] = "out"]
    /\ Afresh(c)
    /\ UNCHANGED inUse

Sleep(c, q, pcs) ==
    /\ waiters' = q
    /\ spc' = [pcs EXCEPT ![c] = "asleep"]
    /\ UNCHANGED <<inUse, expired, abandoned>>

(* One turn of the loop: a grant is looked for before the deadline.        *)
Evaluate(c, q, pcs) ==
    \/ MayTake(c, q) /\ Granted(c, q, pcs)
    \/ ~MayTake(c, q) /\ GivesUp(c) /\ Drop(c, q, pcs)
    \/ ~MayTake(c, q) /\ ~GivesUp(c) /\ Sleep(c, q, pcs)

(* acquire: push the entry, tell the others, and take the first turn.      *)
SlotAcquire(c) ==
    /\ booted /\ spc[c] = "out"
    /\ Evaluate(c, Append(waiters, c), NotifyAll(spc))
    /\ UNCHANGED <<attempt, box, orphans, booted, pruning>>

(* wait() has returned and the thread has the lock again.                  *)
LooksAgain(c) ==
    /\ spc[c] = "woken"
    /\ Evaluate(c, waiters, spc)
    /\ UNCHANGED <<attempt, box, orphans, booted, pruning>>

(* The deadline of a waiter passes; its wait() times out.                  *)
Expire(c) ==
    /\ spc[c] \in {"asleep", "woken"} /\ c \notin expired
    /\ expired' = expired \cup {c}
    /\ spc' = [spc EXCEPT ![c] = "woken"]
    /\ UNCHANGED <<waiters, inUse, abandoned, attempt, box, orphans, booted, pruning>>

(* The run that owns a call is abandoned; the call's thread goes on.       *)
Abandon(c) ==
    /\ c \in Polled \ abandoned
    /\ abandoned' = abandoned \cup {c}
    /\ UNCHANGED <<spc, waiters, inUse, expired, attempt, box, orphans, booted, pruning>>

(* A waiter with an abandon event wakes up every half second.              *)
(* Mutant: the wait lasts until the deadline. *)
Poll_Never(c) == FALSE

Poll(c) ==
    /\ c \in abandoned /\ spc[c] = "asleep"
    /\ spc' = [spc EXCEPT ![c] = "woken"]
    /\ UNCHANGED <<waiters, inUse, expired, abandoned, attempt, box, orphans, booted, pruning>>

(* release(), on every way out of the with block.                          *)
(* Mutant: a slot given back after a failed clean-up is not counted. *)
SlotRelease_Leaks(c) ==
    /\ inUse' = IF spc[c] = "cleaning" THEN inUse ELSE inUse - 1
    /\ spc' = [NotifyAll(spc) EXCEPT ![c] = "out"]
    /\ Afresh(c)
    /\ attempt' = [attempt EXCEPT ![c] = 0]

SlotRelease(c) ==
    /\ inUse' = inUse - 1
    /\ spc' = [NotifyAll(spc) EXCEPT ![c] = "out"]
    /\ Afresh(c)
    /\ attempt' = [attempt EXCEPT ![c] = 0]

-----------------------------------------------------------------------------
(* The call that holds the slot.                                           *)

(* _sandbox_slot looks at the event once more before the block is entered. *)
GiveBack(c) ==
    /\ spc[c] = "granted" /\ c \in abandoned
    /\ SlotRelease(c)
    /\ UNCHANGED <<waiters, box, orphans, booted, pruning>>

(* docker run: the container of the next attempt starts.                   *)
Spawn(c) ==
    /\ \/ spc[c] = "granted" /\ c \notin abandoned
       \/ spc[c] = "retrying"
    /\ spc' = [spc EXCEPT ![c] = "running"]
    /\ attempt' = [attempt EXCEPT ![c] = @ + 1]
    /\ box' = [box EXCEPT ![c] = 0]
    /\ UNCHANGED <<waiters, inUse, expired, abandoned, orphans, booted, pruning>>

(* docker cannot be started, or refuses the container (a name in use, a    *)
(* missing image): SandboxError.                                           *)
SpawnFails(c) ==
    /\ \/ spc[c] = "granted" /\ c \notin abandoned
       \/ spc[c] = "retrying"
    /\ SlotRelease(c)
    /\ UNCHANGED <<waiters, box, orphans, booted, pruning>>

(* The command ended, by itself or killed for its memory; --rm removes it. *)
CommandEnds(c) ==
    /\ spc[c] = "running"
    /\ box' = [box EXCEPT ![c] = NoBox]
    /\ SlotRelease(c)
    /\ UNCHANGED <<waiters, orphans, booted, pruning>>

(* The daemon lost the connection, or the container, before the last       *)
(* attempt: the container is removed by name and the call tries again.     *)
(* Mutant: the last attempt is tried again too. *)
Disconnected_Unbounded(c) ==
    /\ spc[c] = "running" /\ attempt[c] <= MaxAttempts
    /\ spc' = [spc EXCEPT ![c] = "retrying"]
    /\ box' = [box EXCEPT ![c] = NoBox]
    /\ UNCHANGED <<waiters, inUse, expired, abandoned, attempt, orphans, booted, pruning>>

Disconnected(c) ==
    /\ spc[c] = "running" /\ attempt[c] < MaxAttempts
    /\ spc' = [spc EXCEPT ![c] = "retrying"]
    /\ box' = [box EXCEPT ![c] = NoBox]
    /\ UNCHANGED <<waiters, inUse, expired, abandoned, attempt, orphans, booted, pruning>>

(* Exit code 125 otherwise: SandboxError.  The container of a lost         *)
(* connection may be alive, and nobody removes it.                         *)
DockerFails(c) ==
    /\ spc[c] = "running"
    /\ \E left \in {{}, {box[c]} \ {NoBox}} : orphans' = orphans \cup left
    /\ box' = [box EXCEPT ![c] = NoBox]
    /\ SlotRelease(c)
    /\ UNCHANGED <<waiters, booted, pruning>>

(* The timeout of one operation.                                           *)
EffectiveTimeout == IF OpTimeout > 0 THEN OpTimeout ELSE CommandTimeout

TimesOut(c) ==
    /\ spc[c] = "running" /\ box[c] >= EffectiveTimeout
    /\ spc' = [spc EXCEPT ![c] = "cleaning"]
    /\ UNCHANGED <<waiters, inUse, expired, abandoned, attempt, box, orphans, booted, pruning>>

(* docker rm -f, whose result nobody looks at.                             *)
CleanUp(c) ==
    /\ spc[c] = "cleaning"
    /\ \E left \in {{}, {box[c]} \ {NoBox}} : orphans' = orphans \cup left
    /\ box' = [box EXCEPT ![c] = NoBox]
    /\ SlotRelease(c)
    /\ UNCHANGED <<waiters, booted, pruning>>

-----------------------------------------------------------------------------
(* Time, restarts and the reapers.                                         *)

Older(age) == IF age < MaxAge THEN age + 1 ELSE age

(* A running command is not older than its timeout: subprocess.run raises. *)
Tick ==
    /\ \A c \in Users : spc[c] = "running" => box[c] < EffectiveTimeout
    /\ \E c \in Users : box[c] < MaxAge \/ orphans \ {MaxAge} # {}
    /\ box' = [c \in Users |-> IF box[c] = NoBox THEN NoBox ELSE Older(box[c])]
    /\ orphans' = {Older(a) : a \in orphans}
    /\ UNCHANGED <<spc, waiters, inUse, expired, abandoned, attempt, booted, pruning>>

(* The process dies.  Its containers do not.                               *)
Restart ==
    /\ spc' = [c \in Users |-> "out"]
    /\ waiters' = <<>> /\ inUse' = 0
    /\ expired' = {} /\ abandoned' = {}
    /\ attempt' = [c \in Users |-> 0]
    /\ orphans' = orphans \cup {box[c] : c \in {d \in Users : box[d] # NoBox}}
    /\ box' = [c \in Users |-> NoBox]
    /\ booted' = FALSE /\ pruning' = FALSE

(* reap_orphan_sandboxes without an age, from the start-up code: each      *)
(* removal may fail, and then it is over.                                  *)
BootReap ==
    /\ ~booted
    /\ \E left \in SUBSET orphans : orphans' = left
    /\ booted' = TRUE
    /\ UNCHANGED <<spc, waiters, inUse, expired, abandoned, attempt, box, pruning>>

(* reap_orphan_sandboxes with an age: one container that exceeds it.  The  *)
(* container may belong to a call.                                         *)
ReapOlder(threshold) ==
    \/ \E a \in orphans :
          /\ a > threshold
          /\ orphans' = orphans \ {a}
          /\ UNCHANGED <<spc, box, waiters, inUse, expired, abandoned, attempt, booted, pruning>>
    \/ \E c \in Users :
          /\ box[c] # NoBox /\ box[c] > threshold
          /\ box' = [box EXCEPT ![c] = NoBox]
          /\ UNCHANGED <<spc, orphans, waiters, inUse, expired, abandoned, attempt, booted, pruning>>

(* The periodic reaper: twice command_timeout, and an hour at least.       *)
ReapAge == IF 2 * CommandTimeout > ReapFloor THEN 2 * CommandTimeout ELSE ReapFloor

PeriodicReap == booted /\ ReapOlder(ReapAge)

(* The error handler of a stage that timed out: twice sandbox_op_timeout.  *)
(* Mutant: no margin, and an age equal to the timeout counts. *)
TimeoutReap_NoMargin == booted /\ OpTimeout > 0 /\ ReapOlder(OpTimeout - 1)

TimeoutReap == booted /\ ReapOlder(2 * OpTimeout)

(* prune_package_cache: no container is listed ...                         *)
PruneLooks ==
    /\ booted /\ ~pruning
    /\ orphans = {} /\ \A c \in Users : box[c] = NoBox
    /\ pruning' = TRUE
    /\ UNCHANGED <<spc, waiters, inUse, expired, abandoned, attempt, box, orphans, booted>>

(* ... and the cache is deleted.                                           *)
PruneDeletes ==
    /\ pruning
    /\ pruning' = FALSE
    /\ UNCHANGED <<spc, waiters, inUse, expired, abandoned, attempt, box, orphans, booted>>

CallStep(c) ==
    \/ SlotAcquire(c) \/ LooksAgain(c) \/ Expire(c) \/ Abandon(c) \/ Poll(c)
    \/ GiveBack(c) \/ Spawn(c) \/ SpawnFails(c) \/ CommandEnds(c) \/ Disconnected(c)
    \/ DockerFails(c) \/ TimesOut(c) \/ CleanUp(c)

SNext ==
    \/ \E c \in Users : CallStep(c)
    \/ Tick \/ Restart \/ BootReap \/ PeriodicReap \/ TimeoutReap
    \/ PruneLooks \/ PruneDeletes

(* A thread that was notified gets the lock, and wait() with a timeout     *)
(* returns.                                                                *)
SSpec ==
    /\ SInit /\ [][SNext]_svars
    /\ \A c \in Users : WF_svars(LooksAgain(c)) /\ WF_svars(Poll(c))

-----------------------------------------------------------------------------
(* The counter is the number of calls inside the with block, on every way  *)
(* out of it: a grant that came with the deadline or with the abandonment, *)
(* a failed docker, a timeout, a failed clean-up.                          *)
SlotsMatchHolders == inUse = Cardinality(Holders)

(* No lost wakeup: while a slot is free the waiter it belongs to is awake. *)
(* A caller without an abandon event sleeps until it is notified.          *)
FreeSlotIsSeen ==
    inUse < SlotCap => \A c \in Users : Pool!IsBest(c, waiters) => spc[c] = "woken"

(* The pool with its lock, condition and counter is the abstract pool:     *)
(* nobody takes a slot past a better waiter, and a free slot is taken.     *)
IsSlotPool == Pool!PSpec

(* The reapers take containers for orphans by their age: the container of  *)
(* a command still within its timeout is never removed.                    *)
RunKeepsItsContainer == \A c \in Users : spc[c] = "running" => box[c] # NoBox

(* The sandbox's safety: the slot counter matches the holders, a free slot *)
(* is seen by a waiter, and no reaper takes the container of a live run.   *)
SandboxIsSound == STypeOK /\ SlotsMatchHolders /\ FreeSlotIsSeen /\ RunKeepsItsContainer

(* A waiter whose run was abandoned leaves the queue.                      *)
AbandonedLeaves ==
    \A c \in Users :
        (c \in abandoned /\ spc[c] \in {"asleep", "woken"})
            ~> (spc[c] \notin {"asleep", "woken"})

(* prune_package_cache deletes the cache only while no sandbox is alive.   *)
PruneSparesLive == [][PruneDeletes => \A c \in Users : box[c] = NoBox]_svars
=============================================================================
