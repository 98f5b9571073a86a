-------------------------- MODULE DependencyProofs --------------------------
(***************************************************************************)
(* Waiting on fix tickets with one stage at a time, for any tickets, fixes *)
(* and bounds.  That no tickets wait for one another is a statement about  *)
(* paths: the unblocks edges, stale ones included, never form a cycle      *)
(* (Acyclic), since an edge to a new fix meets a ticket nothing points to  *)
(* and an edge to an old one was checked, by a walk that reads the same    *)
(* edges that are then written because nobody else runs (Wired).  Paths    *)
(* are handled as the closed sets that contain them, so that no induction  *)
(* is needed.                                                              *)
(*                                                                         *)
(* The second part is about an epic whose re-evaluations do not overlap:   *)
(* the count one files by covers what all of them filed (Counted), and     *)
(* what it has still to file repeats nothing undelivered (NewsIsNew).      *)
(* The third is about the edges written for its children.                  *)
(***************************************************************************)
EXTENDS DependencyFix, Epics, ChildDependencies, FiniteSetTheorems, SequenceTheorems, TLAPS

\* A run that has chosen its fix knows it.
Chosen == \A t \in All : thr[t].pc \in {"enqueue", "check", "wire", "write", "park"} => thr[t].fix \in Fixes

TInv == DTypeOK /\ Chosen

Acyclic == \A t \in All : ~reaches_via_unblocks(t, t)

\* No edge leads to a ticket that does not exist yet.
Present == \A x \in All : \A t \in unblocks[x] : tstate[t] # "absent"

OneRuns == \A t, u \in All : thr[t].pc # "idle" /\ thr[u].pc # "idle" => t = u

Wired(t) ==
  LET x == thr[t].fix
      pc == thr[t].pc
  IN /\ pc \notin {"idle", "fire"} => tstate[t] = "active"
     /\ pc = "fire" => tstate[t] = "done"
     /\ pc \in {"enqueue", "check", "wire", "write", "park"} =>
          x # t /\ tstate[x] \notin {"absent", "done"}
     /\ pc \in {"enqueue", "wire", "write"} => ~reaches_via_unblocks(t, x)
     /\ pc = "write" => thr[t].read = unblocks[x] \ {x}
     /\ pc = "park" => t \in unblocks[x]

Parked(t) ==
  reason[t] = "parked" => tstate[t] = "blocked" /\ park[t] \in Fixes /\ WakerExists(t)

Serial == Acyclic /\ Present /\ OneRuns /\ \A t \in All : Wired(t) /\ Parked(t)

DInv == TInv /\ (limit = 1 => Serial)

-----------------------------------------------------------------------------
(* Types. *)

LEMMA InitTyped == DInit => TInv
<1> SUFFICES ASSUME DInit PROVE TInv
  OBVIOUS
<1>1. Idle \in Thread /\ Idle.pc = "idle"
  BY DEF Idle, Thread
<1>2. thr \in [All -> Thread]
  BY <1>1 DEF DInit
<1>3. 0 \in 0..MaxPerTicket
  BY DependencyFixConstants
<1> QED BY <1>1, <1>2, <1>3 DEF DInit, TInv, DTypeOK, Chosen

LEMMA StepTyped ==
  ASSUME TInv, NEW t \in All, NEW label \in {"create", "enqueue", "check", "wire", "write", "park"},
         thr[t].fix \in Fixes \/ label = "create", Steps(t, label)
  PROVE  thr' \in [All -> Thread] /\ Chosen'
<1>1. thr \in [All -> Thread] /\ thr[t] \in Thread
  BY DEF TInv, DTypeOK
<1> DEFINE next == [thr[t] EXCEPT !.pc = label]
<1>2. next \in Thread /\ next.fix = thr[t].fix /\ next.pc = label
  BY <1>1 DEF Thread
<1>3. thr' = [thr EXCEPT ![t] = next]
  BY DEF Steps
<1> HIDE DEF next
<1>4. thr' \in [All -> Thread]
  BY <1>1, <1>2, <1>3
<1>5. Chosen'
  BY <1>1, <1>2, <1>3 DEF TInv, Chosen
<1> QED BY <1>4, <1>5

\* A step that writes the run r for t.
LEMMA RunTyped ==
  ASSUME TInv, NEW t \in All, NEW r \in Thread, thr' = [thr EXCEPT ![t] = r],
         r.pc \in {"enqueue", "check", "wire", "write", "park"} => r.fix \in Fixes
  PROVE  thr' \in [All -> Thread] /\ Chosen'
<1>1. thr \in [All -> Thread]
  BY DEF TInv, DTypeOK
<1>2. Chosen'
  BY <1>1 DEF TInv, Chosen
<1> QED BY <1>1, <1>2

LEMMA IdleTyped == Idle \in Thread /\ Idle.pc = "idle"
  BY DEF Idle, Thread

LEMMA BlocksTyped ==
  ASSUME TInv, NEW t \in All, NEW why \in {"parked", "resumable", "human"},
         NEW x \in Fixes \cup {NoTicket}, Blocks(t, why, x)
  PROVE  /\ tstate' \in [All -> {"absent", "draft", "active", "blocked", "done"}]
         /\ reason' \in [All -> {"none", "parked", "resumable", "human"}]
         /\ park' \in [All -> Fixes \cup {NoTicket}]
         /\ thr' \in [All -> Thread] /\ Chosen'
<1>1. thr' \in [All -> Thread] /\ Chosen'
  BY IdleTyped, RunTyped DEF Blocks
<1> QED BY <1>1 DEF TInv, DTypeOK, Blocks

LEMMA WakesTyped ==
  ASSUME TInv, NEW t \in All, Wakes(t)
  PROVE  /\ tstate' \in [All -> {"absent", "draft", "active", "blocked", "done"}]
         /\ reason' \in [All -> {"none", "parked", "resumable", "human"}]
         /\ park' \in [All -> Fixes \cup {NoTicket}]
  BY DEF TInv, DTypeOK, Wakes

LEMMA SpawnTyped ==
  ASSUME TInv, NEW t \in All, Dedup(t) \/ Spawn(t)
  PROVE  TInv'
<1> USE DEF DTypeOK
<1>0. thr[t] \in Thread /\ Fixes \subseteq All
  BY DEF TInv, All
<1>1. CASE Dedup(t)
  <2>1. UNCHANGED <<limit, tstate, unblocks, reason, park, resumes, reported>>
    BY <1>1 DEF Dedup
  <2>2. CASE Steps(t, "create")
    BY <2>1, <2>2, StepTyped DEF TInv
  <2>3. CASE \E x \in OpenFixes(t) : thr' = [thr EXCEPT ![t].pc = "check", ![t].fix = x]
    <3>1. PICK x \in Fixes : thr' = [thr EXCEPT ![t].pc = "check", ![t].fix = x]
      BY <2>3 DEF OpenFixes
    <3> DEFINE r == [thr[t] EXCEPT !.pc = "check", !.fix = x]
    <3>2. r \in Thread /\ r.fix = x /\ r.pc = "check"
      BY <1>0 DEF Thread
    <3>3. thr' = [thr EXCEPT ![t] = r]
      BY <3>1 DEF TInv
    <3> HIDE DEF r
    <3>4. thr' \in [All -> Thread] /\ Chosen'
      BY <3>2, <3>3, RunTyped
    <3> QED BY <2>1, <3>4 DEF TInv
  <2> QED BY <1>1, <2>2, <2>3 DEF Dedup
<1>2. CASE CreateFix(t)
  <2>1. PICK x \in Fixes :
          /\ tstate' = [tstate EXCEPT ![x] = "draft"]
          /\ thr' = [thr EXCEPT ![t].pc = "enqueue", ![t].fix = x]
    BY <1>2 DEF CreateFix
  <2> DEFINE r == [thr[t] EXCEPT !.pc = "enqueue", !.fix = x]
  <2>2. r \in Thread /\ r.fix = x /\ r.pc = "enqueue"
    BY <1>0 DEF Thread
  <2>3. thr' = [thr EXCEPT ![t] = r]
    BY <2>1 DEF TInv
  <2> HIDE DEF r
  <2>4. thr' \in [All -> Thread] /\ Chosen'
    BY <2>2, <2>3, RunTyped
  <2>5. UNCHANGED <<limit, unblocks, reason, park, resumes, reported>>
    BY <1>2 DEF CreateFix
  <2> QED BY <2>1, <2>4, <2>5 DEF TInv
<1>3. CASE NoMoreFixes(t)
  <2>1. thr' \in [All -> Thread] /\ Chosen'
    BY <1>3, IdleTyped, RunTyped DEF NoMoreFixes
  <2> QED BY <1>3, <2>1 DEF NoMoreFixes, TInv
<1>4. CASE EnqueueFix(t)
  <2>1. thr[t].fix \in Fixes
    BY <1>4 DEF EnqueueFix, TInv, Chosen
  <2>2. thr' \in [All -> Thread] /\ Chosen'
    BY <1>4, <2>1, StepTyped DEF EnqueueFix
  <2>3. tstate' \in [All -> {"absent", "draft", "active", "blocked", "done"}]
    BY <1>4, <1>0, <2>1 DEF EnqueueFix, TInv
  <2> QED BY <1>4, <2>2, <2>3 DEF EnqueueFix, TInv
<1>5. CASE CycleRefusal(t)
  <2>1. CASE Blocks(t, "human", NoTicket)
    BY <1>5, <2>1, BlocksTyped DEF CycleRefusal, TInv
  <2>2. CASE Steps(t, "wire") /\ UNCHANGED <<tstate, reason, park>>
    <3>1. thr[t].fix \in Fixes
      BY <1>5 DEF CycleRefusal, TInv, Chosen
    <3> QED BY <1>5, <2>2, <3>1, StepTyped DEF CycleRefusal, TInv
  <2> QED BY <1>5, <2>1, <2>2 DEF CycleRefusal
<1>6. CASE ReadUnblocks(t)
  <2> DEFINE x == thr[t].fix
             r == [thr[t] EXCEPT !.pc = "write", !.read = unblocks[x] \ {x}]
  <2>1. x \in Fixes
    BY <1>6 DEF ReadUnblocks, TInv, Chosen
  <2>2. unblocks[x] \ {x} \in SUBSET All
    BY <1>0, <2>1 DEF TInv
  <2>3. thr' = [thr EXCEPT ![t] = r] /\ UNCHANGED <<limit, tstate, unblocks, reason, park, resumes, reported>>
    BY <1>6 DEF ReadUnblocks, TInv
  <2>4. r \in Thread /\ r.fix = x
    BY <1>0, <2>2 DEF Thread
  <2> HIDE DEF r, x
  <2>5. thr' \in [All -> Thread] /\ Chosen'
    BY <2>1, <2>3, <2>4, RunTyped
  <2> QED BY <2>3, <2>5 DEF TInv
<1>7. CASE SetUnblocks(t)
  <2>1. thr[t].fix \in Fixes /\ thr[t].read \subseteq All
    BY <1>0, <1>7 DEF SetUnblocks, TInv, Chosen, Thread
  <2>2. thr' \in [All -> Thread] /\ Chosen'
    BY <1>7, <2>1, StepTyped DEF SetUnblocks
  <2>3. unblocks' \in [All -> SUBSET All]
    BY <1>7, <2>1 DEF SetUnblocks, TInv
  <2> QED BY <1>7, <2>2, <2>3 DEF SetUnblocks, TInv
<1>8. CASE Park(t)
  <2>1. thr[t].fix \in Fixes
    BY <1>8 DEF Park, TInv, Chosen
  <2> QED BY <1>8, <2>1, BlocksTyped DEF Park, TInv
<1> QED BY <1>1, <1>2, <1>3, <1>4, <1>5, <1>6, <1>7, <1>8 DEF Spawn

LEMMA OtherTyped ==
  ASSUME TInv, NEW t \in All,
         Completes(t) \/ Fire(t) \/ BlocksOtherwise(t) \/ ResumeOne(t) \/ OperatorResumes(t)
  PROVE  TInv'
<1> USE DEF DTypeOK
<1>0. thr[t] \in Thread
  BY DEF TInv
<1>1. CASE Completes(t)
  <2> DEFINE r == [pc |-> "fire", fix |-> NoTicket, read |-> unblocks[t]]
  <2>1. r \in Thread /\ r.pc = "fire"
    BY DEF TInv, Thread
  <2> HIDE DEF r
  <2>2. thr' \in [All -> Thread] /\ Chosen'
    BY <1>1, <2>1, RunTyped DEF Completes, r
  <2> QED BY <1>1, <2>2 DEF Completes, TInv
<1>2. CASE Fire(t)
  <2>1. UNCHANGED <<limit, unblocks, resumes, reported>>
    BY <1>2 DEF Fire
  <2>2. CASE thr' = [thr EXCEPT ![t] = Idle] /\ UNCHANGED <<tstate, reason, park>>
    <3>1. thr' \in [All -> Thread] /\ Chosen'
      BY <2>2, IdleTyped, RunTyped
    <3> QED BY <2>1, <2>2, <3>1 DEF TInv
  <2>3. ASSUME NEW x \in thr[t].read, thr' = [thr EXCEPT ![t].read = @ \ {x}],
               IF tstate[x] = "blocked" THEN Wakes(x) ELSE UNCHANGED <<tstate, reason, park>>
        PROVE  TInv'
    <3>1. x \in All
      BY <1>0 DEF Thread
    <3> DEFINE r == [thr[t] EXCEPT !.read = @ \ {x}]
    <3>2. r \in Thread /\ r.pc = thr[t].pc /\ r.fix = thr[t].fix
      BY <1>0 DEF Thread
    <3>3. thr' = [thr EXCEPT ![t] = r]
      BY <2>3 DEF TInv
    <3> HIDE DEF r
    <3>4. thr' \in [All -> Thread] /\ Chosen'
      BY <1>2, <3>2, <3>3, RunTyped DEF Fire
    <3>5. /\ tstate' \in [All -> {"absent", "draft", "active", "blocked", "done"}]
          /\ reason' \in [All -> {"none", "parked", "resumable", "human"}]
          /\ park' \in [All -> Fixes \cup {NoTicket}]
      BY <2>3, <3>1, WakesTyped DEF TInv
    <3> QED BY <2>1, <3>4, <3>5 DEF TInv
  <2> QED BY <1>2, <2>2, <2>3 DEF Fire
<1>3. CASE BlocksOtherwise(t)
  BY <1>3, BlocksTyped DEF BlocksOtherwise, TInv
<1>4. CASE ResumeOne(t)
  <2>1. resumes' \in [All -> 0..MaxPerTicket]
    BY <1>4, DependencyFixConstants DEF ResumeOne, TInv
  <2>2. UNCHANGED <<limit, unblocks, thr, reported>>
    BY <1>4 DEF ResumeOne
  <2>3. Wakes(t)
    BY <1>4 DEF ResumeOne
  <2> QED BY <2>1, <2>2, <2>3, WakesTyped DEF TInv, Chosen
<1>5. CASE OperatorResumes(t)
  <2>1. Wakes(t) /\ UNCHANGED <<limit, unblocks, thr, resumes, reported>>
    BY <1>5 DEF OperatorResumes
  <2> QED BY <2>1, WakesTyped DEF TInv, Chosen
<1> QED BY <1>1, <1>2, <1>3, <1>4, <1>5

LEMMA NextTyped == TInv /\ [DNext]_dvars => TInv'
<1> SUFFICES ASSUME TInv, [DNext]_dvars PROVE TInv'
  OBVIOUS
<1>1. CASE UNCHANGED dvars
  BY <1>1 DEF dvars, TInv, DTypeOK, Chosen
<1>2. CASE DetectCycles
  <2>1. CycleMembers \subseteq All
    BY DEF CycleMembers, blocked
  <2> QED BY <1>2, <2>1 DEF DetectCycles, TInv, DTypeOK, Chosen
<1> QED BY <1>1, <1>2, SpawnTyped, OtherTyped DEF DNext

-----------------------------------------------------------------------------
(* Paths. *)

Closed(C) == \A x \in C : unblocks[x] \subseteq C

\* Whatever cannot be reached is outside some closed set.
LEMMA Avoids ==
  ASSUME NEW s \in All, NEW g, ~reaches_via_unblocks(s, g)
  PROVE  \E C \in SUBSET All : unblocks[s] \subseteq C /\ Closed(C) /\ g \notin C
  BY DEF reaches_via_unblocks, Closed

LEMMA Misses ==
  ASSUME NEW s \in All, NEW g, NEW C \in SUBSET All, unblocks[s] \subseteq C, Closed(C), g \notin C
  PROVE  ~reaches_via_unblocks(s, g)
  BY DEF reaches_via_unblocks, Closed

LEMMA EdgeReaches ==
  ASSUME NEW s \in All, NEW g \in unblocks[s]
  PROVE  reaches_via_unblocks(s, g)
  BY DEF reaches_via_unblocks

LEMMA Transitive ==
  ASSUME NEW s \in All, NEW m \in All, NEW g,
         reaches_via_unblocks(s, m), reaches_via_unblocks(m, g)
  PROVE  reaches_via_unblocks(s, g)
  BY DEF reaches_via_unblocks

\* Paths depend on the edges only.
LEMMA SamePaths ==
  ASSUME NEW s, NEW g, UNCHANGED unblocks
  PROVE  reaches_via_unblocks(s, g)' <=> reaches_via_unblocks(s, g)
  BY DEF reaches_via_unblocks

\* A ticket that no edge leads to is not reached.
LEMMA SourceNotReached ==
  ASSUME unblocks \in [All -> SUBSET All], NEW x \in All, NEW s \in All,
         \A y \in All : x \notin unblocks[y]
  PROVE  ~reaches_via_unblocks(s, x)
<1>1. All \ {x} \in SUBSET All /\ unblocks[s] \subseteq All \ {x} /\ Closed(All \ {x})
  BY DEF Closed
<1> QED BY <1>1, Misses

\* An edge from x to t keeps the graph acyclic when t does not reach x.
LEMMA EdgeKeepsAcyclic ==
  ASSUME unblocks \in [All -> SUBSET All], Acyclic, NEW t \in All, NEW x \in All, x # t,
         ~reaches_via_unblocks(t, x), unblocks' = [unblocks EXCEPT ![x] = unblocks[x] \cup {t}]
  PROVE  Acyclic'
<1> SUFFICES ASSUME NEW s \in All PROVE ~reaches_via_unblocks(s, s)'
  BY DEF Acyclic
<1>1. PICK C \in SUBSET All : unblocks[t] \subseteq C /\ Closed(C) /\ x \notin C
  BY Avoids
<1> DEFINE D == C \cup {t}
<1>2. D \in SUBSET All /\ Closed(D) /\ x \notin D /\ t \in D
  BY <1>1 DEF Closed
<1> HIDE DEF D
<1>3. PICK S \in SUBSET All : unblocks[s] \subseteq S /\ Closed(S) /\ s \notin S
  BY Avoids DEF Acyclic
<1>4. CASE s \notin D
  <2> DEFINE E == S \cup D
  <2>1. E \in SUBSET All /\ s \notin E
    BY <1>2, <1>3, <1>4
  <2>2. unblocks'[s] \subseteq E
    BY <1>2, <1>3
  <2>3. \A y \in E : unblocks'[y] \subseteq E
    BY <1>2, <1>3 DEF Closed
  <2> QED BY <2>1, <2>2, <2>3 DEF reaches_via_unblocks
<1>5. CASE s \in D
  <2> DEFINE E == S \cap D
  <2>1. E \in SUBSET All /\ s \notin E
    BY <1>3
  <2>2. unblocks'[s] \subseteq E
    BY <1>2, <1>3, <1>5 DEF Closed
  <2>3. \A y \in E : unblocks'[y] \subseteq E
    BY <1>2, <1>3 DEF Closed
  <2> QED BY <2>1, <2>2, <2>3 DEF reaches_via_unblocks
<1> QED BY <1>4, <1>5

\* What waits for another blocked ticket is reached from it.
LEMMA WaitingIsReached ==
  ASSUME unblocks \in [All -> SUBSET All], NEW t \in blocked, NEW x \in blocked, WaitsThrough(t, x)
  PROVE  reaches_via_unblocks(x, t)
<1> DEFINE C == {y \in blocked : reaches_via_unblocks(y, t)}
<1>1. blocked \subseteq All
  BY DEF blocked
<1>2. ASSUME NEW y \in blocked, WaitsFor(t, y) \/ \E z \in C : WaitsFor(z, y)
      PROVE  y \in C
  <2>1. CASE WaitsFor(t, y)
    BY <1>1, <2>1, EdgeReaches DEF WaitsFor
  <2>2. CASE \E z \in C : WaitsFor(z, y)
    <3>1. PICK z \in C : z \in unblocks[y]
      BY <2>2 DEF WaitsFor
    <3>2. reaches_via_unblocks(y, z) /\ reaches_via_unblocks(z, t)
      BY <1>1, <3>1, EdgeReaches
    <3> QED BY <1>1, <3>2, Transitive
  <2> QED BY <1>2, <2>1, <2>2
<1>3. C \in SUBSET blocked
  OBVIOUS
<1> HIDE DEF C
<1>4. x \in C
  BY <1>2, <1>3 DEF WaitsThrough
<1> QED BY <1>4 DEF C

\* So without cycles the pass finds no deadlock.
LEMMA AcyclicNoDeadlock ==
  ASSUME unblocks \in [All -> SUBSET All], Acyclic
  PROVE  CycleMembers = {}
<1> SUFFICES ASSUME NEW t \in blocked, NEW x \in blocked, WaitsThrough(t, x), WaitsThrough(x, t)
             PROVE  FALSE
  BY DEF CycleMembers
<1>1. t \in All /\ x \in All
  BY DEF blocked
<1>2. reaches_via_unblocks(t, x) /\ reaches_via_unblocks(x, t)
  BY WaitingIsReached
<1> QED BY <1>1, <1>2, Transitive DEF Acyclic

-----------------------------------------------------------------------------
(* One stage at a time. *)

LEMMA InitSerial == DInit => Serial
<1> SUFFICES ASSUME DInit PROVE Serial
  OBVIOUS
<1>1. \A t \in All : thr[t].pc = "idle" /\ reason[t] = "none" /\ unblocks[t] = {}
  BY IdleTyped DEF DInit
<1>2. Acyclic
  <2> SUFFICES ASSUME NEW t \in All PROVE ~reaches_via_unblocks(t, t)
    BY DEF Acyclic
  <2>1. {} \in SUBSET All /\ unblocks[t] \subseteq {} /\ Closed({}) /\ t \notin {}
    BY <1>1 DEF Closed
  <2> QED BY <2>1, Misses
<1> QED BY <1>1, <1>2 DEF Serial, Present, OneRuns, Wired, Parked

\* Where one stage runs at a time, a consumer that starts finds nobody running.
LEMMA StartsAlone ==
  ASSUME TInv, limit = 1, NEW t \in All, Starts(t)
  PROVE  \A u \in All : thr[u].pc = "idle"
<1>1. IsFiniteSet(Running)
  BY FS_Subset, DependencyFixConstants DEF Running, All
<1>2. Cardinality(Running) \in Nat /\ Cardinality(Running) < 1
  BY <1>1, FS_CardinalityType DEF Starts
<1>3. Running = {}
  BY <1>1, <1>2, FS_EmptySet
<1> QED BY <1>3 DEF Running

\* A step of t that leaves the edges alone and wakes or parks nobody: only its
\* run and, perhaps, the state of a fix change.
LEMMA QuietSerial ==
  ASSUME TInv, Serial, NEW t \in All, UNCHANGED <<unblocks, reason, park>>,
         \A u \in All \ {t} : thr'[u].pc = "idle" /\ thr[u].pc = "idle",
         thr[t].pc # "fire",
         \A u \in All : \/ tstate'[u] = tstate[u]
                        \/ /\ tstate'[u] \notin {"absent", "done"}
                           /\ tstate[u] # "blocked",
         Wired(t)'
  PROVE  Serial'
<1>1. Acyclic'
  BY SamePaths DEF Serial, Acyclic
<1>2. Present'
  BY DEF Serial, Present, TInv, DTypeOK
<1>3. OneRuns'
  BY DEF OneRuns
<1>4. ASSUME NEW u \in All PROVE Wired(u)'
  BY <1>4 DEF Wired
<1>5. ASSUME NEW u \in All PROVE Parked(u)'
  <2> SUFFICES ASSUME reason[u] = "parked" PROVE Parked(u)'
    BY DEF Parked
  <2>1. tstate[u] = "blocked" /\ park[u] \in Fixes /\ WakerExists(u) /\ park[u] \in All
    BY DEF Serial, Parked, All
  <2>2. tstate[park[u]] # "done" /\ u \in unblocks[park[u]]
    BY <2>1 DEF WakerExists
  <2>3. tstate'[park[u]] # "done" /\ tstate'[u] = "blocked"
    BY <2>1, <2>2
  <2> QED BY <2>1, <2>2, <2>3 DEF Parked, WakerExists
<1> QED BY <1>1, <1>2, <1>3, <1>4, <1>5 DEF Serial

\* What holds of the others while t runs.
LEMMA OthersIdle ==
  ASSUME TInv, Serial, NEW t \in All, thr[t].pc # "idle"
  PROVE  \A u \in All \ {t} : thr[u].pc = "idle"
  BY DEF Serial, OneRuns

LEMMA DedupSerial ==
  ASSUME TInv, Serial, limit = 1, NEW t \in All, Dedup(t)
  PROVE  Serial'
<1>1. /\ tstate[t] = "active" /\ \A u \in All : thr[u].pc = "idle"
      /\ UNCHANGED <<limit, tstate, unblocks, reason, park, resumes, reported>>
  BY StartsAlone DEF Dedup, Starts
<1>2. thr \in [All -> Thread] /\ thr[t] \in Thread
  BY DEF TInv, DTypeOK
<1>3. Wired(t)' /\ \A u \in All \ {t} : thr'[u] = thr[u]
  <2>1. CASE Steps(t, "create")
    BY <1>1, <1>2, <2>1 DEF Steps, Wired, Thread
  <2>2. CASE \E x \in OpenFixes(t) : thr' = [thr EXCEPT ![t].pc = "check", ![t].fix = x]
    <3>1. PICK x \in OpenFixes(t) : thr' = [thr EXCEPT ![t].pc = "check", ![t].fix = x]
      BY <2>2
    <3>2. thr'[t].pc = "check" /\ thr'[t].fix = x /\ \A u \in All \ {t} : thr'[u] = thr[u]
      BY <1>2, <3>1 DEF Thread
    <3>3. x # t /\ tstate'[x] \notin {"absent", "done"}
      BY <1>1 DEF OpenFixes
    <3> QED BY <1>1, <3>2, <3>3 DEF Wired
  <2> QED BY <2>1, <2>2 DEF Dedup
<1> QED BY <1>1, <1>3, QuietSerial

LEMMA CreateSerial ==
  ASSUME TInv, Serial, limit = 1, NEW t \in All, CreateFix(t)
  PROVE  Serial'
<1>1. PICK x \in Fixes :
        /\ tstate[x] = "absent" /\ tstate' = [tstate EXCEPT ![x] = "draft"]
        /\ thr' = [thr EXCEPT ![t].pc = "enqueue", ![t].fix = x]
  BY DEF CreateFix
<1>2. thr[t].pc = "create" /\ UNCHANGED <<limit, unblocks, reason, park, resumes, reported>>
  BY DEF CreateFix
<1>3. /\ thr \in [All -> Thread] /\ thr[t] \in Thread /\ x \in All
      /\ tstate \in [All -> {"absent", "draft", "active", "blocked", "done"}]
      /\ unblocks \in [All -> SUBSET All]
  BY DEF TInv, DTypeOK, All
<1>4. thr'[t].pc = "enqueue" /\ thr'[t].fix = x /\ \A u \in All \ {t} : thr'[u] = thr[u]
  BY <1>1, <1>3 DEF Thread
<1>5. tstate[t] = "active" /\ x # t
  BY <1>1, <1>2 DEF Serial, Wired
<1>6. ~reaches_via_unblocks(t, x)
  BY <1>1, <1>3, SourceNotReached DEF Serial, Present
<1>7. ~reaches_via_unblocks(t, x)'
  BY <1>2, <1>6, SamePaths
<1>8. tstate'[t] = "active" /\ tstate'[x] = "draft"
  BY <1>1, <1>3, <1>5
<1>9. Wired(t)'
  BY <1>4, <1>5, <1>7, <1>8 DEF Wired
<1>10. \A u \in All : \/ tstate'[u] = tstate[u]
                      \/ /\ tstate'[u] \notin {"absent", "done"}
                         /\ tstate[u] # "blocked"
  BY <1>1, <1>3
<1> QED BY <1>2, <1>4, <1>9, <1>10, OthersIdle, QuietSerial

\* A step of t's run that changes nothing else.
LEMMA StepSerial ==
  ASSUME TInv, Serial, NEW t \in All, NEW r \in Thread, thr' = [thr EXCEPT ![t] = r],
         UNCHANGED <<tstate, unblocks, reason, park>>,
         thr[t].pc \notin {"idle", "fire"}, Wired(t)'
  PROVE  Serial'
<1>1. thr \in [All -> Thread]
  BY DEF TInv, DTypeOK
<1> QED BY <1>1, OthersIdle, QuietSerial

LEMMA NoMoreSerial ==
  ASSUME TInv, Serial, limit = 1, NEW t \in All, NoMoreFixes(t)
  PROVE  Serial'
<1>1. thr'[t] = Idle
  BY DEF NoMoreFixes, TInv, DTypeOK
<1>2. Wired(t)'
  BY <1>1, IdleTyped DEF Wired
<1> QED BY <1>2, IdleTyped, StepSerial DEF NoMoreFixes

LEMMA EnqueueSerial ==
  ASSUME TInv, Serial, limit = 1, NEW t \in All, EnqueueFix(t)
  PROVE  Serial'
<1>0. PICK x : x = thr[t].fix
  OBVIOUS
<1>1. /\ thr[t].pc = "enqueue" /\ thr' = [thr EXCEPT ![t].pc = "wire"]
      /\ tstate' = [tstate EXCEPT ![x] = IF @ = "draft" THEN "active" ELSE @]
      /\ UNCHANGED <<limit, unblocks, reason, park, resumes, reported>>
  BY <1>0 DEF EnqueueFix, Steps
<1>2. /\ thr \in [All -> Thread] /\ thr[t] \in Thread /\ x \in All
      /\ tstate \in [All -> {"absent", "draft", "active", "blocked", "done"}]
  BY <1>0, <1>1 DEF TInv, DTypeOK, All, Chosen
<1>3. thr'[t].pc = "wire" /\ thr'[t].fix = x /\ \A u \in All \ {t} : thr'[u] = thr[u]
  BY <1>0, <1>1, <1>2 DEF Thread
<1>4. /\ tstate[t] = "active" /\ x # t /\ tstate[x] \notin {"absent", "done"}
      /\ ~reaches_via_unblocks(t, x)
  BY <1>0, <1>1 DEF Serial, Wired
<1>5. tstate'[t] = "active" /\ tstate'[x] \notin {"absent", "done"}
  BY <1>1, <1>2, <1>4
<1>6. ~reaches_via_unblocks(t, x)'
  BY <1>1, <1>4, SamePaths
<1>7. Wired(t)'
  BY <1>3, <1>4, <1>5, <1>6 DEF Wired
<1>8. \A u \in All : \/ tstate'[u] = tstate[u]
                     \/ /\ tstate'[u] \notin {"absent", "done"}
                        /\ tstate[u] # "blocked"
  BY <1>1, <1>2
<1> QED BY <1>1, <1>3, <1>7, <1>8, OthersIdle, QuietSerial

\* t, which runs alone and is no longer to be woken by anybody, blocks.
LEMMA BlocksSerial ==
  ASSUME TInv, Serial, NEW t \in All, NEW why \in {"parked", "resumable", "human"},
         NEW x \in Fixes \cup {NoTicket}, Blocks(t, why, x), UNCHANGED unblocks,
         tstate[t] = "active", \A u \in All \ {t} : thr[u].pc = "idle",
         thr[t].pc # "fire",
         why = "parked" => x \in Fixes /\ x # t /\ tstate[x] # "done" /\ t \in unblocks[x]
  PROVE  Serial'
<1>1. /\ thr \in [All -> Thread] /\ reason \in [All -> {"none", "parked", "resumable", "human"}]
      /\ tstate \in [All -> {"absent", "draft", "active", "blocked", "done"}]
      /\ park \in [All -> Fixes \cup {NoTicket}]
  BY DEF TInv, DTypeOK
<1>2. /\ tstate' = [tstate EXCEPT ![t] = "blocked"] /\ reason' = [reason EXCEPT ![t] = why]
      /\ park' = [park EXCEPT ![t] = x] /\ thr' = [thr EXCEPT ![t] = Idle]
  BY DEF Blocks
<1>3. \A u \in All : thr'[u].pc = "idle"
  BY <1>1, <1>2, IdleTyped
<1>4. Acyclic'
  BY SamePaths DEF Serial, Acyclic
<1>5. Present' /\ OneRuns' /\ \A u \in All : Wired(u)'
  BY <1>1, <1>2, <1>3 DEF Serial, Present, OneRuns, Wired, TInv, DTypeOK
<1>6. Parked(t)'
  <2> SUFFICES ASSUME why = "parked" PROVE Parked(t)'
    BY <1>1, <1>2 DEF Parked
  <2>1. park'[t] = x /\ tstate'[t] = "blocked" /\ tstate'[x] = tstate[x]
    BY <1>1, <1>2
  <2> QED BY <2>1 DEF Parked, WakerExists
<1>7. ASSUME NEW u \in All, u # t PROVE Parked(u)'
  <2> SUFFICES ASSUME reason[u] = "parked" PROVE Parked(u)'
    BY <1>1, <1>2, <1>7 DEF Parked
  <2>1. tstate[u] = "blocked" /\ park[u] \in Fixes /\ WakerExists(u) /\ park[u] \in All
    BY DEF Serial, Parked, All
  <2>2. tstate[park[u]] # "done" /\ u \in unblocks[park[u]]
    BY <2>1 DEF WakerExists
  <2>3. tstate'[park[u]] # "done" /\ tstate'[u] = "blocked" /\ park'[u] = park[u]
    BY <1>1, <1>2, <1>7, <2>1, <2>2
  <2> QED BY <2>1, <2>2, <2>3 DEF Parked, WakerExists
<1> QED BY <1>4, <1>5, <1>6, <1>7 DEF Serial

LEMMA RefusalSerial ==
  ASSUME TInv, Serial, limit = 1, NEW t \in All, CycleRefusal(t)
  PROVE  Serial'
<1>0. PICK x : x = thr[t].fix
  OBVIOUS
<1>1. /\ thr[t].pc = "check" /\ UNCHANGED unblocks
      /\ thr \in [All -> Thread] /\ thr[t] \in Thread
  BY DEF CycleRefusal, TInv, DTypeOK
<1>2. tstate[t] = "active" /\ x # t /\ tstate[x] \notin {"absent", "done"}
  BY <1>0, <1>1 DEF Serial, Wired
<1>3. CASE Blocks(t, "human", NoTicket)
  BY <1>1, <1>2, <1>3, OthersIdle, BlocksSerial
<1>4. CASE ~reaches_via_unblocks(t, x) /\ Steps(t, "wire") /\ UNCHANGED <<tstate, reason, park>>
  <2> DEFINE r == [thr[t] EXCEPT !.pc = "wire"]
  <2>1. r \in Thread /\ r.pc = "wire" /\ r.fix = x /\ thr' = [thr EXCEPT ![t] = r]
    BY <1>0, <1>1, <1>4 DEF Thread, Steps
  <2> HIDE DEF r
  <2>2. thr'[t] = r /\ ~reaches_via_unblocks(t, x)'
    BY <1>1, <1>4, <2>1, SamePaths
  <2>3. Wired(t)'
    BY <1>2, <1>4, <2>1, <2>2 DEF Wired
  <2> QED BY <1>1, <1>4, <2>1, <2>3, StepSerial
<1> QED BY <1>0, <1>3, <1>4 DEF CycleRefusal

LEMMA ReadSerial ==
  ASSUME TInv, Serial, limit = 1, NEW t \in All, ReadUnblocks(t)
  PROVE  Serial'
<1>0. PICK x : x = thr[t].fix
  OBVIOUS
<1> DEFINE r == [thr[t] EXCEPT !.pc = "write", !.read = unblocks[x] \ {x}]
<1>1. /\ thr[t].pc = "wire" /\ UNCHANGED <<tstate, unblocks, reason, park>>
      /\ thr \in [All -> Thread] /\ thr[t] \in Thread /\ thr' = [thr EXCEPT ![t] = r]
  BY <1>0 DEF ReadUnblocks, TInv, DTypeOK
<1>2. /\ tstate[t] = "active" /\ x # t /\ tstate[x] \notin {"absent", "done"}
      /\ ~reaches_via_unblocks(t, x)
  BY <1>0, <1>1 DEF Serial, Wired
<1>3. unblocks[x] \ {x} \in SUBSET All
  BY <1>0, <1>1 DEF TInv, Chosen, DTypeOK, All
<1>4. r \in Thread /\ r.pc = "write" /\ r.fix = x /\ r.read = unblocks[x] \ {x}
  BY <1>0, <1>1, <1>3 DEF Thread
<1> HIDE DEF r
<1>5. thr'[t] = r /\ ~reaches_via_unblocks(t, x)'
  BY <1>1, <1>2, SamePaths
<1>6. Wired(t)'
  BY <1>1, <1>2, <1>4, <1>5 DEF Wired
<1> QED BY <1>1, <1>4, <1>6, StepSerial

LEMMA SetSerial ==
  ASSUME TInv, Serial, limit = 1, NEW t \in All, SetUnblocks(t)
  PROVE  Serial'
<1> DEFINE x == thr[t].fix
<1>1. /\ thr[t].pc = "write" /\ UNCHANGED <<tstate, reason, park>>
      /\ thr \in [All -> Thread] /\ thr[t] \in Thread /\ thr' = [thr EXCEPT ![t].pc = "park"]
      /\ unblocks \in [All -> SUBSET All]
  BY DEF SetUnblocks, Steps, TInv, DTypeOK
<1>2. /\ tstate[t] = "active" /\ x # t /\ tstate[x] \notin {"absent", "done"} /\ x \in All
      /\ ~reaches_via_unblocks(t, x) /\ thr[t].read = unblocks[x] \ {x}
  BY <1>1 DEF Serial, Wired, TInv, Chosen, All
<1>3. x \notin unblocks[x]
  BY <1>2, EdgeReaches DEF Serial, Acyclic
<1>4. unblocks' = [unblocks EXCEPT ![x] = unblocks[x] \cup {t}]
  BY <1>2, <1>3 DEF SetUnblocks
<1>5. thr'[t].pc = "park" /\ thr'[t].fix = x /\ \A u \in All \ {t} : thr'[u] = thr[u] /\ thr[u].pc = "idle"
  BY <1>1, OthersIdle DEF Thread
<1> HIDE DEF x
<1>6. Acyclic'
  BY <1>1, <1>2, <1>4, EdgeKeepsAcyclic DEF Serial
<1>7. Present'
  BY <1>1, <1>2, <1>4 DEF Serial, Present
<1>8. OneRuns' /\ \A u \in All \ {t} : Wired(u)'
  BY <1>5 DEF OneRuns, Wired
<1>9. Wired(t)'
  BY <1>1, <1>2, <1>4, <1>5 DEF Wired
<1>10. ASSUME NEW u \in All PROVE Parked(u)'
  <2> SUFFICES ASSUME reason[u] = "parked" PROVE Parked(u)'
    BY <1>1 DEF Parked
  <2>1. tstate[u] = "blocked" /\ park[u] \in Fixes /\ WakerExists(u) /\ park[u] \in All
    BY DEF Serial, Parked, All
  <2>2. tstate[park[u]] # "done" /\ u \in unblocks[park[u]]
    BY <1>1, <1>5, <2>1 DEF WakerExists
  <2>3. u \in unblocks'[park[u]]
    BY <1>1, <1>4, <2>1, <2>2
  <2> QED BY <1>1, <2>1, <2>2, <2>3 DEF Parked, WakerExists
<1> QED BY <1>6, <1>7, <1>8, <1>9, <1>10 DEF Serial

LEMMA ParkSerial ==
  ASSUME TInv, Serial, limit = 1, NEW t \in All, Park(t)
  PROVE  Serial'
<1>1. /\ thr[t].pc = "park" /\ Blocks(t, "parked", thr[t].fix) /\ UNCHANGED unblocks
      /\ thr[t].fix \in Fixes
  BY DEF Park, TInv, Chosen
<1>2. /\ tstate[t] = "active" /\ thr[t].fix # t /\ tstate[thr[t].fix] # "done"
      /\ t \in unblocks[thr[t].fix]
  BY <1>1 DEF Serial, Wired
<1> QED BY <1>1, <1>2, OthersIdle, BlocksSerial

LEMMA CompletesSerial ==
  ASSUME TInv, Serial, limit = 1, NEW t \in All, Completes(t)
  PROVE  Serial'
<1>1. /\ tstate[t] = "active" /\ \A u \in All : thr[u].pc = "idle"
      /\ tstate' = [tstate EXCEPT ![t] = "done"]
      /\ thr' = [thr EXCEPT ![t] = [pc |-> "fire", fix |-> NoTicket, read |-> unblocks[t]]]
      /\ UNCHANGED <<limit, unblocks, reason, park, resumes, reported>>
  BY StartsAlone DEF Completes, Starts
<1>2. /\ thr \in [All -> Thread]
      /\ tstate \in [All -> {"absent", "draft", "active", "blocked", "done"}]
      /\ unblocks \in [All -> SUBSET All]
  BY DEF TInv, DTypeOK
<1>3. /\ tstate'[t] = "done" /\ thr'[t].pc = "fire" /\ thr'[t].read = unblocks[t]
      /\ \A u \in All \ {t} : tstate'[u] = tstate[u] /\ thr'[u] = thr[u] /\ thr'[u].pc = "idle"
  BY <1>1, <1>2
<1>4. Acyclic'
  BY <1>1, SamePaths DEF Serial, Acyclic
<1>5. Present' /\ OneRuns' /\ \A u \in All : Wired(u)'
  <2>1. Present'
    BY <1>1, <1>2, <1>3 DEF Serial, Present
  <2>2. OneRuns'
    BY <1>3 DEF OneRuns
  <2>3. Wired(t)'
    BY <1>3 DEF Wired
  <2>4. \A u \in All \ {t} : Wired(u)'
    BY <1>3 DEF Wired
  <2> QED BY <2>1, <2>2, <2>3, <2>4
<1>6. ASSUME NEW u \in All PROVE Parked(u)'
  <2> SUFFICES ASSUME reason[u] = "parked" PROVE Parked(u)'
    BY <1>1 DEF Parked
  <2>1. tstate[u] = "blocked" /\ park[u] \in Fixes /\ WakerExists(u) /\ park[u] \in All
    BY DEF Serial, Parked, All
  <2>2. tstate[park[u]] # "done" /\ u \in unblocks[park[u]]
    BY <1>1, <2>1 DEF WakerExists
  <2>3. tstate'[u] = "blocked" /\ park'[u] = park[u] /\ unblocks' = unblocks
    BY <1>1, <1>3, <2>1
  <2>4. CASE park[u] = t
    BY <1>3, <2>1, <2>2, <2>3, <2>4 DEF Parked, WakerExists
  <2>5. CASE park[u] # t
    BY <1>3, <2>1, <2>2, <2>3, <2>5 DEF Parked, WakerExists
  <2> QED BY <2>4, <2>5
<1> QED BY <1>4, <1>5, <1>6 DEF Serial

\* Resuming x disturbs nobody: it was blocked, so it neither ran nor was done.
LEMMA WakesSerial ==
  ASSUME TInv, Serial, NEW x \in All, tstate[x] = "blocked", Wakes(x), UNCHANGED <<thr, unblocks>>
  PROVE  Serial'
<1>1. /\ tstate \in [All -> {"absent", "draft", "active", "blocked", "done"}]
      /\ reason \in [All -> {"none", "parked", "resumable", "human"}]
      /\ park \in [All -> Fixes \cup {NoTicket}] /\ unblocks \in [All -> SUBSET All]
  BY DEF TInv, DTypeOK
<1>2. /\ tstate'[x] = "active" /\ reason'[x] = "none"
      /\ \A u \in All \ {x} : tstate'[u] = tstate[u] /\ reason'[u] = reason[u] /\ park'[u] = park[u]
  BY <1>1 DEF Wakes
<1>3. Acyclic'
  BY SamePaths DEF Serial, Acyclic
<1>4. Present' /\ OneRuns'
  BY <1>1, <1>2 DEF Serial, Present, OneRuns
<1>5. ASSUME NEW u \in All PROVE Wired(u)'
  <2>1. Wired(u)
    BY DEF Serial
  <2>2. /\ thr[u].pc \in {"enqueue", "check", "wire", "write", "park"} => thr[u].fix \in All
        /\ reaches_via_unblocks(u, thr[u].fix)' <=> reaches_via_unblocks(u, thr[u].fix)
    BY SamePaths DEF TInv, Chosen, All
  <2>3. \A v \in All : /\ tstate[v] \in {"active", "done"} => tstate'[v] = tstate[v]
                       /\ tstate[v] \notin {"absent", "done"} => tstate'[v] \notin {"absent", "done"}
    BY <1>2
  <2> QED BY <2>1, <2>2, <2>3 DEF Wired
<1>6. ASSUME NEW u \in All PROVE Parked(u)'
  <2> SUFFICES ASSUME reason'[u] = "parked" PROVE Parked(u)'
    BY DEF Parked
  <2>1. u # x /\ reason[u] = "parked"
    BY <1>2
  <2>2. tstate[u] = "blocked" /\ park[u] \in Fixes /\ WakerExists(u) /\ park[u] \in All
    BY <2>1 DEF Serial, Parked, All
  <2>3. tstate'[u] = "blocked" /\ park'[u] = park[u]
    BY <1>2, <2>1, <2>2
  <2>4. tstate[park[u]] # "done" => tstate'[park[u]] # "done"
    BY <1>2, <2>2
  <2> QED BY <2>2, <2>3, <2>4 DEF Parked, WakerExists
<1> QED BY <1>3, <1>4, <1>5, <1>6 DEF Serial

LEMMA FireSerial ==
  ASSUME TInv, Serial, limit = 1, NEW t \in All, Fire(t)
  PROVE  Serial'
<1>1. thr[t].pc = "fire" /\ UNCHANGED unblocks /\ thr \in [All -> Thread] /\ thr[t] \in Thread
  BY DEF Fire, TInv, DTypeOK
<1>2. tstate[t] = "done"
  BY <1>1 DEF Serial, Wired
<1>3. \A u \in All \ {t} : thr[u].pc = "idle"
  BY <1>1, OthersIdle
<1>4. ASSUME NEW u \in All, reason[u] = "parked"
      PROVE  /\ tstate[u] = "blocked" /\ park[u] \in Fixes /\ park[u] \in All
             /\ \/ tstate[park[u]] # "done" /\ u \in unblocks[park[u]]
                \/ park[u] = t /\ u \in thr[t].read
  <2>1. Parked(u) /\ Fixes \subseteq All
    BY DEF Serial, All
  <2> QED BY <1>3, <1>4, <2>1 DEF Parked, WakerExists
<1>5. Acyclic'
  BY <1>1, SamePaths DEF Serial, Acyclic
<1>6. CASE thr[t].read = {} /\ thr' = [thr EXCEPT ![t] = Idle] /\ UNCHANGED <<tstate, reason, park>>
  <2>1. \A u \in All : thr'[u].pc = "idle"
    BY <1>1, <1>3, <1>6, IdleTyped
  <2>2. Present' /\ OneRuns' /\ \A u \in All : Wired(u)'
    BY <1>1, <1>6, <2>1 DEF Serial, Present, OneRuns, Wired
  <2>3. ASSUME NEW u \in All PROVE Parked(u)'
    BY <1>1, <1>4, <1>6 DEF Parked, WakerExists
  <2> QED BY <1>5, <2>2, <2>3 DEF Serial
<1>7. ASSUME NEW x \in thr[t].read, thr' = [thr EXCEPT ![t].read = @ \ {x}],
             IF tstate[x] = "blocked" THEN Wakes(x) ELSE UNCHANGED <<tstate, reason, park>>
      PROVE  Serial'
  <2>1. x \in All
    BY <1>1 DEF Thread
  <2>2. /\ thr'[t].pc = "fire" /\ thr'[t].read = thr[t].read \ {x}
        /\ \A u \in All \ {t} : thr'[u] = thr[u]
    BY <1>1, <1>7 DEF Thread
  <2>3. /\ tstate \in [All -> {"absent", "draft", "active", "blocked", "done"}]
        /\ reason \in [All -> {"none", "parked", "resumable", "human"}]
        /\ park \in [All -> Fixes \cup {NoTicket}] /\ unblocks \in [All -> SUBSET All]
    BY DEF TInv, DTypeOK
  <2>4. /\ \A u \in All \ {x} : tstate'[u] = tstate[u] /\ reason'[u] = reason[u] /\ park'[u] = park[u]
        /\ \/ tstate[x] = "blocked" /\ tstate'[x] = "active" /\ reason'[x] = "none"
           \/ tstate[x] # "blocked" /\ tstate'[x] = tstate[x] /\ reason'[x] = reason[x]
    BY <1>7, <2>1, <2>3 DEF Wakes
  <2>5. Present' /\ OneRuns'
    BY <1>1, <1>3, <2>2, <2>3, <2>4 DEF Serial, Present, OneRuns
  <2>6. ASSUME NEW u \in All PROVE Wired(u)'
    <3>1. CASE u = t
      <4>1. tstate'[t] = "done"
        BY <1>2, <2>1, <2>4
      <4> QED BY <2>2, <3>1, <4>1 DEF Wired
    <3>2. CASE u # t
      BY <1>3, <2>2, <3>2 DEF Wired
    <3> QED BY <3>1, <3>2
  <2>7. ASSUME NEW u \in All PROVE Parked(u)'
    <3> SUFFICES ASSUME reason'[u] = "parked" PROVE Parked(u)'
      BY DEF Parked
    <3>1. u # x /\ reason[u] = "parked"
      BY <1>4, <2>1, <2>4
    <3>2. tstate'[u] = "blocked" /\ park'[u] = park[u] /\ park[u] \in Fixes /\ park[u] \in All
      BY <1>4, <2>4, <3>1
    <3>3. CASE tstate[park[u]] # "done" /\ u \in unblocks[park[u]]
      <4>1. tstate'[park[u]] # "done"
        BY <2>4, <3>2, <3>3
      <4> QED BY <1>1, <3>2, <3>3, <4>1 DEF Parked, WakerExists
    <3>4. CASE park[u] = t /\ u \in thr[t].read
      <4>1. u \in thr'[t].read /\ thr'[t].pc = "fire"
        BY <2>2, <3>1, <3>4
      <4> QED BY <3>2, <3>4, <4>1 DEF Parked, WakerExists
    <3> QED BY <1>4, <3>1, <3>3, <3>4
  <2> QED BY <1>5, <2>5, <2>6, <2>7 DEF Serial
<1> QED BY <1>6, <1>7 DEF Fire

LEMMA StepsSerial ==
  ASSUME TInv, Serial, limit = 1, NEW t \in All,
         \/ Dedup(t) \/ Spawn(t) \/ Completes(t) \/ Fire(t) \/ BlocksOtherwise(t)
         \/ ResumeOne(t) \/ OperatorResumes(t)
  PROVE  Serial'
<1>1. CASE BlocksOtherwise(t)
  <2>1. tstate[t] = "active" /\ \A u \in All : thr[u].pc = "idle"
    BY <1>1, StartsAlone DEF BlocksOtherwise, Starts
  <2>2. UNCHANGED unblocks /\ \E why \in {"resumable", "human"} : Blocks(t, why, NoTicket)
    BY <1>1 DEF BlocksOtherwise
  <2> QED BY <2>1, <2>2, BlocksSerial
<1>2. CASE ResumeOne(t) \/ OperatorResumes(t)
  <2>1. tstate[t] = "blocked" /\ Wakes(t) /\ UNCHANGED <<thr, unblocks>>
    BY <1>2 DEF ResumeOne, OperatorResumes
  <2> QED BY <2>1, WakesSerial
<1> QED BY <1>1, <1>2, DedupSerial, CreateSerial, NoMoreSerial, EnqueueSerial, RefusalSerial,
           ReadSerial, SetSerial, ParkSerial, CompletesSerial, FireSerial DEF Spawn

LEMMA DStep == DInv /\ [DNext]_dvars => DInv'
<1> SUFFICES ASSUME DInv, [DNext]_dvars PROVE DInv'
  OBVIOUS
<1>1. TInv'
  BY NextTyped DEF DInv
<1>2. CASE UNCHANGED <<limit, tstate, unblocks, reason, park, thr>>
  <2>1. Serial => Serial'
    BY <1>2 DEF Serial, Acyclic, reaches_via_unblocks, Present, OneRuns, Wired, Parked, WakerExists
  <2> QED BY <1>1, <1>2, <2>1 DEF DInv
<1>3. ASSUME NEW t \in All,
             \/ Dedup(t) \/ Spawn(t) \/ Completes(t) \/ Fire(t) \/ BlocksOtherwise(t)
             \/ ResumeOne(t) \/ OperatorResumes(t)
      PROVE  DInv'
  <2>1. limit' = limit
    BY <1>3 DEF Dedup, Spawn, Completes, Fire, BlocksOtherwise, ResumeOne, OperatorResumes,
                CreateFix, NoMoreFixes, EnqueueFix, CycleRefusal, ReadUnblocks, SetUnblocks, Park
  <2> QED BY <1>1, <1>3, <2>1, StepsSerial DEF DInv
<1> QED BY <1>2, <1>3 DEF DNext, DetectCycles, dvars

(* Types for any concurrency; with one stage at a time no cycle of edges,  *)
(* and a completion to come for every parked ticket.                       *)
THEOREM ParkingInvariant == DSpec => []DInv
<1>1. DInit => DInv
  BY InitTyped, InitSerial DEF DInv
<1> QED BY <1>1, DStep, PTL DEF DSpec

(* With one stage at a time, every ticket parked on a fix has something    *)
(* that will resume it, and no tickets wait for one another, for any       *)
(* number of tickets and fixes and whatever people resume by hand.         *)
THEOREM SerialParkingAlwaysSound == DSpec => []SerialParkingIsSound
<1>1. DInv => SerialParkingIsSound
  <2> SUFFICES ASSUME DInv PROVE SerialParkingIsSound
    OBVIOUS
  <2>1. DTypeOK /\ unblocks \in [All -> SUBSET All]
    BY DEF DInv, TInv, DTypeOK
  <2>2. limit = 1 => ParkedIsResumed
    BY DEF DInv, Serial, Parked, ParkedIsResumed
  <2>3. limit = 1 => CycleMembers = {}
    BY <2>1, AcyclicNoDeadlock DEF DInv, Serial
  <2> QED BY <2>1, <2>2, <2>3 DEF SerialParkingIsSound, ParkedIsResumedSerially, NoDeadlockSerially
<1> QED BY <1>1, ParkingInvariant, PTL

-----------------------------------------------------------------------------
(* Re-evaluation of an epic.                                               *)

\* With one re-evaluation at a time, at most one is not idle.
OneAtATime == \A r, q \in Evals : eval[r].at # "idle" /\ eval[q].at # "idle" => r = q

\* What a duplicate repeats is a child of the epic.
CanonsExist == \A i \in DOMAIN kids : kids[i].st = "duplicate" => kids[i].canon \in DOMAIN kids

ReevalLate == {i \in DOMAIN kids : kids[i].by = "reeval" /\ kids[i].late}

\* The count a re-evaluation files by covers what all of them filed late.
Counted == \A r \in Evals : eval[r].at = "closing" /\ eval[r].news # {} => Cardinality(ReevalLate) <= eval[r].seen

\* What it has still to file, a re-evaluation filed before only if it delivered.
NewsIsNew ==
  \A r \in Evals : eval[r].at = "closing" =>
    \A i \in DOMAIN kids : kids[i].by = "reeval" /\ kids[i].title \in eval[r].news => ~LiveKid(kids[i]) /\ Delivered(i)

EvalRec == [at : {"idle", "asking", "filing", "closing"}, news : SUBSET Titles, seen : 0..MaxKids]
EpicTypes ==
  /\ epic \in {"classifying", "open", "closed"} /\ kids \in Seq(Kid) /\ Len(kids) <= MaxKids
  /\ settled \in BOOLEAN /\ eval \in [Evals -> EvalRec]
  /\ break \in [at : {"idle", "filing", "classify"}, news : SUBSET Titles] /\ sweep \in BOOLEAN

EpicInv == EpicTypes /\ CanonsExist /\ OneAtATime /\ Counted /\ NewsIsNew /\ ReevalCapHolds

LEMMA EpicNumbers == MaxKids \in Nat /\ MaxReeval \in Nat /\ Overlaps \in BOOLEAN
  BY EpicAssumption

\* How many children there are of any sort is at most their number.
LEMMA SomeKids ==
    ASSUME EpicTypes, NEW T \in SUBSET DOMAIN kids
    PROVE  IsFiniteSet(T) /\ Cardinality(T) \in Nat /\ Cardinality(T) <= MaxKids
<1>1. DOMAIN kids = 1..Len(kids) /\ Len(kids) \in Nat /\ Len(kids) <= MaxKids
  BY DEF EpicTypes
<1>2. IsFiniteSet(1..Len(kids)) /\ Cardinality(1..Len(kids)) = Len(kids)
  BY <1>1, FS_Interval
<1>3. IsFiniteSet(T) /\ Cardinality(T) <= Len(kids)
  BY <1>1, <1>2, FS_Subset
<1> QED
  BY <1>1, <1>3, FS_CardinalityType, EpicNumbers

LEMMA CountKids == ASSUME EpicTypes PROVE LateCount(kids) \in 0..MaxKids /\ Cardinality(ReevalLate) <= LateCount(kids)
<1> DEFINE L == {i \in DOMAIN kids : kids[i].late}
<1>1. L \in SUBSET DOMAIN kids /\ ReevalLate \in SUBSET L /\ ReevalLate \in SUBSET DOMAIN kids
  BY DEF ReevalLate
<1>2. LateCount(kids) = Cardinality(L)
  BY DEF LateCount
<1> HIDE DEF L
<1>3. IsFiniteSet(L) /\ Cardinality(L) \in Nat /\ Cardinality(L) <= MaxKids
  BY <1>1, SomeKids
<1>4. Cardinality(ReevalLate) <= Cardinality(L)
  BY <1>1, <1>3, FS_Subset
<1> QED
  BY <1>2, <1>3, <1>4, EpicNumbers

\* A child keeps its title and origin, and one that is finished stays as it
\* is.
Grows ==
  /\ Len(kids') >= Len(kids)
  /\ \A i \in DOMAIN kids : /\ i \in DOMAIN kids' /\ kids'[i].title = kids[i].title /\ kids'[i].by = kids[i].by
                            /\ kids'[i].late = kids[i].late
                            /\ ~LiveKid(kids[i]) => kids'[i].st = kids[i].st /\ kids'[i].canon = kids[i].canon

\* What was delivered stays delivered.
LEMMA DeliveredStays ==
    ASSUME CanonsExist, Grows, NEW i \in DOMAIN kids, Delivered(i)
    PROVE  Delivered(i)'
<1> SUFFICES ASSUME NEW S \in SUBSET DOMAIN kids', i \in S,
                    \A j \in S : kids'[j].st = "duplicate" => kids'[j].canon \in S
             PROVE  \E j \in S : kids'[j].st = "merged"
  BY DEF Delivered, FollowsDuplicates
<1> DEFINE T == S \cap DOMAIN kids
<1>1. T \in SUBSET DOMAIN kids /\ i \in T
  OBVIOUS
<1>2. ASSUME NEW j \in T, kids[j].st = "duplicate" PROVE kids[j].canon \in T
  BY <1>2 DEF Grows, CanonsExist, LiveKid, Finished
<1>3. PICK j \in T : kids[j].st = "merged"
  BY <1>1, <1>2 DEF Delivered, FollowsDuplicates
<1>4. kids'[j].st = "merged"
  BY <1>3 DEF Grows, LiveKid, Finished
<1> QED
  BY <1>4

\* A child is added at the end.
LEMMA Appends ==
    ASSUME EpicTypes, NEW t \in Titles, NEW who \in {"breakdown", "reeval"}, Len(kids) < MaxKids,
           kids' = Append(kids, NewKid(t, who))
    PROVE  /\ kids' \in Seq(Kid) /\ Len(kids') = Len(kids) + 1 /\ Len(kids') <= MaxKids
           /\ \A i \in DOMAIN kids : kids'[i] = kids[i]
           /\ DOMAIN kids' = DOMAIN kids \cup {Len(kids')} /\ Len(kids') \notin DOMAIN kids
           /\ kids'[Len(kids')].title = t /\ kids'[Len(kids')].by = who /\ kids'[Len(kids')].st = "draft"
           /\ Grows
<1> USE EpicNumbers
<1>1. NewKid(t, who) \in Kid
  BY DEF NewKid, Kid, KidStates, EpicTypes
<1> DEFINE k == NewKid(t, who)
<1>2. k \in Kid /\ k.title = t /\ k.by = who /\ k.st = "draft"
  BY <1>1 DEF NewKid
<1> HIDE DEF k
<1>3. kids' = Append(kids, k)
  BY DEF k
<1>4. kids' \in Seq(Kid) /\ Len(kids') = Len(kids) + 1 /\ Len(kids') <= MaxKids
  BY <1>2, <1>3 DEF EpicTypes
<1>5. DOMAIN kids = 1..Len(kids) /\ DOMAIN kids' = 1..Len(kids') /\ Len(kids) \in Nat
  BY <1>4 DEF EpicTypes
<1>6. \A i \in DOMAIN kids : kids'[i] = kids[i]
  BY <1>3, <1>5 DEF EpicTypes
<1>7. kids'[Len(kids')] = k
  BY <1>3, <1>4 DEF EpicTypes
<1>8. Grows
  BY <1>4, <1>5, <1>6 DEF Grows
<1> QED
  BY <1>2, <1>4, <1>5, <1>6, <1>7, <1>8

\* The count of late children of re-evaluations grows by one at most.
LEMMA LateGrows ==
    ASSUME EpicTypes, NEW n, n \notin DOMAIN kids, DOMAIN kids' = DOMAIN kids \cup {n},
           \A i \in DOMAIN kids : kids'[i] = kids[i]
    PROVE  /\ Cardinality(ReevalLate') <= Cardinality(ReevalLate) + 1
           /\ kids'[n].by = "breakdown" => ReevalLate' = ReevalLate
<1>1. ReevalLate' \subseteq ReevalLate \cup {n} /\ (kids'[n].by = "breakdown" => ReevalLate' = ReevalLate)
  BY DEF ReevalLate
<1>2. IsFiniteSet(ReevalLate) /\ Cardinality(ReevalLate) \in Nat
  BY SomeKids DEF ReevalLate
<1>3. n \notin ReevalLate
  BY DEF ReevalLate
<1>4. IsFiniteSet(ReevalLate \cup {n}) /\ Cardinality(ReevalLate \cup {n}) = Cardinality(ReevalLate) + 1
  BY <1>2, <1>3, FS_AddElement
<1>5. Cardinality(ReevalLate') <= Cardinality(ReevalLate \cup {n})
  BY <1>1, <1>4, FS_Subset
<1> QED
  BY <1>1, <1>4, <1>5

\* A step that files no child of a re-evaluation and lists none.
Quiet ==
  /\ Grows /\ ReevalLate' = ReevalLate
  /\ \A i \in DOMAIN kids' : kids'[i].by = "reeval" => i \in DOMAIN kids
  /\ \A r \in Evals : eval'[r].at = "closing" =>
       eval[r].at = "closing" /\ eval'[r].news \subseteq eval[r].news /\ eval'[r].seen = eval[r].seen

LEMMA QuietKept ==
    ASSUME CanonsExist, Counted, NewsIsNew, ReevalCapHolds, Quiet
    PROVE  Counted' /\ NewsIsNew' /\ ReevalCapHolds'
<1>1. Counted'
  BY DEF Counted, Quiet
<1>2. ReevalCapHolds'
  <2>1. ReevalCapHolds <=> Cardinality(ReevalLate) <= MaxReeval
    BY DEF ReevalCapHolds, ReevalLate
  <2>2. ReevalCapHolds' <=> Cardinality(ReevalLate') <= MaxReeval
    BY DEF ReevalCapHolds, ReevalLate
  <2> QED
    BY <2>1, <2>2 DEF Quiet
<1>3. ASSUME NEW r \in Evals, eval'[r].at = "closing", NEW i \in DOMAIN kids', kids'[i].by = "reeval",
             kids'[i].title \in eval'[r].news
      PROVE  ~LiveKid(kids'[i]) /\ Delivered(i)'
  <2>1. i \in DOMAIN kids /\ eval[r].at = "closing" /\ kids[i].title \in eval[r].news /\ kids[i].by = "reeval"
    BY <1>3 DEF Quiet, Grows
  <2>2. ~LiveKid(kids[i]) /\ Delivered(i)
    BY <2>1 DEF NewsIsNew
  <2>3. Delivered(i)'
    BY <2>1, <2>2, DeliveredStays DEF Quiet
  <2>4. kids'[i].st = kids[i].st
    BY <2>1, <2>2 DEF Quiet, Grows
  <2> QED
    BY <2>2, <2>3, <2>4 DEF LiveKid
<1> QED
  BY <1>1, <1>2, <1>3 DEF NewsIsNew

\* A step that leaves the children alone is quiet if no list is made.
LEMMA KidsSame ==
    ASSUME EpicTypes, UNCHANGED kids,
           \A r \in Evals : eval'[r].at = "closing" =>
             eval[r].at = "closing" /\ eval'[r].news \subseteq eval[r].news /\ eval'[r].seen = eval[r].seen
    PROVE  Quiet
<1>1. ReevalLate' = ReevalLate
  BY DEF ReevalLate
<1>2. Grows
  BY DEF Grows, EpicTypes
<1> QED
  BY <1>1, <1>2 DEF Quiet

LEMMA MappedKids ==
    ASSUME NEW S, NEW T, NEW es \in Seq(S), NEW f \in [DOMAIN es -> T]
    PROVE  f \in Seq(T) /\ Len(f) = Len(es)
<1>1. DOMAIN es = 1..Len(es) /\ Len(es) \in Nat
  BY LenProperties
<1>2. f \in Seq(T)
  BY <1>1, SeqDef
<1>3. DOMAIN f = 1..Len(f) /\ Len(f) \in Nat
  BY <1>2, LenProperties
<1> QED
  BY <1>1, <1>2, <1>3

LEMMA KidsMapped ==
    ASSUME EpicTypes, kids' \in [DOMAIN kids -> Kid]
    PROVE  kids' \in Seq(Kid) /\ Len(kids') = Len(kids)
  BY MappedKids DEF EpicTypes

\* So is one that changes how a child stands, if it was not finished.
LEMMA OneChanges ==
    ASSUME EpicTypes, CanonsExist, NEW i \in DOMAIN kids, LiveKid(kids[i]), NEW st \in KidStates,
           NEW canon \in 0..MaxKids, st = "duplicate" => canon \in DOMAIN kids,
           kids' = [kids EXCEPT ![i].st = st, ![i].canon = canon]
    PROVE  /\ kids' \in Seq(Kid) /\ Len(kids') = Len(kids) /\ DOMAIN kids' = DOMAIN kids
           /\ Grows /\ CanonsExist' /\ ReevalLate' = ReevalLate
<1>1. kids \in [1..Len(kids) -> Kid] /\ DOMAIN kids = 1..Len(kids) /\ Len(kids) \in Nat
  BY DEF EpicTypes
<1>2. \A j \in DOMAIN kids : kids'[j] \in Kid /\ kids'[j].title = kids[j].title /\ kids'[j].by = kids[j].by
                             /\ kids'[j].late = kids[j].late /\ (j # i => kids'[j] = kids[j])
  BY <1>1 DEF Kid
<1>3. kids'[i].st = st /\ kids'[i].canon = canon
  BY <1>1 DEF Kid
<1>4. DOMAIN kids' = DOMAIN kids
  OBVIOUS
<1>5. kids' \in Seq(Kid) /\ Len(kids') = Len(kids)
  <2>1. kids' \in [DOMAIN kids -> Kid]
    BY <1>1, <1>2, <1>4
  <2> QED
    BY <2>1, KidsMapped
<1>6. Grows
  BY <1>2, <1>4, <1>5 DEF Grows
<1>7. CanonsExist'
  BY <1>2, <1>3, <1>4 DEF CanonsExist
<1>8. ReevalLate' = ReevalLate
  BY <1>2, <1>4 DEF ReevalLate
<1> QED
  BY <1>4, <1>5, <1>6, <1>7, <1>8

LEMMA EpicInvInit == EInit => EpicInv
<1> SUFFICES ASSUME EInit PROVE EpicInv
  OBVIOUS
<1> USE EpicNumbers
<1>1. kids = <<>> /\ DOMAIN kids = {} /\ Len(kids) = 0
  BY DEF EInit
<1>2. EpicTypes
  <2>1. kids \in Seq(Kid) /\ Len(kids) <= MaxKids
    BY <1>1
  <2>2. NoEval \in EvalRec
    BY DEF NoEval, EvalRec
  <2>3. eval \in [Evals -> EvalRec]
    BY <2>2 DEF EInit
  <2>4. break \in [at : {"idle", "filing", "classify"}, news : SUBSET Titles]
    BY DEF EInit, NoBreak
  <2> QED
    BY <2>1, <2>3, <2>4 DEF EpicTypes, EInit
<1>3. CanonsExist /\ OneAtATime /\ Counted /\ NewsIsNew
  BY <1>1 DEF EInit, NoEval, CanonsExist, OneAtATime, Counted, NewsIsNew
<1>4. {i \in DOMAIN kids : kids[i].by = "reeval" /\ kids[i].late} = {}
  BY <1>1
<1>5. ReevalCapHolds
  BY <1>4, FS_EmptySet DEF ReevalCapHolds
<1> QED
  BY <1>2, <1>3, <1>5 DEF EpicInv

\* A re-evaluation starts only while none runs.
LEMMA TriggersKept ==
    ASSUME EpicTypes, ~Overlaps, OneAtATime, Triggers
    PROVE  /\ eval' \in [Evals -> EvalRec] /\ OneAtATime'
           /\ \A r \in Evals : eval'[r].at = "closing" => eval'[r] = eval[r]
<1>1. CASE UNCHANGED eval
  BY <1>1 DEF EpicTypes, OneAtATime
<1>2. CASE ~UNCHANGED eval
  <2>1. PICK r \in Evals : (\A x \in Evals : eval[x].at = "idle") /\ eval' = [eval EXCEPT ![r].at = "asking"]
    BY <1>2 DEF Triggers
  <2>2. eval' \in [Evals -> EvalRec]
    BY <2>1 DEF EpicTypes, EvalRec
  <2>3. \A q \in Evals : (q # r => eval'[q] = eval[q]) /\ (q = r => eval'[q].at = "asking")
    BY <2>1 DEF EpicTypes, EvalRec
  <2> QED
    BY <2>1, <2>2, <2>3 DEF OneAtATime
<1> QED
  BY <1>1, <1>2

\* A re-evaluation that runs goes on, or ends.
LEMMA OneGoesOn ==
    ASSUME OneAtATime, NEW r \in Evals, eval[r].at # "idle", \A q \in Evals \ {r} : eval'[q] = eval[q]
    PROVE  OneAtATime'
  BY DEF OneAtATime

\* The step of one re-evaluation, as what it leaves of its record.
LEMMA EvalChanges ==
    ASSUME EpicTypes, NEW r \in Evals, NEW at \in {"idle", "asking", "filing", "closing"}, NEW news \in SUBSET Titles,
           NEW seen \in 0..MaxKids, eval' = [eval EXCEPT ![r].at = at, ![r].news = news, ![r].seen = seen]
    PROVE  /\ eval' \in [Evals -> EvalRec] /\ \A q \in Evals \ {r} : eval'[q] = eval[q]
           /\ eval'[r].at = at /\ eval'[r].news = news /\ eval'[r].seen = seen
  BY DEF EpicTypes, EvalRec

LEMMA LiveChanges ==
    ASSUME EpicTypes, CanonsExist, NEW i \in DOMAIN kids, LiveKid(kids[i]), NEW st \in KidStates, st # "duplicate",
           kids' = [kids EXCEPT ![i].st = st]
    PROVE  /\ kids' \in Seq(Kid) /\ Len(kids') = Len(kids) /\ DOMAIN kids' = DOMAIN kids
           /\ Grows /\ CanonsExist' /\ ReevalLate' = ReevalLate
<1>1. kids \in [1..Len(kids) -> Kid] /\ DOMAIN kids = 1..Len(kids) /\ Len(kids) \in Nat
  BY DEF EpicTypes
<1>2. \A j \in DOMAIN kids : kids'[j] \in Kid /\ kids'[j].title = kids[j].title /\ kids'[j].by = kids[j].by
                             /\ kids'[j].late = kids[j].late /\ (j # i => kids'[j] = kids[j])
  BY <1>1 DEF Kid
<1>3. kids'[i].st = st /\ DOMAIN kids' = DOMAIN kids
  BY <1>1 DEF Kid
<1>4. kids' \in [DOMAIN kids -> Kid]
  BY <1>1, <1>2, <1>3
<1>5. kids' \in Seq(Kid) /\ Len(kids') = Len(kids)
  BY <1>4, KidsMapped
<1>6. Grows
  BY <1>2, <1>3, <1>5 DEF Grows, EpicTypes
<1>7. CanonsExist'
  BY <1>2, <1>3 DEF CanonsExist
<1>8. ReevalLate' = ReevalLate
  BY <1>2, <1>3 DEF ReevalLate
<1> QED
  BY <1>3, <1>5, <1>6, <1>7, <1>8

\* The list is the first thing the filing is based on.
LEMMA ListKept ==
    ASSUME EpicInv, NEW r \in Evals, ListKids(r)
    PROVE  EpicInv'
<1> USE EpicNumbers
<1> USE DEF EpicInv
<1>1. UNCHANGED <<epic, kids, settled, break, sweep>> /\ eval[r].at = "filing"
  BY DEF ListKids
<1> DEFINE news == IF HeldBack(kids) THEN {} ELSE eval[r].news \ Refused(kids)
           seen == LateCount(kids)
<1>2. eval[r].news \in SUBSET Titles
  BY DEF EpicTypes, EvalRec
<1>3. news \in SUBSET Titles /\ news \cap Refused(kids) = {} /\ seen \in 0..MaxKids /\ Cardinality(ReevalLate) <= seen
  BY <1>2, CountKids
<1>4. eval' = [eval EXCEPT ![r].at = "closing", ![r].seen = seen, ![r].news = news]
  BY DEF ListKids
<1> HIDE DEF news, seen
<1>5. /\ eval' \in [Evals -> EvalRec] /\ \A q \in Evals \ {r} : eval'[q] = eval[q]
      /\ eval'[r].at = "closing" /\ eval'[r].news = news /\ eval'[r].seen = seen
  BY <1>3, <1>4 DEF EpicTypes, EvalRec
<1>6. OneAtATime'
  BY <1>1, <1>5, OneGoesOn
<1>7. EpicTypes' /\ CanonsExist' /\ ReevalCapHolds' /\ ReevalLate' = ReevalLate
  BY <1>1, <1>5 DEF EpicTypes, CanonsExist, ReevalCapHolds, ReevalLate
<1>8. Counted'
  BY <1>3, <1>5, <1>7 DEF Counted
<1>9. ASSUME NEW q \in Evals, eval'[q].at = "closing", NEW i \in DOMAIN kids', kids'[i].by = "reeval",
             kids'[i].title \in eval'[q].news
      PROVE  ~LiveKid(kids'[i]) /\ Delivered(i)'
  <2>1. i \in DOMAIN kids /\ kids[i].title \in eval'[q].news /\ kids[i].by = "reeval"
    BY <1>1, <1>9
  <2>2. ~LiveKid(kids[i]) /\ Delivered(i)
    <3>1. CASE q # r
      BY <1>5, <1>9, <2>1, <3>1 DEF NewsIsNew
    <3>2. CASE q = r
      BY <1>3, <1>5, <2>1, <3>2 DEF Refused
    <3> QED
      BY <3>1, <3>2
  <2>3. Delivered(i)'
    BY <1>1, <2>2 DEF Delivered, FollowsDuplicates
  <2> QED
    BY <1>1, <2>2, <2>3 DEF LiveKid
<1> QED
  BY <1>6, <1>7, <1>8, <1>9 DEF NewsIsNew

\* A re-evaluation that files nothing leaves titles out.
LEMMA Unfiled ==
    ASSUME EpicTypes, NEW r \in Evals, FileNew(r), UNCHANGED kids
    PROVE  \E news \in SUBSET eval[r].news : eval' = [eval EXCEPT ![r].news = news]
<1>1. PICK t \in eval[r].news :
         \/ eval' = [eval EXCEPT ![r].news = {}]
         \/ kids' = Append(kids, NewKid(t, "reeval"))
         \/ eval' = [eval EXCEPT ![r].news = @ \ {t}]
  BY DEF FileNew
<1>2. kids' # Append(kids, NewKid(t, "reeval"))
  <2>1. Len(Append(kids, NewKid(t, "reeval"))) = Len(kids) + 1 /\ Len(kids) \in Nat
    BY DEF EpicTypes
  <2> QED
    BY <2>1
<1> QED
  BY <1>1, <1>2

\* What a re-evaluation files is new, and its count covers it.
LEMMA FileKept ==
    ASSUME EpicInv, NEW r \in Evals, FileNew(r)
    PROVE  EpicInv'
<1> USE EpicNumbers
<1> USE DEF EpicInv
<1>1. UNCHANGED <<epic, settled, break, sweep>> /\ eval[r].at = "closing" /\ eval[r].news # {}
  BY DEF FileNew
<1>2. eval[r].news \in SUBSET Titles /\ eval[r].seen \in 0..MaxKids /\ Cardinality(ReevalLate) <= eval[r].seen
  BY <1>1 DEF EpicTypes, EvalRec, Counted
<1>3. CASE UNCHANGED kids
  <2>1. PICK news \in SUBSET eval[r].news : eval' = [eval EXCEPT ![r].news = news]
    BY <1>2, <1>3, Unfiled
  <2>2. news \in SUBSET Titles
    BY <1>2
  <2>3. /\ eval' \in [Evals -> EvalRec] /\ \A q \in Evals \ {r} : eval'[q] = eval[q]
        /\ eval'[r].at = "closing" /\ eval'[r].news = news /\ eval'[r].seen = eval[r].seen
    BY <1>1, <2>1, <2>2 DEF EpicTypes, EvalRec
  <2>4. Quiet
    BY <1>1, <1>3, <2>1, <2>3, KidsSame
  <2>5. OneAtATime'
    BY <1>1, <2>3, OneGoesOn
  <2>6. CanonsExist' /\ EpicTypes'
    BY <1>1, <1>3, <2>3 DEF CanonsExist, EpicTypes
  <2> QED
    BY <2>4, <2>5, <2>6, QuietKept
<1>4. CASE kids' # kids
  <2>1. PICK t \in eval[r].news :
           /\ eval[r].seen < MaxReeval /\ Len(kids) < MaxKids
           /\ kids' = Append(kids, NewKid(t, "reeval"))
           /\ eval' = [eval EXCEPT ![r].news = @ \ {t}, ![r].seen = CountOn(@)]
    <3>1. PICK t \in eval[r].news :
             IF eval[r].seen >= MaxReeval
               THEN eval' = [eval EXCEPT ![r].news = {}] /\ UNCHANGED kids
               ELSE \/ /\ Len(kids) < MaxKids
                       /\ kids' = Append(kids, NewKid(t, "reeval"))
                       /\ eval' = [eval EXCEPT ![r].news = @ \ {t}, ![r].seen = CountOn(@)]
                    \/ /\ eval' = [eval EXCEPT ![r].news = @ \ {t}]
                       /\ UNCHANGED kids
      BY Zenon DEF FileNew
    <3>2. ~(eval[r].seen >= MaxReeval) => eval[r].seen < MaxReeval
      BY <1>2
    <3> QED
      BY <1>4, <3>1, <3>2, Zenon
  <2> DEFINE n == Len(kids')
             news == eval[r].news \ {t}
             seen == CountOn(eval[r].seen)
  <2>2. t \in Titles /\ news \in SUBSET Titles
    BY <1>2
  <2>3. /\ kids' \in Seq(Kid) /\ n = Len(kids) + 1 /\ n <= MaxKids
        /\ \A i \in DOMAIN kids : kids'[i] = kids[i]
        /\ DOMAIN kids' = DOMAIN kids \cup {n} /\ n \notin DOMAIN kids
        /\ kids'[n].title = t /\ kids'[n].by = "reeval" /\ kids'[n].st = "draft" /\ Grows
    BY <2>1, <2>2, Appends
  <2>4. seen \in 0..MaxKids /\ seen = IF eval[r].seen < MaxKids THEN eval[r].seen + 1 ELSE eval[r].seen
    BY <1>2 DEF CountOn
  <2>5. eval' = [eval EXCEPT ![r].news = news, ![r].seen = seen]
    BY <2>1
  <2> HIDE DEF n, news, seen
  <2>6. /\ eval' \in [Evals -> EvalRec] /\ \A q \in Evals \ {r} : eval'[q] = eval[q]
        /\ eval'[r].at = "closing" /\ eval'[r].news = news /\ eval'[r].seen = seen
    BY <1>1, <2>2, <2>4, <2>5 DEF EpicTypes, EvalRec
  <2>7. OneAtATime'
    BY <1>1, <2>6, OneGoesOn
  <2>8. EpicTypes'
    BY <1>1, <2>3, <2>6 DEF EpicTypes, n
  <2>9. CanonsExist'
    BY <2>3 DEF CanonsExist
  <2>10. Cardinality(ReevalLate') <= Cardinality(ReevalLate) + 1 /\ Cardinality(ReevalLate) \in Nat
    <3>1. ReevalLate \in SUBSET DOMAIN kids
      BY DEF ReevalLate
    <3> QED
      BY <2>3, <3>1, LateGrows, SomeKids
  <2>11. Cardinality(ReevalLate') <= MaxKids /\ Cardinality(ReevalLate') \in Nat
    <3>1. n \in Nat /\ DOMAIN kids' = 1..n
      BY <2>3 DEF EpicTypes, n
    <3>2. IsFiniteSet(1..n) /\ Cardinality(1..n) = n
      BY <3>1, FS_Interval
    <3>3. ReevalLate' \in SUBSET (1..n)
      BY <3>1 DEF ReevalLate
    <3>4. Cardinality(ReevalLate') <= n /\ IsFiniteSet(ReevalLate')
      BY <3>2, <3>3, FS_Subset
    <3> QED
      BY <2>3, <3>1, <3>4, FS_CardinalityType
  <2>12. Counted'
    <3>1. Cardinality(ReevalLate') <= seen
      BY <1>2, <2>4, <2>10, <2>11
    <3>2. \A q \in Evals : eval'[q].at = "closing" => q = r
      BY <1>1, <2>6, <2>7 DEF OneAtATime
    <3> QED
      BY <2>6, <3>1, <3>2 DEF Counted
  <2>13. ReevalCapHolds'
    <3>1. Cardinality(ReevalLate') <= MaxReeval
      BY <1>2, <2>1, <2>10, <2>11
    <3> QED
      BY <3>1 DEF ReevalCapHolds, ReevalLate
  <2>14. ASSUME NEW q \in Evals, eval'[q].at = "closing", NEW i \in DOMAIN kids', kids'[i].by = "reeval",
                kids'[i].title \in eval'[q].news
         PROVE  ~LiveKid(kids'[i]) /\ Delivered(i)'
    <3>1. q = r
      BY <1>1, <2>6, <2>7, <2>14 DEF OneAtATime
    <3>2. kids'[i].title \in eval[r].news /\ kids'[i].title # t
      BY <2>6, <2>14, <3>1 DEF news
    <3>3. i \in DOMAIN kids /\ kids'[i] = kids[i]
      BY <2>3, <3>2
    <3>4. ~LiveKid(kids[i]) /\ Delivered(i)
      BY <1>1, <2>14, <3>2, <3>3 DEF NewsIsNew
    <3> QED
      BY <2>3, <3>3, <3>4, DeliveredStays
  <2> QED
    BY <2>7, <2>8, <2>9, <2>12, <2>13, <2>14 DEF NewsIsNew
<1> QED
  BY <1>3, <1>4

\* A draft is closed by the re-evaluation that then ends.
LEMMA CloseKept ==
    ASSUME EpicInv, NEW r \in Evals, CloseCovered(r)
    PROVE  EpicInv'
<1> USE EpicNumbers
<1> USE DEF EpicInv
<1>1. UNCHANGED <<epic, settled, break, sweep>> /\ eval[r].at = "closing" /\ eval' = [eval EXCEPT ![r] = NoEval]
  BY DEF CloseCovered
<1>2. NoEval \in EvalRec /\ NoEval.at = "idle"
  BY DEF NoEval, EvalRec
<1>3. eval' \in [Evals -> EvalRec] /\ (\A q \in Evals \ {r} : eval'[q] = eval[q]) /\ eval'[r].at = "idle"
  BY <1>1, <1>2 DEF EpicTypes
<1>4. OneAtATime'
  BY <1>1, <1>3, OneGoesOn
<1>5. kids' \in Seq(Kid) /\ Len(kids') = Len(kids) /\ CanonsExist' /\ Quiet
  <2>1. CASE UNCHANGED kids
    BY <1>3, <2>1, KidsSame DEF EpicTypes, CanonsExist
  <2>2. CASE kids' # kids
    <3>1. PICK i \in DOMAIN kids : kids[i].st = "draft" /\ kids' = [kids EXCEPT ![i].st = "nothing"]
      BY <2>2 DEF CloseCovered
    <3>2. /\ kids' \in Seq(Kid) /\ Len(kids') = Len(kids) /\ DOMAIN kids' = DOMAIN kids
          /\ Grows /\ CanonsExist' /\ ReevalLate' = ReevalLate
      BY <3>1, LiveChanges DEF LiveKid, Finished, KidStates
    <3> QED
      BY <1>3, <3>2 DEF Quiet
  <2> QED
    BY <2>1, <2>2
<1>6. EpicTypes'
  BY <1>1, <1>3, <1>5 DEF EpicTypes
<1> QED
  BY <1>4, <1>5, <1>6, QuietKept

LEMMA EpicInvStep == ~Overlaps /\ EpicInv /\ [ENext]_evars => EpicInv'
<1> SUFFICES ASSUME ~Overlaps, EpicInv, [ENext]_evars PROVE EpicInv'
  OBVIOUS
<1> USE EpicNumbers
<1> USE DEF EpicInv
<1> DEFINE BreakRec == [at : {"idle", "filing", "classify"}, news : SUBSET Titles]
           Others == Quiet /\ CanonsExist' /\ OneAtATime' /\ EpicTypes'
<1>0. Others => EpicInv'
  BY QuietKept
<1>1. CASE UNCHANGED kids /\ UNCHANGED eval /\ break' \in BreakRec /\ sweep' \in BOOLEAN /\ settled' \in BOOLEAN
           /\ epic' \in {"classifying", "open", "closed"}
  <2>1. Quiet
    BY <1>1, KidsSame
  <2>2. CanonsExist' /\ OneAtATime' /\ EpicTypes'
    BY <1>1 DEF CanonsExist, OneAtATime, EpicTypes
  <2> QED
    BY <1>0, <2>1, <2>2
<1>2. CASE UNCHANGED evars
  BY <1>1, <1>2 DEF evars, EpicTypes
<1>3. CASE Promote \/ BreakEnds \/ Breakdown
  <2>1. UNCHANGED <<kids, settled, eval, sweep>> /\ epic' \in {"classifying", "open", "closed"}
    BY <1>3 DEF Promote, BreakEnds, Breakdown, EpicTypes
  <2>2. break' \in BreakRec
    BY <1>3 DEF Promote, BreakEnds, Breakdown, NoBreak, Asked
  <2> QED
    BY <1>1, <2>1, <2>2 DEF EpicTypes
<1>4. CASE SweepLooks \/ SweepCloses \/ AbandonEpic
  BY <1>1, <1>4 DEF SweepLooks, SweepCloses, AbandonEpic, EpicTypes
<1>5. CASE ERestart
  <2>1. UNCHANGED <<epic, kids, settled>> /\ sweep' = FALSE /\ break' = NoBreak /\ eval' = [r \in Evals |-> NoEval]
    BY <1>5 DEF ERestart
  <2>2. NoEval \in EvalRec /\ NoEval.at = "idle" /\ break' \in BreakRec
    BY <2>1 DEF NoEval, NoBreak, EvalRec
  <2>3. eval' \in [Evals -> EvalRec] /\ \A r \in Evals : eval'[r].at = "idle"
    BY <2>1, <2>2
  <2>4. Quiet
    BY <2>1, <2>3, KidsSame
  <2>5. CanonsExist' /\ OneAtATime' /\ EpicTypes'
    BY <2>1, <2>2, <2>3 DEF CanonsExist, OneAtATime, EpicTypes
  <2> QED
    BY <1>0, <2>4, <2>5
<1>6. CASE FileKid
  <2>1. PICK t \in break.news : /\ kids' = Append(kids, NewKid(t, "breakdown"))
                                /\ break' = [break EXCEPT !.news = @ \ {t}]
    BY <1>6 DEF FileKid
  <2>2. t \in Titles /\ break' \in BreakRec /\ Len(kids) < MaxKids /\ UNCHANGED <<epic, settled, eval, sweep>>
    BY <1>6, <2>1 DEF FileKid, EpicTypes
  <2> DEFINE n == Len(kids')
  <2>3. /\ kids' \in Seq(Kid) /\ Len(kids') <= MaxKids
        /\ \A i \in DOMAIN kids : kids'[i] = kids[i]
        /\ DOMAIN kids' = DOMAIN kids \cup {n} /\ n \notin DOMAIN kids
        /\ kids'[n].by = "breakdown" /\ kids'[n].st = "draft" /\ Grows
    BY <2>1, <2>2, Appends
  <2> HIDE DEF n
  <2>4. ReevalLate' = ReevalLate
    BY <2>3, LateGrows
  <2>5. Quiet
    BY <2>2, <2>3, <2>4 DEF Quiet
  <2>6. CanonsExist'
    BY <2>3 DEF CanonsExist
  <2>7. OneAtATime' /\ EpicTypes'
    BY <2>2, <2>3 DEF OneAtATime, EpicTypes
  <2> QED
    BY <1>0, <2>5, <2>6, <2>7
<1>7. CASE \E i \in 1..MaxKids : KidEnds(i) \/ KidEndsAgain(i)
  <2>1. PICK i \in DOMAIN kids : KidEnds(i) \/ KidEndsAgain(i)
    BY <1>7 DEF KidEnds, KidEndsAgain
  <2>2. /\ eval' \in [Evals -> EvalRec] /\ OneAtATime' /\ UNCHANGED <<epic, settled, break, sweep>>
        /\ \A r \in Evals : eval'[r].at = "closing" => eval'[r] = eval[r]
    BY <2>1, TriggersKept DEF KidEnds, KidEndsAgain
  <2>3. kids' \in Seq(Kid) /\ Len(kids') = Len(kids) /\ CanonsExist' /\ Quiet
    <3>1. CASE KidEnds(i)
      <4>1. PICK how \in Finished, other \in ((DOMAIN kids) \ {i}) \cup {0} :
               /\ (how = "duplicate") <=> (other # 0)
               /\ kids' = [kids EXCEPT ![i].st = how, ![i].canon = other]
        BY <3>1 DEF KidEnds
      <4>2. how \in KidStates /\ other \in 0..MaxKids /\ (how = "duplicate" => other \in DOMAIN kids)
        BY <4>1 DEF KidStates, EpicTypes
      <4>3. LiveKid(kids[i])
        BY <3>1 DEF KidEnds, LiveKid, Finished
      <4>4. /\ kids' \in Seq(Kid) /\ Len(kids') = Len(kids) /\ DOMAIN kids' = DOMAIN kids
            /\ Grows /\ CanonsExist' /\ ReevalLate' = ReevalLate
        BY <4>1, <4>2, <4>3, OneChanges
      <4> QED
        BY <2>2, <4>4 DEF Quiet
    <3>2. CASE KidEndsAgain(i)
      <4>1. UNCHANGED kids
        BY <3>2 DEF KidEndsAgain
      <4> QED
        BY <2>2, <4>1, KidsSame DEF EpicTypes, CanonsExist
    <3> QED
      BY <2>1, <3>1, <3>2
  <2> QED
    BY <1>0, <2>2, <2>3 DEF EpicTypes
<1>8. CASE \E i \in 1..MaxKids : KidStarts(i)
  <2>1. PICK i \in DOMAIN kids : KidStarts(i)
    BY <1>8 DEF KidStarts
  <2>2. kids[i].st = "draft" /\ kids[i] \in Kid /\ kids' = [kids EXCEPT ![i].st = "working"]
    BY <2>1 DEF KidStarts, EpicTypes
  <2>3. /\ kids' \in Seq(Kid) /\ Len(kids') = Len(kids) /\ DOMAIN kids' = DOMAIN kids
        /\ Grows /\ CanonsExist' /\ ReevalLate' = ReevalLate
    BY <2>2, LiveChanges DEF LiveKid, Finished, KidStates
  <2>4. Quiet
    BY <2>1, <2>3 DEF KidStarts, Quiet
  <2>5. OneAtATime' /\ EpicTypes'
    BY <2>1, <2>3 DEF KidStarts, OneAtATime, EpicTypes
  <2> QED
    BY <1>0, <2>3, <2>4, <2>5
<1>9. CASE WindowPasses
  <2>1. settled' = TRUE /\ kids' = [i \in DOMAIN kids |-> [kids[i] EXCEPT !.fresh = FALSE]]
        /\ UNCHANGED <<epic, eval, break, sweep>>
    BY <1>9 DEF WindowPasses
  <2>2. \A i \in DOMAIN kids : /\ kids'[i] \in Kid /\ kids'[i].title = kids[i].title /\ kids'[i].by = kids[i].by
                               /\ kids'[i].late = kids[i].late /\ kids'[i].st = kids[i].st
                               /\ kids'[i].canon = kids[i].canon
    <3>1. ASSUME NEW k \in Kid
          PROVE  /\ [k EXCEPT !.fresh = FALSE] \in Kid /\ [k EXCEPT !.fresh = FALSE].title = k.title
                 /\ [k EXCEPT !.fresh = FALSE].by = k.by /\ [k EXCEPT !.fresh = FALSE].late = k.late
                 /\ [k EXCEPT !.fresh = FALSE].st = k.st /\ [k EXCEPT !.fresh = FALSE].canon = k.canon
      BY DEF Kid
    <3> TAKE i \in DOMAIN kids
    <3>2. kids[i] \in Kid
      BY DEF EpicTypes
    <3>3. kids'[i] = [kids[i] EXCEPT !.fresh = FALSE]
      BY <2>1
    <3> QED
      BY <3>1, <3>2, <3>3
  <2>3. DOMAIN kids' = DOMAIN kids /\ kids' \in [DOMAIN kids -> Kid]
    BY <2>1, <2>2
  <2>4. kids' \in Seq(Kid) /\ Len(kids') = Len(kids)
    BY <2>3, KidsMapped
  <2>5. Grows
    BY <2>2, <2>3, <2>4 DEF Grows, EpicTypes
  <2>6. ReevalLate' = ReevalLate
    BY <2>2, <2>3 DEF ReevalLate
  <2>7. CanonsExist'
    BY <2>2, <2>3 DEF CanonsExist
  <2>8. Quiet
    BY <2>1, <2>3, <2>5, <2>6 DEF Quiet
  <2>9. OneAtATime' /\ EpicTypes'
    BY <2>1, <2>4 DEF OneAtATime, EpicTypes
  <2> QED
    BY <1>0, <2>7, <2>8, <2>9
<1>10. CASE \E r \in Evals : Decide(r)
  <2>1. PICK r \in Evals : Decide(r)
    BY <1>10
  <2>2. PICK news \in SUBSET Titles : eval' = [eval EXCEPT ![r].at = "filing", ![r].news = news]
    BY <2>1 DEF Decide
  <2>3. /\ eval' \in [Evals -> EvalRec] /\ (\A q \in Evals \ {r} : eval'[q] = eval[q]) /\ eval'[r].at = "filing"
    BY <2>2 DEF EpicTypes, EvalRec
  <2>4. UNCHANGED <<kids, settled, break, sweep>> /\ eval[r].at # "idle" /\ epic' \in {"classifying", "open", "closed"}
    BY <2>1 DEF Decide, EpicTypes
  <2>5. Quiet
    BY <2>3, <2>4, KidsSame
  <2>6. OneAtATime'
    BY <2>3, <2>4, OneGoesOn
  <2>7. CanonsExist' /\ EpicTypes'
    BY <2>3, <2>4 DEF CanonsExist, EpicTypes
  <2> QED
    BY <1>0, <2>5, <2>6, <2>7
<1>11. CASE \E r \in Evals : ListKids(r) \/ FileNew(r) \/ CloseCovered(r)
  BY <1>11, ListKept, FileKept, CloseKept
<1> QED
  BY <1>2, <1>3, <1>4, <1>5, <1>6, <1>7, <1>8, <1>9, <1>10, <1>11 DEF ENext

\* The inductive invariant of an epic, with one re-evaluation at a time: the
\* count each files by covers what all have filed, and what it has still to file
\* none filed before without delivering it.
THEOREM EpicInvariant == ~Overlaps => (ESpec => []EpicInv)
<1>1. ~Overlaps /\ EpicInv /\ [ENext]_evars => EpicInv'
  BY EpicInvStep
<1> SUFFICES ASSUME ~Overlaps PROVE ESpec => []EpicInv
  OBVIOUS
<1>2. EpicInv /\ [ENext]_evars => EpicInv'
  BY <1>1
<1> QED
  BY <1>2, EpicInvInit, PTL DEF ESpec

LEMMA SameNumber ==
    ASSUME EpicTypes, EpicTypes', DOMAIN kids' = DOMAIN kids
    PROVE  ~(Len(kids') > Len(kids))
<1>1. /\ Len(kids) \in Nat /\ DOMAIN kids = 1..Len(kids)
      /\ Len(kids') \in Nat /\ DOMAIN kids' = 1..Len(kids')
  BY DEF EpicTypes
<1> SUFFICES ASSUME Len(kids') > Len(kids) PROVE FALSE
  OBVIOUS
<1>2. Len(kids') \in 1..Len(kids')
  BY <1>1
<1> QED
  BY <1>1, <1>2

\* A child appears only by the filing of a breakdown or of a re-evaluation, and
\* no other step makes a draft nothing than the closing of a covered one.
LEMMA KidChanges ==
    ASSUME EpicInv, [ENext]_evars
    PROVE  \/ \E t \in Titles : Len(kids) < MaxKids /\ kids' = Append(kids, NewKid(t, "breakdown"))
           \/ \E r \in Evals : FileNew(r) \/ CloseCovered(r)
           \/ /\ DOMAIN kids' = DOMAIN kids
              /\ \A i \in DOMAIN kids : kids[i].st = "draft" => kids'[i].st # "nothing"
<1> DEFINE Still == /\ DOMAIN kids' = DOMAIN kids
                    /\ \A i \in DOMAIN kids : kids[i].st = "draft" => kids'[i].st # "nothing"
<1>1. ASSUME UNCHANGED kids PROVE Still
  BY <1>1
<1>2. CASE UNCHANGED evars
  BY <1>1, <1>2 DEF evars
<1>3. CASE Promote \/ BreakEnds \/ Breakdown \/ SweepLooks \/ SweepCloses \/ AbandonEpic \/ ERestart
  BY <1>1, <1>3 DEF Promote, BreakEnds, Breakdown, SweepLooks, SweepCloses, AbandonEpic, ERestart
<1>4. CASE FileKid
  <2>1. PICK t \in break.news : kids' = Append(kids, NewKid(t, "breakdown"))
    BY <1>4 DEF FileKid
  <2>2. t \in Titles /\ Len(kids) < MaxKids
    BY <1>4, <2>1 DEF FileKid, EpicInv, EpicTypes
  <2> QED
    BY <2>1, <2>2
<1>5. ASSUME NEW i \in 1..MaxKids, KidEnds(i) PROVE Still
  <2>1. i \in DOMAIN kids /\ kids[i].st = "working"
    BY <1>5 DEF KidEnds
  <2>2. PICK how \in Finished, other \in ((DOMAIN kids) \ {i}) \cup {0} :
            kids' = [kids EXCEPT ![i].st = how, ![i].canon = other]
    BY <1>5 DEF KidEnds
  <2> QED
    BY <2>1, <2>2
<1>6. ASSUME NEW i \in 1..MaxKids, KidEndsAgain(i) PROVE Still
  BY <1>1, <1>6 DEF KidEndsAgain
<1>7. ASSUME NEW i \in 1..MaxKids, KidStarts(i) PROVE Still
  <2>1. i \in DOMAIN kids /\ kids' = [kids EXCEPT ![i].st = "working"] /\ kids[i] \in Kid
    BY <1>7 DEF KidStarts, EpicInv, EpicTypes
  <2>2. kids'[i].st = "working"
    BY <2>1 DEF Kid
  <2> QED
    BY <2>1, <2>2
<1>8. CASE WindowPasses
  <2>1. kids' = [i \in DOMAIN kids |-> [kids[i] EXCEPT !.fresh = FALSE]]
    BY <1>8 DEF WindowPasses
  <2>2. ASSUME NEW i \in DOMAIN kids PROVE kids'[i].st = kids[i].st
    <3>1. kids[i] \in Kid
      BY DEF EpicInv, EpicTypes
    <3> QED
      BY <2>1, <3>1 DEF Kid
  <2> QED
    BY <2>1, <2>2
<1>9. CASE \E r \in Evals : Decide(r) \/ ListKids(r)
  BY <1>1, <1>9 DEF Decide, ListKids
<1> QED
  BY <1>2, <1>3, <1>4, <1>5, <1>6, <1>7, <1>8, <1>9 DEF ENext

\* A re-evaluation files what none filed before, unless that was delivered.
LEMMA FilesNoRepeat ==
    ASSUME EpicInv, EpicInv', [ENext]_evars, Len(kids') > Len(kids), kids'[Len(kids')].by = "reeval",
           NEW i \in DOMAIN kids, kids[i].title = kids'[Len(kids')].title, kids[i].by = "reeval"
    PROVE  Delivered(i)
<1> USE EpicNumbers
<1>1. EpicTypes /\ EpicTypes'
  BY DEF EpicInv
<1>2. DOMAIN kids' # DOMAIN kids
  BY <1>1, SameNumber
<1>3. CASE \E t \in Titles : Len(kids) < MaxKids /\ kids' = Append(kids, NewKid(t, "breakdown"))
  <2>1. kids'[Len(kids')].by = "breakdown"
    BY <1>1, <1>3, Appends
  <2> QED
    BY <2>1
<1>4. ASSUME NEW r \in Evals, CloseCovered(r) PROVE FALSE
  <2>1. DOMAIN kids' = DOMAIN kids
    BY <1>4 DEF CloseCovered
  <2> QED
    BY <1>2, <2>1
<1>5. ASSUME NEW r \in Evals, FileNew(r) PROVE Delivered(i)
  <2>1. PICK t \in eval[r].news :
           UNCHANGED kids \/ (Len(kids) < MaxKids /\ kids' = Append(kids, NewKid(t, "reeval")))
    BY <1>5 DEF FileNew
  <2>2. Len(kids) < MaxKids /\ kids' = Append(kids, NewKid(t, "reeval"))
    BY <1>2, <2>1
  <2>3. t \in Titles /\ eval[r].at = "closing"
    BY <1>1, <1>5, <2>1 DEF EpicTypes, EvalRec, FileNew
  <2>4. kids'[Len(kids')].title = t
    BY <1>1, <2>2, <2>3, Appends
  <2> QED
    BY <2>3, <2>4 DEF EpicInv, NewsIsNew
<1> QED
  BY <1>2, <1>3, <1>4, <1>5, KidChanges

\* What is closed as covered has a merged child behind it.
LEMMA CoversMerged ==
    ASSUME EpicInv, [ENext]_evars, NEW i \in DOMAIN kids, kids[i].st = "draft", kids'[i].st = "nothing"
    PROVE  \E j \in DOMAIN kids : kids[j].st = "merged"
<1> USE EpicNumbers
<1>1. EpicTypes /\ CanonsExist
  BY DEF EpicInv
<1>2. ASSUME NEW t \in Titles, NEW who \in {"breakdown", "reeval"}, Len(kids) < MaxKids,
             kids' = Append(kids, NewKid(t, who))
      PROVE  FALSE
  BY <1>1, <1>2, Appends
<1>3. ASSUME UNCHANGED kids PROVE FALSE
  BY <1>3
<1>4. ASSUME NEW r \in Evals, FileNew(r) PROVE FALSE
  <2>1. PICK t \in eval[r].news :
           UNCHANGED kids \/ (Len(kids) < MaxKids /\ kids' = Append(kids, NewKid(t, "reeval")))
    BY <1>4 DEF FileNew
  <2>2. t \in Titles
    BY <1>1, <2>1 DEF EpicTypes, EvalRec
  <2> QED
    BY <1>2, <1>3, <2>1, <2>2
<1>5. ASSUME NEW r \in Evals, CloseCovered(r) PROVE \E j \in DOMAIN kids : kids[j].st = "merged"
  <2>1. PICK cover \in DOMAIN kids : Delivered(cover)
    BY <1>3, <1>5 DEF CloseCovered
  <2>2. FollowsDuplicates(DOMAIN kids)
    BY <1>1 DEF FollowsDuplicates, CanonsExist
  <2> QED
    BY <2>1, <2>2 DEF Delivered
<1> QED
  BY <1>2, <1>4, <1>5, KidChanges

\* Re-evaluation as the run checks it, for any titles, children and caps: it is
\* bounded and files nothing anew, and nothing is closed as covered without a
\* delivery.
THEOREM ReevaluationAlwaysSound == ~Overlaps => (ESpec => ReevaluationIsSound)
<1> SUFFICES ASSUME ~Overlaps PROVE ESpec => ReevaluationIsSound
  OBVIOUS
<1>1. ESpec => []EpicInv
  BY EpicInvariant
<1>2. EpicInv /\ EpicInv' /\ [ENext]_evars =>
        (Len(kids') > Len(kids) /\ kids'[Len(kids')].by = "reeval" =>
          \A i \in DOMAIN kids :
              (kids[i].title = kids'[Len(kids')].title /\ kids[i].by = "reeval") => Delivered(i))
  BY FilesNoRepeat
<1>3. EpicInv /\ [ENext]_evars =>
        \A i \in DOMAIN kids : (kids[i].st = "draft" /\ kids'[i].st = "nothing")
          => \E j \in DOMAIN kids : kids[j].st = "merged"
  BY CoversMerged
<1>4. EpicInv => ReevalCapHolds
  BY DEF EpicInv
<1>5. ESpec => []ReevalCapHolds
  BY <1>1, <1>4, PTL
<1>6. ESpec => ReevalFilesNoRepeat
  BY <1>1, <1>2, PTL DEF ESpec, ReevalFilesNoRepeat
<1>7. ESpec => CoveredIsMerged
  BY <1>1, <1>3, PTL DEF ESpec, CoveredIsMerged
<1> QED
  BY <1>5, <1>6, <1>7 DEF ReevaluationIsSound, ReevalIsBounded

-----------------------------------------------------------------------------
(* The dependencies of an epic's children.  PlanIsSound is about the plan    *)
(* once it is there; what it needs of the way to it is what each pair has    *)
(* added to the edges, and what later pairs leave of that (CrossEdges).      *)
(* That nothing waits for itself takes no induction along the edges: what    *)
(* comes before a child is a closed set without it (Before).                 *)
\* What the pairs treated so far have added to the edges: a bump waits for its
\* producers, a consumer for the bump of some pair it consumes for.
CrossEdges ==
  /\ cross \in [DepNodes -> SUBSET DepNodes] /\ cross[Predecessor] = {}
  /\ \A p \in bumps : cross[Bump(p)] = Producers(p)
  /\ \A k \in Kids : \A z \in cross[k] : \E p \in bumps : k \in Consumers(p) /\ z = Bump(p)
  /\ \A k \in Kids : \A p \in bumps : k \in Consumers(p) => cross[k] # {}

PlanInv ==
  /\ repo \in [Kids -> DepRepos] /\ needs \in [Kids -> SUBSET DepRepos]
  /\ init \in 0..NumChildren /\ after \in BOOLEAN
  /\ todo \subseteq Candidates /\ bumps \subseteq Candidates
  /\ CrossEdges

LEMMA ProductGrows == ASSUME NEW a \in Nat, NEW b \in Nat, NEW n \in Nat, a <= b PROVE a * n <= b * n
<1>1. PICK d \in Nat : b = a + d
  <2>1. b - a \in Nat /\ b = a + (b - a)
    OBVIOUS
  <2> QED
    BY <2>1
<1>2. b * n = a * n + d * n /\ d * n \in Nat /\ a * n \in Nat
  BY <1>1
<1> QED
  BY <1>2

LEMMA PairOrder ==
    ASSUME NEW a \in 1..NumRepos, NEW b \in 1..NumRepos, NEW c \in 1..NumRepos, NEW d \in 1..NumRepos, a < c
    PROVE  (a - 1) * NumRepos + b < (c - 1) * NumRepos + d
<1>1. NumRepos \in Nat
  BY ChildAssumption
<1>2. (a - 1) * NumRepos + NumRepos = a * NumRepos
  BY <1>1
<1>3. a * NumRepos <= (c - 1) * NumRepos
  BY <1>1, ProductGrows
<1>4. (a - 1) * NumRepos \in Nat /\ (c - 1) * NumRepos \in Nat /\ a * NumRepos \in Nat
  BY <1>1
<1> QED
  BY <1>1, <1>2, <1>3, <1>4

LEMMA BumpsDiffer ==
    /\ \A p \in Pairs : Bump(p) \in Nat /\ Bump(p) > NumChildren /\ Bump(p) \in DepNodes
    /\ \A p, q \in Pairs : Bump(p) = Bump(q) => p = q
    /\ NumChildren \in Nat /\ NumRepos \in Nat /\ Predecessor \notin Kids /\ Kids \subseteq DepNodes /\ Predecessor \in DepNodes
<1>1. NumChildren \in Nat /\ NumRepos \in Nat
  BY ChildAssumption
<1>2. ASSUME NEW p \in Pairs PROVE Bump(p) \in Nat /\ Bump(p) > NumChildren /\ Bump(p) \in DepNodes
  <2>1. p[1] \in 1..NumRepos /\ p[2] \in 1..NumRepos
    BY DEF Pairs, DepRepos
  <2>2. (p[1] - 1) * NumRepos \in Nat
    BY <1>1, <2>1
  <2> QED
    BY <1>1, <2>1, <2>2 DEF Bump, DepNodes
<1>3. ASSUME NEW p \in Pairs, NEW q \in Pairs, Bump(p) = Bump(q) PROVE p = q
  <2>1. p = <<p[1], p[2]>> /\ q = <<q[1], q[2]>> /\ {p[1], p[2], q[1], q[2]} \subseteq 1..NumRepos
    BY DEF Pairs, DepRepos
  <2>2. (p[1] - 1) * NumRepos \in Nat /\ (q[1] - 1) * NumRepos \in Nat
    BY <1>1, <2>1
  <2> DEFINE P == (p[1] - 1) * NumRepos
             Q == (q[1] - 1) * NumRepos
  <2>3. P + p[2] = Q + q[2]
    <3> HIDE DEF P, Q
    <3>1. NumChildren + P + p[2] = NumChildren + Q + q[2]
      BY <1>3 DEF Bump, P, Q
    <3>2. P \in Nat /\ Q \in Nat
      BY <2>2 DEF P, Q
    <3> QED
      BY <1>1, <2>1, <3>1, <3>2
  <2>4. ~(p[1] < q[1]) /\ ~(q[1] < p[1])
    <3>1. ASSUME p[1] < q[1] PROVE FALSE
      <4>1. P + p[2] < Q + q[2]
        BY <2>1, <3>1, PairOrder
      <4>2. P \in Nat /\ Q \in Nat
        BY <2>2
      <4> HIDE DEF P, Q
      <4> QED
        BY <2>1, <2>3, <4>1, <4>2
    <3>2. ASSUME q[1] < p[1] PROVE FALSE
      <4>1. Q + q[2] < P + p[2]
        BY <2>1, <3>2, PairOrder
      <4>2. P \in Nat /\ Q \in Nat
        BY <2>2
      <4> HIDE DEF P, Q
      <4> QED
        BY <2>1, <2>3, <4>1, <4>2
    <3> QED
      BY <3>1, <3>2
  <2>5. p[1] = q[1]
    BY <2>1, <2>4
  <2>6. p[2] = q[2]
    <3>1. P = Q /\ P \in Nat
      BY <2>2, <2>5
    <3> HIDE DEF P, Q
    <3> QED
      BY <2>1, <2>3, <3>1
  <2> QED
    BY <2>1, <2>5, <2>6
<1>4. Predecessor \notin Kids /\ Kids \subseteq DepNodes /\ Predecessor \in DepNodes
  BY <1>1 DEF Predecessor, Kids, DepNodes
<1> QED
  BY <1>1, <1>2, <1>3, <1>4

LEMMA PlanStart == DepInit => PlanInv
<1> SUFFICES ASSUME DepInit PROVE PlanInv
  OBVIOUS
<1>1. repo \in [Kids -> DepRepos] /\ needs \in [Kids -> SUBSET DepRepos]
  BY DEF DepInit
<1>2. CrossEdges
  BY BumpsDiffer DEF DepInit, CrossEdges, NoEdges
<1> QED
  BY <1>1, <1>2 DEF DepInit, PlanInv

LEMMA SameWorld == ASSUME UNCHANGED <<repo, needs>>
                   PROVE  /\ Candidates' = Candidates /\ \A p : Consumers(p)' = Consumers(p) /\ Producers(p)' = Producers(p)
  BY DEF Candidates, Consumers, Producers

LEMMA CreateBumpKept == ASSUME PlanInv, NEW p \in Pairs, CreateBump(p) PROVE PlanInv'
<1>1. /\ p \in Candidates /\ todo' = todo \ {p} /\ bumps' = bumps \cup {p} /\ cross' = Updated(cross, BumpEdges(p))
      /\ UNCHANGED <<repo, needs, init, after>> /\ Producers(p) # {} /\ p \in Pairs
  BY DEF CreateBump, PlanInv, Candidates
<1>2. bumps \subseteq Pairs /\ Kids \subseteq DepNodes /\ Producers(p) \subseteq Kids /\ Consumers(p) \subseteq Kids
  BY BumpsDiffer DEF PlanInv, Candidates, Producers, Consumers
<1>3. Candidates' = Candidates /\ \A q : Consumers(q)' = Consumers(q) /\ Producers(q)' = Producers(q)
  BY <1>1, SameWorld
<1>4. \A x \in DepNodes : BumpEdges(p)[x] = IF x = Bump(p) THEN Producers(p)
                                            ELSE IF x \in Consumers(p) THEN {Bump(p)} ELSE {}
  BY DEF BumpEdges
<1>5. \A x \in DepNodes : cross'[x] = IF BumpEdges(p)[x] # {} THEN BumpEdges(p)[x] ELSE cross[x]
  BY <1>1 DEF Updated
<1>6. cross' = [x \in DepNodes |-> cross'[x]]
  BY <1>1 DEF Updated
<1>7. \A q \in Pairs : Bump(q) \notin Kids /\ Bump(q) # Predecessor /\ Bump(q) \in DepNodes
  BY BumpsDiffer DEF Kids, Predecessor
<1>8. CrossEdges'
  <2>1. cross' \in [DepNodes -> SUBSET DepNodes]
    <3>1. \A x \in DepNodes : cross'[x] \subseteq DepNodes
      BY <1>1, <1>2, <1>4, <1>5, <1>7 DEF PlanInv, CrossEdges
    <3> QED
      BY <1>6, <3>1
  <2>2. cross'[Predecessor] = {}
    BY <1>1, <1>2, <1>4, <1>5, <1>7, BumpsDiffer DEF PlanInv, CrossEdges
  <2>3. \A q \in bumps' : cross'[Bump(q)] = Producers(q)
    <3> SUFFICES ASSUME NEW q \in bumps' PROVE cross'[Bump(q)] = Producers(q)
      OBVIOUS
    <3>1. q \in Pairs /\ Bump(q) \in DepNodes /\ Bump(q) \notin Consumers(p)
      BY <1>1, <1>2, <1>7
    <3>2. CASE q = p
      BY <1>1, <1>4, <1>5, <3>1, <3>2
    <3>3. CASE q # p
      <4>1. Bump(q) # Bump(p) /\ q \in bumps
        BY <1>1, <3>1, <3>3, BumpsDiffer
      <4>2. cross'[Bump(q)] = cross[Bump(q)]
        BY <1>4, <1>5, <3>1, <4>1
      <4> QED
        BY <4>1, <4>2 DEF PlanInv, CrossEdges
    <3> QED
      BY <3>2, <3>3
  <2>4. ASSUME NEW k \in Kids
        PROVE  /\ \A z \in cross'[k] : \E q \in bumps' : k \in Consumers(q) /\ z = Bump(q)
               /\ \A q \in bumps' : k \in Consumers(q) => cross'[k] # {}
    <3>1. k \in DepNodes /\ k # Bump(p)
      BY <1>1, <1>2, <1>7
    <3>2. CASE k \in Consumers(p)
      <4>1. cross'[k] = {Bump(p)}
        BY <1>4, <1>5, <3>1, <3>2
      <4> QED
        BY <1>1, <3>2, <4>1
    <3>3. CASE k \notin Consumers(p)
      <4>1. cross'[k] = cross[k]
        BY <1>4, <1>5, <3>1, <3>3
      <4> QED
        BY <1>1, <3>3, <4>1 DEF PlanInv, CrossEdges
    <3> QED
      BY <3>2, <3>3
  <2> QED
    BY <1>3, <2>1, <2>2, <2>3, <2>4 DEF CrossEdges, Predecessor, DepNodes, Kids, Bump, Pairs, DepRepos
<1> QED
  BY <1>1, <1>3, <1>8 DEF PlanInv

LEMMA PlanStep == ASSUME PlanInv, [DepNext]_depvars PROVE PlanInv'
<1>1. ASSUME NEW p \in Pairs, BumpFails(p) PROVE PlanInv'
  BY <1>1, SameWorld DEF BumpFails, PlanInv, CrossEdges
<1>2. CASE Planned \/ UNCHANGED depvars
  BY <1>2, SameWorld DEF Planned, depvars, PlanInv, CrossEdges
<1> QED
  BY <1>1, <1>2, CreateBumpKept DEF DepNext

\* What is waited for directly is waited for, and what one of these waits for.
LEMMA WaitsForNext ==
    ASSUME NEW x, plan[x] \subseteq PlanNodes
    PROVE  /\ plan[x] \subseteq ChildWaitsFor(x)
           /\ \A y \in plan[x] : plan[y] \subseteq PlanNodes => plan[y] \subseteq ChildWaitsFor(x)
  BY DEF ChildWaitsFor, ClosedUnder

\* What is outside of a closed set is not waited for.
LEMMA OutsideClosed ==
    ASSUME NEW x, NEW S \in SUBSET PlanNodes, plan[x] \subseteq S, ClosedUnder(S), x \notin S
    PROVE  x \notin ChildWaitsFor(x)
  BY DEF ChildWaitsFor

\* The edges of a plan, one kind of ticket at a time.
LEMMA PlannedEdges ==
    ASSUME PlanInv, IsPlanned
    PROVE  /\ \A x \in DepNodes : plan[x] = BaseEdges[x] \cup cross[x]
           /\ plan[Predecessor] = {} /\ \A p \in bumps : p \in Pairs /\ plan[Bump(p)] = Producers(p)
           /\ init # 0 => \A k \in Kids : plan[k] = (IF k = init THEN IF after THEN {Predecessor} ELSE {} ELSE {init}) \cup cross[k]
           /\ init = 0 => \A k \in Kids : plan[k] = (IF k = 1 THEN IF after THEN {Predecessor} ELSE {} ELSE {k - 1}) \cup cross[k]
<1>1. \A x \in DepNodes : plan[x] = BaseEdges[x] \cup cross[x]
  BY DEF IsPlanned, Merged
<1>2. \A x \in DepNodes : x \notin Kids => BaseEdges[x] = {}
  BY DEF BaseEdges, StarEdges, ChainEdges
<1>3. bumps \subseteq Pairs
  BY DEF PlanInv, Candidates
<1>4. \A p \in Pairs : Bump(p) \notin Kids /\ Bump(p) \in DepNodes
  BY BumpsDiffer DEF Kids
<1>5. plan[Predecessor] = {}
  BY <1>1, <1>2, BumpsDiffer DEF PlanInv, CrossEdges
<1>6. \A p \in bumps : plan[Bump(p)] = Producers(p)
  BY <1>1, <1>2, <1>3, <1>4 DEF PlanInv, CrossEdges
<1>7. init # 0 => \A k \in Kids : BaseEdges[k] = IF k = init THEN IF after THEN {Predecessor} ELSE {} ELSE {init}
  BY BumpsDiffer DEF BaseEdges, StarEdges
<1>8. init = 0 => \A k \in Kids : BaseEdges[k] = IF k = 1 THEN IF after THEN {Predecessor} ELSE {} ELSE {k - 1}
  BY BumpsDiffer DEF BaseEdges, ChainEdges
<1> QED
  BY <1>1, <1>3, <1>5, <1>6, <1>7, <1>8, BumpsDiffer

LEMMA PlanWithin ==
    ASSUME PlanInv, IsPlanned
    PROVE  /\ \A k \in Kids : plan[k] \subseteq PlanNodes
           /\ \A p \in bumps : plan[Bump(p)] \subseteq PlanNodes
<1>1. \A p \in bumps : Producers(p) \subseteq PlanNodes
  BY DEF Producers, PlanNodes
<1>2. \A k \in Kids : cross[k] \subseteq PlanNodes
  BY DEF PlanInv, CrossEdges, PlanNodes
<1>3. \A k \in Kids : k # 1 => k - 1 \in PlanNodes
  BY BumpsDiffer DEF Kids, PlanNodes
<1>4. Predecessor \in PlanNodes /\ (init # 0 => init \in PlanNodes)
  BY BumpsDiffer DEF PlanInv, PlanNodes, Kids
<1> QED
  BY <1>1, <1>2, <1>3, <1>4, PlannedEdges

LEMMA PopulatorsWait == PlanInv => PopulatorsWaitForInit
<1> SUFFICES ASSUME PlanInv, IsPlanned, init # 0, NEW k \in Kids \ {init} PROVE init \in ChildWaitsFor(k)
  BY DEF PopulatorsWaitForInit
<1>1. init \in plan[k] /\ plan[k] \subseteq PlanNodes
  BY PlannedEdges, PlanWithin
<1> QED
  BY <1>1, WaitsForNext

LEMMA BumpsBetween == PlanInv => BumpsAreInBetween
<1> SUFFICES ASSUME PlanInv, IsPlanned, NEW p \in bumps
             PROVE  Producers(p) \subseteq ChildWaitsFor(Bump(p)) /\ \E k \in Kids : k \in Consumers(p)
  BY DEF BumpsAreInBetween
<1>1. Producers(p) \subseteq ChildWaitsFor(Bump(p))
  BY PlannedEdges, PlanWithin, WaitsForNext
<1>2. Consumers(p) # {} /\ Consumers(p) \subseteq Kids
  BY DEF PlanInv, Candidates, Consumers
<1> QED
  BY <1>1, <1>2

\* In order, what comes before a child has only edges to what comes before.
Before(k) == {y \in PlanNodes : \/ y \in Kids /\ y < k
                                \/ y = Predecessor
                                \/ \E q \in bumps : y = Bump(q) /\ \A i \in Producers(q) : i < k}

LEMMA BeforeClosed ==
    ASSUME PlanInv, IsPlanned, InOrder, init = 0, NEW k \in Kids
    PROVE  ClosedUnder(Before(k)) /\ plan[k] \subseteq Before(k) /\ k \notin Before(k)
<1>1. k \in Nat /\ NumChildren \in Nat /\ Kids \subseteq Nat /\ \A j \in Kids : j >= 1
  BY BumpsDiffer DEF Kids
<1>2. ASSUME NEW j \in Kids, j <= k PROVE plan[j] \subseteq Before(k)
  <2>1. ASSUME NEW z \in cross[j] PROVE z \in Before(k)
    <3>1. PICK q \in bumps : j \in Consumers(q) /\ z = Bump(q)
      BY DEF PlanInv, CrossEdges
    <3>2. \A i \in Producers(q) : i \in Kids /\ i < j
      BY <3>1 DEF InOrder, Producers, Consumers
    <3>3. ASSUME NEW i \in Producers(q) PROVE i < k
      <4>1. i \in Nat /\ j \in Nat /\ i < j
        BY <1>1, <3>2
      <4> QED
        BY <1>1, <1>2, <4>1
    <3> QED
      BY <3>1, <3>3 DEF Before, PlanNodes
  <2>2. Predecessor \in Before(k)
    BY DEF Before, PlanNodes
  <2>3. j # 1 => j - 1 \in Before(k)
    <3>1. j # 1 => j - 1 \in Kids /\ j - 1 < k
      BY <1>1, <1>2 DEF Kids
    <3> QED
      BY <3>1 DEF Before, PlanNodes
  <2> QED
    BY <2>1, <2>2, <2>3, PlannedEdges
<1>3. ASSUME NEW q \in bumps, \A i \in Producers(q) : i < k PROVE plan[Bump(q)] \subseteq Before(k)
  BY <1>3, PlannedEdges DEF Before, Producers, PlanNodes
<1>4. ClosedUnder(Before(k))
  <2> SUFFICES ASSUME NEW y \in Before(k) PROVE plan[y] \subseteq Before(k)
    BY DEF ClosedUnder
  <2>1. CASE y \in Kids /\ y < k
    BY <1>1, <1>2, <2>1
  <2>2. CASE y = Predecessor
    BY <2>2, PlannedEdges
  <2>3. CASE \E q \in bumps : y = Bump(q) /\ \A i \in Producers(q) : i < k
    BY <1>3, <2>3
  <2> QED
    BY <2>1, <2>2, <2>3 DEF Before
<1>5. k \notin Before(k)
  <2>1. k # Predecessor /\ ~(k < k) /\ \A q \in bumps : k # Bump(q)
    BY <1>1, BumpsDiffer, PlannedEdges DEF Kids
  <2> QED
    BY <2>1 DEF Before
<1> QED
  BY <1>1, <1>2, <1>4, <1>5

\* In order, no ticket of the plan waits for itself.
LEMMA OrderlyIsAcyclic ==
    ASSUME PlanInv, IsPlanned, InOrder, init = 0, NEW x \in DepNodes
    PROVE  x \notin ChildWaitsFor(x)
<1>1. CASE x \in Kids
  <2>1. Before(x) \in SUBSET PlanNodes
    BY DEF Before
  <2> QED
    BY <1>1, <2>1, BeforeClosed, OutsideClosed
<1>2. CASE x = Predecessor
  <2>1. {} \in SUBSET PlanNodes /\ plan[x] \subseteq {} /\ ClosedUnder({})
    BY <1>2, PlannedEdges DEF ClosedUnder
  <2> QED
    BY <2>1, OutsideClosed
<1>3. ASSUME NEW p \in bumps, x = Bump(p) PROVE x \notin ChildWaitsFor(x)
  <2> DEFINE S == {y \in PlanNodes : y \in Producers(p) \/ \E j \in Producers(p) : y \in Before(j)}
  <2>1. Producers(p) \subseteq Kids /\ Kids \subseteq Nat /\ Kids \subseteq PlanNodes
    BY BumpsDiffer DEF Producers, Kids, PlanNodes
  <2>2. S \in SUBSET PlanNodes
    OBVIOUS
  <2>3. plan[x] \subseteq S
    <3>1. plan[x] = Producers(p)
      BY <1>3, PlannedEdges
    <3> QED
      BY <2>1, <3>1
  <2>4. ClosedUnder(S)
    <3> SUFFICES ASSUME NEW y \in S PROVE plan[y] \subseteq S
      BY DEF ClosedUnder
    <3>1. PICK j \in Producers(p) : y = j \/ y \in Before(j)
      OBVIOUS
    <3>2. ClosedUnder(Before(j)) /\ plan[j] \subseteq Before(j)
      BY <2>1, BeforeClosed
    <3>3. plan[y] \subseteq Before(j)
      BY <3>1, <3>2 DEF ClosedUnder
    <3>4. Before(j) \subseteq S
      BY DEF Before
    <3> QED
      BY <3>3, <3>4
  <2>5. x \notin S
    <3>1. p \in Pairs /\ x \notin Kids /\ x # Predecessor
      BY <1>3, PlannedEdges, BumpsDiffer DEF Kids, Predecessor
    <3>2. ASSUME NEW j \in Producers(p), x \in Before(j) PROVE FALSE
      <4>1. PICK q \in bumps : x = Bump(q) /\ \A i \in Producers(q) : i < j
        BY <3>1, <3>2 DEF Before
      <4>2. q = p
        BY <1>3, <3>1, <4>1, PlannedEdges, BumpsDiffer
      <4>3. j < j /\ j \in Nat
        BY <2>1, <4>1, <4>2
      <4> QED
        BY <4>3
    <3> QED
      BY <2>1, <3>1, <3>2
  <2> HIDE DEF S
  <2> QED
    BY <2>2, <2>3, <2>4, <2>5, OutsideClosed
<1>4. CASE \E p \in Pairs : x = Bump(p) /\ p \notin bumps
  <2>1. PICK p \in Pairs : x = Bump(p) /\ p \notin bumps
    BY <1>4
  <2>2. x \notin PlanNodes
    BY <2>1, PlannedEdges, BumpsDiffer DEF PlanNodes, Kids, Predecessor
  <2> QED
    BY <2>2 DEF ChildWaitsFor
<1> QED
  BY <1>1, <1>2, <1>3, <1>4 DEF DepNodes

\* A child that consumes for one pair only waits for its bump.
LEMMA ConsumerWaits ==
    ASSUME PlanInv, IsPlanned, OneProducer, NEW p \in bumps, NEW k \in Consumers(p)
    PROVE  {Bump(p)} \cup Producers(p) \subseteq ChildWaitsFor(k)
<1>1. k \in Kids /\ bumps \subseteq Candidates
  BY DEF Consumers, PlanInv
<1> DEFINE mine == {q \in Candidates : k \in Consumers(q)}
<1>2. Cardinality(mine) <= 1 /\ IsFiniteSet(mine)
  <2>1. IsFiniteSet(DepRepos)
    BY FS_Interval, BumpsDiffer DEF DepRepos
  <2>2. IsFiniteSet(DepRepos \X DepRepos)
    BY <2>1, FS_Product
  <2>3. mine \subseteq DepRepos \X DepRepos
    BY DEF Candidates, Pairs
  <2> QED
    BY <1>1, <2>2, <2>3, FS_Subset DEF OneProducer
<1>3. \A q \in bumps : k \in Consumers(q) => q = p
  <2> SUFFICES ASSUME NEW q \in bumps, k \in Consumers(q), q # p PROVE FALSE
    OBVIOUS
  <2>1. {p, q} \subseteq mine
    BY <1>1
  <2>2. Cardinality({p, q}) = 2 /\ Cardinality({p, q}) <= Cardinality(mine)
    <3>1. IsFiniteSet({p}) /\ Cardinality({p}) = 1
      BY FS_Singleton
    <3>2. Cardinality({p} \cup {q}) = Cardinality({p}) + 1
      BY <3>1, FS_AddElement
    <3>3. {p} \cup {q} = {p, q}
      OBVIOUS
    <3>4. Cardinality({p, q}) = 2
      BY <3>1, <3>2, <3>3
    <3> HIDE DEF mine
    <3>5. Cardinality({p, q}) <= Cardinality(mine)
      BY <1>2, <2>1, FS_Subset
    <3> QED
      BY <3>4, <3>5
  <2>3. Cardinality(mine) \in Nat
    BY <1>2, FS_CardinalityType
  <2> HIDE DEF mine
  <2> QED
    BY <1>2, <2>2, <2>3
<1>4. cross[k] = {Bump(p)}
  <2>1. cross[k] # {}
    BY <1>1 DEF PlanInv, CrossEdges
  <2>2. cross[k] \subseteq {Bump(p)}
    BY <1>1, <1>3 DEF PlanInv, CrossEdges
  <2> QED
    BY <2>1, <2>2
<1>5. Bump(p) \in plan[k]
  BY <1>1, <1>4, PlannedEdges, BumpsDiffer
<1> QED
  BY <1>1, <1>5, PlanWithin, PlannedEdges, WaitsForNext

\* The inductive invariant of planning the children's dependencies: what each
\* pair treated so far has added.
THEOREM PlanInvariant == DepSpec => []PlanInv
BY PlanStart, PlanStep, PTL DEF DepSpec

\* For any number of children and repositories, whatever imports whatever and
\* whichever bumps could not be created: populators wait for the child that
\* creates the repository, a bump stands between producers and consumers, and
\* an orderly plan has no cycle.
THEOREM PlanAlwaysSound == DepSpec => []PlanIsSound
<1>1. PlanInv => PlanIsSound
  BY PopulatorsWait, BumpsBetween, OrderlyIsAcyclic, ConsumerWaits DEF PlanIsSound, OrderlyPlanWorks
<1> QED
  BY <1>1, PlanInvariant, PTL
====
