---------------------------- MODULE WorkerProofs ----------------------------
(***************************************************************************)
(* What admits the worker's work: first the queue with its claims          *)
(* (WorkerQueue), then the gate that admits a claimed ticket to a slot     *)
(* (PriorityGate), then the slots and containers its commands run in       *)
(* (Sandbox).                                                              *)
(***************************************************************************)
EXTENDS WorkerQueue, PriorityGate, Sandbox, FiniteSetTheorems, SequenceTheorems, TLAPS

(***************************************************************************)
(* The claim of _try_claim, for any number of tickets, consumers, threads  *)
(* and slots and however often a ticket is in the queue.  The set of the   *)
(* claims and the runs that hold them correspond one to one; neither half  *)
(* is inductive without the other, since a finished run takes its ticket   *)
(* out of the set on behalf of every run of that ticket.                   *)
(***************************************************************************)

\* A run has the claim of its ticket.
HoldersClaim == \A c \in Consumers : Holds(c) => con[c].e.t \in in_flight

ClaimInv == HoldersClaim /\ OneRunPerTicket /\ ClaimsAreHeld

WInv == WTypeOK /\ ClaimInv

-----------------------------------------------------------------------------
(* Types. *)

ConType == [pc : Pcs, e : Entry \union {NoEntry}, at : State \union {None}, pr : {0, 1}]

\* Taking an entry out of the queue leaves a queue.
LEMMA RemoveAtType ==
  ASSUME NEW S, NEW q \in Seq(S), NEW i \in 1..Len(q)
  PROVE  RemoveAt(q, i) \in Seq(S)
<1>1. SubSeq(q, 1, i - 1) \in Seq(S) /\ SubSeq(q, i + 1, Len(q)) \in Seq(S)
  OBVIOUS
<1> QED BY <1>1 DEF RemoveAt

LEMMA HeadOfType ==
  ASSUME NEW S, NEW q \in Seq(S), NEW i \in HeadOf(q)
  PROVE  i \in 1..Len(q) /\ q[i] \in S
  BY DEF HeadOf

\* The ranks of a ticket make an entry.
LEMMA RankedType ==
  ASSUME WTypeOK, NEW t \in Tickets
  PROVE  PrioRank(t) \in {0, 1} /\ Ranked(t) \in Entry
<1>1. PrioRank(t) \in {0, 1}
  BY DEF PrioRank
<1>2. StageRank(st[t]) \in Nat
  BY DEF StageRank
<1> QED BY <1>1, <1>2 DEF Ranked, Entry

LEMMA StageRankType == ASSUME NEW s PROVE StageRank(s) \in Nat
  BY DEF StageRank

\* A consumer set to a well-typed record leaves the pool well-typed.
LEMMA SetType ==
  ASSUME WTypeOK, NEW c \in Consumers, NEW r \in ConType,
         r.pc \notin {"free", "next"} => r.e \in Entry, Set(c, r)
  PROVE  /\ con' \in [Consumers -> ConType]
         /\ \A d \in Consumers : con'[d].pc \notin {"free", "next"} => con'[d].e \in Entry
  BY DEF WTypeOK, Set, ConType

\* What the actions of a consumer set it to.
LEMMA ContinueType ==
  ASSUME WTypeOK, NEW c \in Consumers, Continue(c)
  PROVE  /\ con' \in [Consumers -> ConType]
         /\ \A d \in Consumers : con'[d].pc \notin {"free", "next"} => con'[d].e \in Entry
         /\ ~Holds(c)'
<1> DEFINE r == [pc |-> "next", e |-> NoEntry, at |-> None, pr |-> 1]
<1>1. r \in ConType /\ r.pc = "next"
  BY DEF ConType, Pcs
<1>2. Set(c, r)
  BY DEF Continue
<1>3. con'[c] = r
  BY <1>2 DEF Set, WTypeOK
<1> HIDE DEF r
<1> QED BY <1>1, <1>2, <1>3, SetType DEF Holds

LEMMA PoppedType ==
  ASSUME WTypeOK, NEW c \in Consumers, NEW e \in Entry, NEW label \in {"popped", "swapped"},
         Set(c, Popped(e, label))
  PROVE  /\ con' \in [Consumers -> ConType]
         /\ \A d \in Consumers : con'[d].pc \notin {"free", "next"} => con'[d].e \in Entry
         /\ ~Holds(c)'
<1>1. e.t \in Tickets
  BY DEF Entry
<1>2. st[e.t] \in State /\ PrioRank(e.t) \in {0, 1}
  BY <1>1, RankedType DEF WTypeOK
<1>3. Popped(e, label) \in ConType /\ Popped(e, label).e = e /\ Popped(e, label).pc = label
  BY <1>2 DEF Popped, ConType, Pcs
<1>4. con'[c] = Popped(e, label)
  BY DEF Set, WTypeOK
<1> QED BY <1>3, <1>4, SetType DEF Holds

LEMMA HoldType ==
  ASSUME WTypeOK, NEW c \in Consumers, NEW label \in Pcs, con[c].e \in Entry, Hold(c, label)
  PROVE  /\ con' \in [Consumers -> ConType]
         /\ \A d \in Consumers : con'[d].pc \notin {"free", "next"} => con'[d].e \in Entry
         /\ con'[c].pc = label /\ con'[c].e.t = con[c].e.t
<1> DEFINE e == [prio |-> 1, stage |-> 99, t |-> con[c].e.t]
           r == [pc |-> label, e |-> e, at |-> con[c].at, pr |-> 1]
<1>1. con[c].at \in State \union {None} /\ con[c].e.t \in Tickets
  BY DEF WTypeOK, Entry
<1>2. e \in Entry /\ e.t = con[c].e.t
  BY <1>1 DEF Entry
<1>3. r \in ConType /\ r.e = e /\ r.pc = label
  <2> HIDE DEF e
  <2> QED BY <1>1, <1>2 DEF ConType
<1>4. Set(c, r)
  BY DEF Hold
<1> HIDE DEF r
<1>5. con'[c] = r
  BY <1>4 DEF Set, WTypeOK
<1> QED BY <1>2, <1>3, <1>4, <1>5, SetType

-----------------------------------------------------------------------------
(* Every step keeps the types. *)

LEMMA InitType == WInit => WTypeOK
<1> SUFFICES ASSUME WInit PROVE WTypeOK
  OBVIOUS
<1>1. Play \intersect {"draft", "ready", "implement_complete"} \subseteq State
  BY WorkerConstants
<1>2. Free \in ConType /\ Free.pc = "free"
  BY DEF Free, ConType, Pcs
<1>3. con \in [Consumers -> ConType] /\ \A c \in Consumers : con[c].pc = "free"
  BY <1>2 DEF WInit
<1>4. queue \in Seq(Entry)
  BY DEF WInit
<1> QED BY <1>1, <1>3, <1>4 DEF WInit, WTypeOK, ConType

LEMMA EnqueueType ==
  ASSUME WTypeOK, NEW t \in Tickets, NEW d \in SUBSET Tickets, EnqueueTo(t, d)
  PROVE  queue' \in Seq(Entry) /\ dedupe' \subseteq Tickets
<1>1. Ranked(t) \in Entry
  BY RankedType
<1>2. Append(queue, Ranked(t)) \in Seq(Entry)
  BY <1>1 DEF WTypeOK
<1> QED BY <1>2 DEF EnqueueTo, WTypeOK

\* Steps of the sweep, the routes and the other actors.
LEMMA OutsideType ==
  ASSUME WTypeOK
  PROVE  /\ \A t \in Tickets : Sweep(t) \/ SweepFails(t) \/ Moves(t) => WTypeOK'
         /\ \A h \in Threads : ApiPut(h) \/ ForceRequeue(h) => WTypeOK'
         /\ \A h \in Threads, t \in Tickets : ApiTest(h, t) \/ SetPriority(h, t) => WTypeOK'
         /\ Drain => WTypeOK'
<1>1. ASSUME NEW t \in Tickets, Sweep(t) PROVE WTypeOK'
  <2>1. queue' \in Seq(Entry) /\ dedupe' \subseteq Tickets
    BY <1>1, EnqueueType DEF Sweep, WTypeOK
  <2> QED BY <1>1, <2>1 DEF Sweep, WTypeOK
<1>2. ASSUME NEW t \in Tickets, SweepFails(t) PROVE WTypeOK'
  BY <1>2 DEF SweepFails, WTypeOK
<1>3. ASSUME NEW t \in Tickets, Moves(t) PROVE WTypeOK'
  <2>1. st' \in [Tickets -> State]
    BY <1>3, WorkerConstants DEF Moves, WTypeOK
  <2> QED BY <1>3, <2>1 DEF Moves, WTypeOK
<1>4. ASSUME NEW h \in Threads, NEW t \in Tickets, ApiTest(h, t) PROVE WTypeOK'
  <2>1. api' \in [Threads -> {Idle} \union [pc : {"tested", "flipped"}, t : Tickets]]
    BY <1>4 DEF ApiTest, WTypeOK
  <2> QED BY <1>4, <2>1 DEF ApiTest, WTypeOK
<1>5. ASSUME NEW h \in Threads, ApiPut(h) PROVE WTypeOK'
  <2>1. api[h].t \in Tickets
    BY <1>5 DEF ApiPut, WTypeOK, Idle
  <2>2. Append(queue, Ranked(api[h].t)) \in Seq(Entry)
    BY <2>1, RankedType DEF WTypeOK
  <2>3. api' \in [Threads -> {Idle} \union [pc : {"tested", "flipped"}, t : Tickets]]
    BY <1>5 DEF ApiPut, WTypeOK
  <2> QED BY <1>5, <2>1, <2>2, <2>3 DEF ApiPut, WTypeOK
<1>6. ASSUME NEW h \in Threads, NEW t \in Tickets, SetPriority(h, t) PROVE WTypeOK'
  <2>1. api' \in [Threads -> {Idle} \union [pc : {"tested", "flipped"}, t : Tickets]]
    BY <1>6 DEF SetPriority, WTypeOK
  <2>2. prio' \in [Tickets -> BOOLEAN]
    BY <1>6 DEF SetPriority, WTypeOK
  <2> QED BY <1>6, <2>1, <2>2 DEF SetPriority, WTypeOK
<1>7. ASSUME NEW h \in Threads, ForceRequeue(h) PROVE WTypeOK'
  <2>1. api[h].t \in Tickets
    BY <1>7 DEF ForceRequeue, WTypeOK, Idle
  <2>2. api' \in [Threads -> {Idle} \union [pc : {"tested", "flipped"}, t : Tickets]]
    BY <1>7, <2>1 DEF ForceRequeue, WTypeOK
  <2> QED BY <1>7, <2>2 DEF ForceRequeue, WTypeOK
<1>8. ASSUME Drain PROVE WTypeOK'
  BY <1>8 DEF Drain, WTypeOK
<1> QED BY <1>1, <1>2, <1>3, <1>4, <1>5, <1>6, <1>7, <1>8

\* Steps of a consumer.
LEMMA ConsumeType ==
  ASSUME WTypeOK, NEW c \in Consumers, Consume(c)
  PROVE  WTypeOK'
<1>0. con[c].pc \notin {"free", "next"} => con[c].e \in Entry /\ con[c].e.t \in Tickets
  BY DEF WTypeOK, Entry
<1>1. CASE Pop(c)
  <2>1. PICK i \in HeadOf(queue) :
          Set(c, Popped(queue[i], "popped")) /\ queue' = RemoveAt(queue, i)
    BY <1>1 DEF Pop
  <2>2. i \in 1..Len(queue) /\ queue[i] \in Entry
    BY HeadOfType DEF WTypeOK
  <2>3. queue' \in Seq(Entry)
    BY <2>1, <2>2, RemoveAtType DEF WTypeOK
  <2> QED BY <1>1, <2>1, <2>2, <2>3, PoppedType DEF Pop, WTypeOK, ConType
<1>2. CASE Wait(c)
  <2>1. Free \in ConType /\ Free.pc = "free"
    BY DEF Free, ConType, Pcs
  <2> QED BY <1>2, <2>1, SetType DEF Wait, WTypeOK, ConType
<1>3. CASE PutBackStale(c)
  <2>1. Append(queue, Ranked(con[c].e.t)) \in Seq(Entry)
    BY <1>0, <1>3, RankedType DEF PutBackStale, WTypeOK
  <2> QED BY <1>3, <2>1, ContinueType DEF PutBackStale, WTypeOK, ConType
<1>4. CASE Swap(c)
  <2>1. PICK i \in BetterHead(c) :
          /\ queue' = Append(RemoveAt(queue, i), CurrentRank(c))
          /\ Set(c, Popped(queue[i], "swapped"))
    BY <1>4 DEF Swap
  <2>2. i \in 1..Len(queue) /\ queue[i] \in Entry
    BY HeadOfType DEF WTypeOK, BetterHead
  <2>3. CurrentRank(c) \in Entry
    <3>1. con[c].pr \in {0, 1} /\ StageRank(con[c].at) \in Nat
      BY StageRankType DEF WTypeOK
    <3> QED BY <1>0, <1>4, <3>1 DEF Swap, CurrentRank, ReadRank, Entry
  <2>4. RemoveAt(queue, i) \in Seq(Entry)
    BY <2>2, RemoveAtType DEF WTypeOK
  <2>5. queue' \in Seq(Entry)
    BY <2>1, <2>3, <2>4
  <2> QED BY <1>0, <1>4, <2>1, <2>2, <2>5, PoppedType DEF Swap, WTypeOK, ConType
<1>5. CASE Defer(c)
  <2>1. con[c].e \in Entry /\ con[c].e.t \in Tickets
    BY <1>0, <1>5 DEF Defer, Chosen
  <2>2. queue' \in Seq(Entry)
    <3>1. Demoted(con[c].e) \in Entry
      BY <2>1 DEF Entry, Demoted
    <3>2. PICK e \in Entry : queue' = Append(queue, e)
      BY <1>5, <2>1, <3>1 DEF Defer
    <3> QED BY <3>2 DEF WTypeOK
  <2>3. /\ con' \in [Consumers -> ConType]
        /\ \A d \in Consumers : con'[d].pc \notin {"free", "next"} => con'[d].e \in Entry
    BY <1>5, <2>1, HoldType DEF Defer, Pcs
  <2> QED BY <1>5, <2>1, <2>2, <2>3 DEF Defer, WTypeOK, ConType
<1>6. CASE Wake(c)
  BY <1>6, ContinueType DEF Wake, WTypeOK, ConType
<1>7. CASE Claim(c)
  <2>1. con[c].e \in Entry /\ con[c].e.t \in Tickets
    BY <1>0, <1>7 DEF Claim, Chosen
  <2>2. /\ con' \in [Consumers -> ConType]
        /\ \A d \in Consumers : con'[d].pc \notin {"free", "next"} => con'[d].e \in Entry
    BY <1>7, <2>1, HoldType, ContinueType DEF Claim, Pcs
  <2> QED BY <1>7, <2>1, <2>2 DEF Claim, WTypeOK, ConType
<1>8. CASE Enter(c)
  BY <1>0, <1>8, HoldType DEF Enter, WTypeOK, ConType, Pcs
<1>9. CASE Advance(c)
  BY <1>0, <1>9, OutsideType DEF Advance
<1>10. CASE Returns(c)
  BY <1>0, <1>10, HoldType DEF Returns, WTypeOK, ConType, Pcs
<1>11. CASE Finish(c)
  <2>1. con[c].e.t \in Tickets /\ dedupe \ {con[c].e.t} \in SUBSET Tickets
    BY <1>0, <1>11 DEF Finish, WTypeOK
  <2>2. queue' \in Seq(Entry) /\ dedupe' \subseteq Tickets
    BY <1>11, <2>1, EnqueueType DEF Finish, WTypeOK
  <2> QED BY <1>11, <2>2, ContinueType DEF Finish, WTypeOK, ConType
<1>12. CASE Crash(c)
  BY <1>12, ContinueType DEF Crash, WTypeOK, ConType
<1> QED BY <1>1, <1>2, <1>3, <1>4, <1>5, <1>6, <1>7, <1>8, <1>9, <1>10, <1>11, <1>12 DEF Consume

LEMMA RestartType == WTypeOK /\ WRestart => WTypeOK'
<1> SUFFICES ASSUME WTypeOK, WRestart PROVE WTypeOK'
  OBVIOUS
<1>1. Free \in ConType /\ Free.pc = "free"
  BY DEF Free, ConType, Pcs
<1>2. con' \in [Consumers -> ConType] /\ \A c \in Consumers : con'[c].pc = "free"
  BY <1>1 DEF WRestart
<1>3. queue' \in Seq(Entry)
  BY DEF WRestart
<1> QED BY <1>2, <1>3 DEF WRestart, WTypeOK, ConType

LEMMA TypeStep == WTypeOK /\ [WNext]_wvars => WTypeOK'
<1> SUFFICES ASSUME WTypeOK, [WNext]_wvars PROVE WTypeOK'
  OBVIOUS
<1>1. CASE UNCHANGED wvars
  BY <1>1 DEF wvars, WTypeOK
<1> QED BY <1>1, OutsideType, ConsumeType, RestartType DEF WNext, WNextUp

-----------------------------------------------------------------------------
(* Every step keeps the correspondence of claims and runs. *)

\* A step that touches consumer c alone, and how it changes the claims.
Only(c) == \A d \in Consumers : d # c => con'[d] = con[d]

\* c holds no claim before or after.
LEMMA ClaimIdle ==
  ASSUME ClaimInv, NEW c \in Consumers, Only(c), ~Holds(c), ~Holds(c)', in_flight' = in_flight
  PROVE  ClaimInv'
<1>1. \A d \in Consumers : Holds(d)' => Holds(d) /\ con'[d].e.t = con[d].e.t
  BY DEF Only, Holds
<1>2. \A d \in Consumers : Holds(d) => Holds(d)' /\ con'[d].e.t = con[d].e.t
  BY DEF Only, Holds
<1> QED BY <1>1, <1>2 DEF ClaimInv, HoldersClaim, OneRunPerTicket, ClaimsAreHeld

\* c goes on with its claim.
LEMMA ClaimKept ==
  ASSUME ClaimInv, NEW c \in Consumers, Only(c), Holds(c), Holds(c)',
         con'[c].e.t = con[c].e.t, in_flight' = in_flight
  PROVE  ClaimInv'
<1>1. \A d \in Consumers : (Holds(d)' <=> Holds(d)) /\ (Holds(d) => con'[d].e.t = con[d].e.t)
  BY DEF Only, Holds
<1> QED BY <1>1 DEF ClaimInv, HoldersClaim, OneRunPerTicket, ClaimsAreHeld

\* c takes a claim nobody holds.
LEMMA ClaimTaken ==
  ASSUME ClaimInv, NEW c \in Consumers, Only(c), ~Holds(c), Holds(c)',
         con'[c].e.t \notin in_flight, in_flight' = in_flight \union {con'[c].e.t}
  PROVE  ClaimInv'
<1>1. \A d \in Consumers : d # c => (Holds(d)' <=> Holds(d)) /\ con'[d].e.t = con[d].e.t
  BY DEF Only, Holds
<1>2. \A d \in Consumers : Holds(d) => d # c /\ con[d].e.t # con'[c].e.t
  BY DEF ClaimInv, HoldersClaim
<1>3. HoldersClaim'
  BY <1>1 DEF ClaimInv, HoldersClaim
<1>4. OneRunPerTicket'
  BY <1>1, <1>2 DEF ClaimInv, OneRunPerTicket
<1>5. ClaimsAreHeld'
  BY <1>1, <1>2 DEF ClaimInv, ClaimsAreHeld
<1> QED BY <1>3, <1>4, <1>5 DEF ClaimInv

\* c releases its claim: no other run has this ticket.
LEMMA ClaimDropped ==
  ASSUME ClaimInv, NEW c \in Consumers, Only(c), Holds(c), ~Holds(c)',
         in_flight' = in_flight \ {con[c].e.t}
  PROVE  ClaimInv'
<1>1. \A d \in Consumers : d # c => (Holds(d)' <=> Holds(d)) /\ con'[d].e.t = con[d].e.t
  BY DEF Only, Holds
<1>2. \A d \in Consumers : d # c /\ Holds(d) => con[d].e.t # con[c].e.t
  BY DEF ClaimInv, OneRunPerTicket
<1>3. HoldersClaim'
  BY <1>1, <1>2 DEF ClaimInv, HoldersClaim
<1>4. OneRunPerTicket'
  BY <1>1 DEF ClaimInv, OneRunPerTicket
<1>5. ClaimsAreHeld'
  BY <1>1 DEF ClaimInv, ClaimsAreHeld
<1> QED BY <1>3, <1>4, <1>5 DEF ClaimInv

\* A step of anyone who is no consumer.
LEMMA ClaimUntouched ==
  ASSUME ClaimInv, con' = con, in_flight' = in_flight
  PROVE  ClaimInv'
  BY DEF ClaimInv, HoldersClaim, OneRunPerTicket, ClaimsAreHeld, Holds

\* What a consumer's update of itself leaves alone.
LEMMA SetOnly ==
  ASSUME WTypeOK, NEW c \in Consumers, NEW r, Set(c, r)
  PROVE  Only(c) /\ con'[c] = r
  BY DEF Set, Only, WTypeOK

LEMMA ConsumeClaims ==
  ASSUME WInv, NEW c \in Consumers, Consume(c)
  PROVE  ClaimInv'
<1> USE DEF WInv
<1>0. /\ con[c].pc \notin {"free", "next"} => con[c].e \in Entry
      /\ Continue(c) => Only(c) /\ ~Holds(c)'
      /\ \A label \in Pcs : Hold(c, label) => Only(c)
  <2>1. Continue(c) => Only(c)
    BY SetOnly DEF Continue
  <2>2. \A label \in Pcs : Hold(c, label) => Only(c)
    BY SetOnly DEF Hold
  <2> QED BY <2>1, <2>2, ContinueType DEF WTypeOK
<1>1. CASE Pop(c)
  <2>1. PICK i \in HeadOf(queue) : Set(c, Popped(queue[i], "popped"))
    BY <1>1 DEF Pop
  <2>2. queue[i] \in Entry
    BY HeadOfType DEF WTypeOK
  <2>3. ~Holds(c) /\ ~Holds(c)' /\ Only(c)
    BY <1>1, <2>1, <2>2, PoppedType, SetOnly DEF Pop, Holds
  <2> QED BY <1>1, <2>3, ClaimIdle DEF Pop
<1>2. CASE Wait(c)
  <2>1. con'[c] = Free /\ Only(c)
    BY <1>2, SetOnly DEF Wait
  <2>2. ~Holds(c) /\ ~Holds(c)'
    BY <1>2, <2>1 DEF Wait, Holds, Free
  <2> QED BY <1>2, <2>1, <2>2, ClaimIdle DEF Wait
<1>3. CASE PutBackStale(c)
  <2>1. ~Holds(c)
    BY <1>3 DEF PutBackStale, Holds
  <2> QED BY <1>0, <1>3, <2>1, ClaimIdle DEF PutBackStale
<1>4. CASE Swap(c)
  <2>1. PICK i \in BetterHead(c) : Set(c, Popped(queue[i], "swapped"))
    BY <1>4 DEF Swap
  <2>2. queue[i] \in Entry
    BY HeadOfType DEF WTypeOK, BetterHead
  <2>3. ~Holds(c) /\ ~Holds(c)' /\ Only(c)
    BY <1>4, <2>1, <2>2, PoppedType, SetOnly DEF Swap, Holds
  <2> QED BY <1>4, <2>3, ClaimIdle DEF Swap
<1>5. CASE Defer(c)
  <2>1. con[c].e \in Entry /\ ~Holds(c)
    BY <1>0, <1>5 DEF Defer, Chosen, Holds
  <2>2. con'[c].pc = "asleep" /\ Only(c)
    BY <1>0, <1>5, <2>1, HoldType DEF Defer, Pcs
  <2>3. ~Holds(c)'
    BY <2>2 DEF Holds
  <2> QED BY <1>5, <2>1, <2>2, <2>3, ClaimIdle DEF Defer
<1>6. CASE Wake(c)
  <2>1. ~Holds(c)
    BY <1>6 DEF Wake, Holds
  <2> QED BY <1>0, <1>6, <2>1, ClaimIdle DEF Wake
<1>7. CASE Claim(c)
  <2>1. con[c].e \in Entry /\ ~Holds(c)
    BY <1>0, <1>7 DEF Claim, Chosen, Holds
  <2>2. CASE Claimed(c)
    BY <1>0, <1>7, <2>1, <2>2, ClaimIdle DEF Claim
  <2>3. CASE ~Claimed(c)
    <3>1. PICK label \in {"lane", "gate"} : Hold(c, label)
      BY <1>7, <2>3 DEF Claim
    <3>2. con'[c].pc = label /\ con'[c].e.t = con[c].e.t /\ Only(c)
      BY <1>0, <2>1, <3>1, HoldType DEF Pcs
    <3>3. Holds(c)'
      BY <3>2 DEF Holds
    <3> QED BY <1>7, <2>1, <2>3, <3>2, <3>3, ClaimTaken DEF Claim, Claimed
  <2> QED BY <2>2, <2>3
<1>8. CASE Enter(c)
  <2>1. con[c].e \in Entry /\ Holds(c)
    BY <1>0, <1>8 DEF Enter, Holds
  <2>2. con'[c].pc = "running" /\ con'[c].e.t = con[c].e.t /\ Only(c)
    BY <1>0, <1>8, <2>1, HoldType DEF Enter, Pcs
  <2>3. Holds(c)'
    BY <2>2 DEF Holds
  <2> QED BY <1>8, <2>1, <2>2, <2>3, ClaimKept DEF Enter
<1>9. CASE Advance(c)
  BY <1>9, ClaimUntouched DEF Advance, Moves
<1>10. CASE Returns(c)
  <2>1. con[c].e \in Entry /\ Holds(c)
    BY <1>0, <1>10 DEF Returns, Holds
  <2>2. con'[c].pc = "checking" /\ con'[c].e.t = con[c].e.t /\ Only(c)
    BY <1>0, <1>10, <2>1, HoldType DEF Returns, Pcs
  <2>3. Holds(c)'
    BY <2>2 DEF Holds
  <2> QED BY <1>10, <2>1, <2>2, <2>3, ClaimKept DEF Returns
<1>11. CASE Finish(c)
  <2>1. Holds(c)
    BY <1>11 DEF Finish, Holds
  <2> QED BY <1>0, <1>11, <2>1, ClaimDropped DEF Finish
<1>12. CASE Crash(c)
  <2>1. CASE con[c].pc \in {"running", "lane"}
    <3>1. Holds(c)
      BY <2>1 DEF Holds
    <3> QED BY <1>0, <1>12, <2>1, <3>1, ClaimDropped DEF Crash
  <2>2. CASE con[c].pc \notin {"running", "lane"}
    <3>1. ~Holds(c)
      BY <1>12, <2>2 DEF Crash, Holds
    <3> QED BY <1>0, <1>12, <2>2, <3>1, ClaimIdle DEF Crash
  <2> QED BY <2>1, <2>2
<1> QED BY <1>1, <1>2, <1>3, <1>4, <1>5, <1>6, <1>7, <1>8, <1>9, <1>10, <1>11, <1>12 DEF Consume

LEMMA InitWInv == WInit => WInv
<1> SUFFICES ASSUME WInit PROVE WInv
  OBVIOUS
<1>1. \A c \in Consumers : ~Holds(c)
  BY DEF WInit, Free, Holds
<1> QED BY <1>1, InitType DEF WInit, WInv, ClaimInv, HoldersClaim, OneRunPerTicket, ClaimsAreHeld

LEMMA StepWInv == WInv /\ [WNext]_wvars => WInv'
<1> SUFFICES ASSUME WInv, [WNext]_wvars PROVE ClaimInv'
  BY TypeStep DEF WInv
<1>1. CASE UNCHANGED wvars
  BY <1>1, ClaimUntouched DEF wvars, WInv
<1>2. CASE WRestart
  <2>1. in_flight' = {} /\ \A c \in Consumers : ~Holds(c)'
    BY <1>2 DEF WRestart, Free, Holds
  <2> QED BY <2>1 DEF ClaimInv, HoldersClaim, OneRunPerTicket, ClaimsAreHeld
<1>3. ASSUME NEW c \in Consumers, Consume(c) PROVE ClaimInv'
  BY <1>3, ConsumeClaims
<1>4. ASSUME NEW t \in Tickets, Sweep(t) \/ SweepFails(t) \/ Moves(t) PROVE ClaimInv'
  BY <1>4, ClaimUntouched DEF WInv, Sweep, SweepFails, Moves
<1>5. ASSUME NEW h \in Threads, ApiPut(h) \/ ForceRequeue(h) PROVE ClaimInv'
  BY <1>5, ClaimUntouched DEF WInv, ApiPut, ForceRequeue
<1>6. ASSUME NEW h \in Threads, NEW t \in Tickets, ApiTest(h, t) \/ SetPriority(h, t) PROVE ClaimInv'
  BY <1>6, ClaimUntouched DEF WInv, ApiTest, SetPriority
<1>7. CASE Drain
  BY <1>7, ClaimUntouched DEF WInv, Drain
<1> QED BY <1>1, <1>2, <1>3, <1>4, <1>5, <1>6, <1>7 DEF WNext, WNextUp

-----------------------------------------------------------------------------
(* Every step keeps the ids of _pending backed, unless a look-up raises in *)
(* enqueue().  Backed means more than PendingIsBacked: a consumer that is  *)
(* free has an entry in its hands no more.                                 *)

InHand(t) == \E c \in Consumers : con[c].pc \notin {"free", "next"} /\ con[c].e.t = t

PendingInv == ~DbFails => \A t \in dedupe : Queued(t) \/ InHand(t)

\* What Append and RemoveAt do to the tickets of a queue.
LEMMA AppendQueued ==
  ASSUME WTypeOK, NEW e \in Entry, queue' = Append(queue, e)
  PROVE  Queued(e.t)' /\ \A t : Queued(t) => Queued(t)'
<1>1. queue \in Seq(Entry)
  BY DEF WTypeOK
<1>2. /\ Len(queue') = Len(queue) + 1 /\ queue'[Len(queue) + 1] = e
      /\ \A i \in 1..Len(queue) : queue'[i] = queue[i]
      /\ DOMAIN queue = 1..Len(queue) /\ DOMAIN queue' = 1..(Len(queue) + 1)
  BY <1>1
<1>3. Len(queue) \in Nat
  BY <1>1
<1> QED BY <1>2, <1>3 DEF Queued

LEMMA RemovedQueue ==
  ASSUME NEW q \in Seq(Entry), NEW i \in 1..Len(q), NEW j \in 1..Len(q), j # i
  PROVE  \E k \in DOMAIN RemoveAt(q, i) : RemoveAt(q, i)[k] = q[j]
<1> DEFINE a == SubSeq(q, 1, i - 1)
           b == SubSeq(q, i + 1, Len(q))
<1>1. /\ a \in Seq(Entry) /\ Len(a) = i - 1 /\ \A k \in 1..(i - 1) : a[k] = q[k]
  OBVIOUS
<1>2. /\ b \in Seq(Entry) /\ Len(b) = Len(q) - i /\ \A k \in 1..(Len(q) - i) : b[k] = q[i + k]
  OBVIOUS
<1>3. RemoveAt(q, i) = a \o b
  BY DEF RemoveAt
<1> HIDE DEF a, b
<1>4. /\ DOMAIN (a \o b) = 1..(Len(a) + Len(b))
      /\ \A k \in 1..(Len(a) + Len(b)) : (a \o b)[k] = IF k <= Len(a) THEN a[k] ELSE b[k - Len(a)]
  <2>1. a \o b \in Seq(Entry) /\ Len(a \o b) = Len(a) + Len(b)
    BY <1>1, <1>2, ConcatProperties
  <2>2. \A k \in 1..(Len(a) + Len(b)) : (a \o b)[k] = IF k <= Len(a) THEN a[k] ELSE b[k - Len(a)]
    BY <1>1, <1>2, ConcatProperties
  <2> QED BY <2>1, <2>2
<1>5. CASE j < i
  <2>1. j \in 1..(i - 1) /\ j \in 1..(Len(a) + Len(b)) /\ j <= Len(a)
    BY <1>1, <1>2, <1>5
  <2> QED BY <1>1, <1>3, <1>4, <2>1
<1>6. CASE j > i
  <2>1. /\ j - i \in 1..(Len(q) - i) /\ j - 1 \in 1..(Len(a) + Len(b)) /\ ~(j - 1 <= Len(a))
        /\ (j - 1) - Len(a) = j - i /\ i + (j - i) = j
    BY <1>1, <1>2, <1>6
  <2> QED BY <1>2, <1>3, <1>4, <2>1
<1> QED BY <1>5, <1>6

LEMMA RemoveQueued ==
  ASSUME WTypeOK, NEW i \in HeadOf(queue), NEW t, Queued(t)
  PROVE  t = queue[i].t \/ \E k \in DOMAIN RemoveAt(queue, i) : RemoveAt(queue, i)[k].t = t
<1>1. queue \in Seq(Entry) /\ i \in 1..Len(queue) /\ DOMAIN queue = 1..Len(queue)
  BY HeadOfType DEF WTypeOK
<1>2. PICK j \in 1..Len(queue) : queue[j].t = t
  BY <1>1 DEF Queued
<1> QED BY <1>1, <1>2, RemovedQueue

\* A step of consumer c: what it takes out of the queue is in its hands, and
\* what it lets go is in the queue or no longer pending.
LEMMA PendingStep ==
  ASSUME PendingInv, NEW c \in Consumers, Only(c),
         \A t \in dedupe' : t \in dedupe \/ Queued(t)' \/ con[c].e.t = t,
         \A t \in dedupe' : Queued(t) =>
           Queued(t)' \/ (con'[c].pc \notin {"free", "next"} /\ con'[c].e.t = t),
         \A t \in dedupe' : con[c].pc \notin {"free", "next"} /\ con[c].e.t = t =>
           Queued(t)' \/ (con'[c].pc \notin {"free", "next"} /\ con'[c].e.t = t),
         con[c].pc \in {"free", "next"} => dedupe' \subseteq dedupe
  PROVE  PendingInv'
<1> SUFFICES ASSUME ~DbFails, NEW t \in dedupe' PROVE Queued(t)' \/ InHand(t)'
  BY DEF PendingInv
<1>1. CASE t \in dedupe
  <2>1. CASE Queued(t)
    BY <2>1 DEF InHand
  <2>2. ASSUME NEW d \in Consumers, con[d].pc \notin {"free", "next"}, con[d].e.t = t
        PROVE  Queued(t)' \/ InHand(t)'
    BY <2>2 DEF Only, InHand
  <2> QED BY <1>1, <2>1, <2>2 DEF PendingInv, InHand
<1>2. CASE t \notin dedupe
  BY <1>2 DEF InHand
<1> QED BY <1>1, <1>2

LEMMA ConsumePending ==
  ASSUME WInv, PendingInv, NEW c \in Consumers, Consume(c)
  PROVE  PendingInv'
<1>0. /\ WTypeOK /\ (con[c].pc \notin {"free", "next"} => con[c].e \in Entry /\ con[c].e.t \in Tickets)
      /\ Continue(c) => Only(c) /\ con'[c].pc = "next"
      /\ \A label \in Pcs : Hold(c, label) => Only(c) /\ con'[c].pc = label /\ con'[c].e.t = con[c].e.t
  <2>1. WTypeOK
    BY DEF WInv
  <2>2. Continue(c) => Only(c) /\ con'[c].pc = "next"
    BY <2>1, SetOnly DEF Continue
  <2>3. \A label \in Pcs : Hold(c, label) => Only(c) /\ con'[c].pc = label /\ con'[c].e.t = con[c].e.t
    BY <2>1, SetOnly DEF Hold
  <2>4. con[c].pc \notin {"free", "next"} => con[c].e \in Entry /\ con[c].e.t \in Tickets
    BY <2>1 DEF WTypeOK, Entry
  <2> QED BY <2>1, <2>2, <2>3, <2>4
\* A step that leaves the queue and _pending alone.
<1>a. ASSUME Only(c), UNCHANGED queue, UNCHANGED dedupe, con'[c].e.t = con[c].e.t,
             con[c].pc \notin {"free", "next"} => con'[c].pc \notin {"free", "next"}
      PROVE  PendingInv'
  BY <1>a, PendingStep DEF Queued
\* A step that ends an entry.
<1>b. ASSUME Only(c), con[c].pc \notin {"free", "next"}, dedupe' = dedupe \ {con[c].e.t},
             \A t : Queued(t) => Queued(t)'
      PROVE  PendingInv'
  BY <1>b, PendingStep
<1>c. UNCHANGED queue => \A t : Queued(t) => Queued(t)'
  BY DEF Queued
<1>1. CASE Pop(c)
  <2>1. PICK i \in HeadOf(queue) :
          Set(c, Popped(queue[i], "popped")) /\ queue' = RemoveAt(queue, i)
    BY <1>1 DEF Pop
  <2>2. Only(c) /\ con'[c].pc = "popped" /\ con'[c].e = queue[i]
    BY <1>0, <2>1, SetOnly DEF Popped
  <2>3. \A t : Queued(t) => t = queue[i].t \/ Queued(t)'
    BY <1>0, <2>1, RemoveQueued DEF Queued
  <2> QED BY <1>1, <2>2, <2>3, PendingStep DEF Pop
<1>2. CASE Wait(c)
  <2>1. con'[c] = Free /\ Only(c) /\ con[c].pc = "next" /\ UNCHANGED <<queue, dedupe>>
    BY <1>0, <1>2, SetOnly DEF Wait
  <2> QED BY <1>c, <2>1, PendingStep
<1>3. CASE PutBackStale(c)
  <2>1. con[c].pc = "popped" /\ queue' = Append(queue, Ranked(con[c].e.t))
        /\ dedupe' = dedupe \ {con[c].e.t} /\ Only(c)
    BY <1>0, <1>3 DEF PutBackStale
  <2>2. \A t : Queued(t) => Queued(t)'
    BY <1>0, <2>1, RankedType, AppendQueued
  <2> QED BY <1>b, <2>1, <2>2
<1>4. CASE Swap(c)
  <2>1. PICK i \in BetterHead(c) :
          /\ queue' = Append(RemoveAt(queue, i), CurrentRank(c))
          /\ Set(c, Popped(queue[i], "swapped"))
    BY <1>4 DEF Swap
  <2>2. i \in HeadOf(queue) /\ i \in 1..Len(queue) /\ RemoveAt(queue, i) \in Seq(Entry)
    BY <1>0, HeadOfType, RemoveAtType DEF BetterHead, WTypeOK
  <2>3. CurrentRank(c) \in Entry /\ CurrentRank(c).t = con[c].e.t
    <3>1. con[c].pr \in {0, 1} /\ StageRank(con[c].at) \in Nat
      BY <1>0, StageRankType DEF WTypeOK
    <3> QED BY <1>0, <1>4, <3>1 DEF Swap, CurrentRank, ReadRank, Entry
  <2>4. /\ \E k \in DOMAIN queue' : queue'[k].t = con[c].e.t
        /\ \A t : (\E k \in DOMAIN RemoveAt(queue, i) : RemoveAt(queue, i)[k].t = t) =>
             \E k \in DOMAIN queue' : queue'[k].t = t
    <3> DEFINE q == RemoveAt(queue, i)
    <3>1. q \in Seq(Entry) /\ queue' = Append(q, CurrentRank(c))
      BY <2>1, <2>2
    <3> HIDE DEF q
    <3>2. /\ Len(q) \in Nat /\ DOMAIN q = 1..Len(q) /\ DOMAIN queue' = 1..(Len(q) + 1)
          /\ queue'[Len(q) + 1] = CurrentRank(c) /\ \A k \in 1..Len(q) : queue'[k] = q[k]
      BY <2>3, <3>1
    <3>3. /\ \E k \in DOMAIN queue' : queue'[k].t = con[c].e.t
          /\ \A t : (\E k \in DOMAIN q : q[k].t = t) => \E k \in DOMAIN queue' : queue'[k].t = t
      BY <2>3, <3>2
    <3> QED BY <3>3 DEF q
  <2>5. \A t : (t = con[c].e.t => Queued(t)') /\ (Queued(t) => t = queue[i].t \/ Queued(t)')
    BY <1>0, <2>2, <2>4, RemoveQueued DEF Queued
  <2>6. Only(c) /\ con'[c].pc = "swapped" /\ con'[c].e = queue[i]
    BY <1>0, <2>1, SetOnly DEF Popped
  <2>7. dedupe' = dedupe \union {con[c].e.t} /\ con[c].pc \in {"popped", "swapped"}
    BY <1>4 DEF Swap
  <2> QED BY <2>5, <2>6, <2>7, PendingStep
<1>5. CASE Defer(c)
  <2>1. con[c].e \in Entry /\ con[c].pc \in {"popped", "swapped"} /\ Only(c)
        /\ con'[c].pc = "asleep" /\ con'[c].e.t = con[c].e.t
        /\ dedupe' = dedupe \union {con[c].e.t}
    BY <1>0, <1>5 DEF Defer, Chosen, Pcs
  <2>2. PICK e \in Entry : queue' = Append(queue, e)
    <3>1. Demoted(con[c].e) \in Entry
      BY <2>1 DEF Entry, Demoted
    <3> QED BY <1>5, <2>1, <3>1 DEF Defer
  <2>3. \A t : Queued(t) => Queued(t)'
    BY <1>0, <2>2, AppendQueued
  <2> QED BY <2>1, <2>3, PendingStep
<1>6. CASE Wake(c)
  BY <1>0, <1>6, <1>b, <1>c DEF Wake
<1>7. CASE Claim(c)
  <2>1. con[c].pc \in {"popped", "swapped"} /\ UNCHANGED queue
    BY <1>7 DEF Claim, Chosen
  <2>2. CASE Claimed(c)
    BY <1>0, <1>7, <1>b, <1>c, <2>1, <2>2 DEF Claim
  <2>3. CASE ~Claimed(c)
    <3>1. PICK label \in {"lane", "gate"} : Hold(c, label)
      BY <1>7, <2>3 DEF Claim
    <3>2. con'[c].pc = label /\ con'[c].e.t = con[c].e.t /\ Only(c)
      BY <1>0, <3>1 DEF Pcs
    <3> QED BY <1>7, <1>a, <2>1, <2>3, <3>2 DEF Claim
  <2> QED BY <2>2, <2>3
<1>8. CASE Enter(c)
  BY <1>0, <1>8, <1>a DEF Enter, Pcs
<1>9. CASE Advance(c)
  BY <1>9 DEF Advance, Moves, PendingInv, Queued, InHand
<1>10. CASE Returns(c)
  BY <1>0, <1>10, <1>a DEF Returns, Pcs
<1>11. CASE Finish(c)
  <2>1. con[c].pc = "checking" /\ Only(c) /\ con[c].e.t \in Tickets
    BY <1>0, <1>11 DEF Finish
  <2>2. CASE dedupe' = dedupe \ {con[c].e.t} /\ UNCHANGED queue
    BY <1>b, <1>c, <2>1, <2>2
  <2>3. CASE EnqueueTo(con[c].e.t, dedupe \ {con[c].e.t})
    <3>1. queue' = Append(queue, Ranked(con[c].e.t))
          /\ dedupe' = (dedupe \ {con[c].e.t}) \union {con[c].e.t}
      BY <2>3 DEF EnqueueTo
    <3>2. Ranked(con[c].e.t) \in Entry /\ Ranked(con[c].e.t).t = con[c].e.t
      BY <1>0, <2>1, RankedType DEF Ranked
    <3>3. \A t : (t = con[c].e.t => Queued(t)') /\ (Queued(t) => Queued(t)')
      BY <1>0, <3>1, <3>2, AppendQueued
    <3> QED BY <2>1, <3>1, <3>3, PendingStep
  <2> QED BY <1>11, <2>2, <2>3 DEF Finish
<1>12. CASE Crash(c)
  BY <1>0, <1>12, <1>b, <1>c DEF Crash
<1> QED BY <1>1, <1>2, <1>3, <1>4, <1>5, <1>6, <1>7, <1>8, <1>9, <1>10, <1>11, <1>12 DEF Consume

LEMMA PendingPreserved == WInv /\ PendingInv /\ [WNext]_wvars => PendingInv'
<1> SUFFICES ASSUME WInv, PendingInv, [WNext]_wvars PROVE PendingInv'
  OBVIOUS
<1>0. WTypeOK /\ (UNCHANGED con => \A t : InHand(t) => InHand(t)')
  BY DEF WInv, InHand
<1>1. CASE UNCHANGED wvars
  BY <1>1 DEF wvars, PendingInv, InHand, Queued
<1>2. CASE WRestart
  BY <1>2 DEF WRestart, PendingInv
<1>3. ASSUME NEW c \in Consumers, Consume(c) PROVE PendingInv'
  BY <1>3, ConsumePending
<1>4. ASSUME NEW t \in Tickets, NEW d, dedupe' \subseteq d, d = dedupe \union {t},
             queue' = Append(queue, Ranked(t)), UNCHANGED con
      PROVE  PendingInv'
  <2>1. Ranked(t) \in Entry /\ Ranked(t).t = t
    BY <1>0, RankedType DEF Ranked
  <2>2. Queued(t)' /\ \A u : Queued(u) => Queued(u)'
    BY <1>0, <1>4, <2>1, AppendQueued
  <2> QED BY <1>0, <1>4, <2>2 DEF PendingInv
<1>5. ASSUME UNCHANGED <<queue, con>>, dedupe' \subseteq dedupe PROVE PendingInv'
  BY <1>0, <1>5 DEF PendingInv, Queued
<1>6. ASSUME NEW t \in Tickets, Sweep(t) \/ SweepFails(t) \/ Moves(t) PROVE PendingInv'
  <2>1. CASE Sweep(t)
    BY <1>4, <1>5, <2>1 DEF Sweep, EnqueueTo
  <2>2. CASE SweepFails(t)
    BY <2>2 DEF SweepFails, PendingInv
  <2>3. CASE Moves(t)
    BY <1>5, <2>3 DEF Moves
  <2> QED BY <1>6, <2>1, <2>2, <2>3
<1>7. ASSUME NEW h \in Threads, ApiPut(h) \/ ForceRequeue(h) PROVE PendingInv'
  <2>1. CASE ApiPut(h)
    <3>1. api[h].t \in Tickets
      BY <1>0, <2>1 DEF ApiPut, WTypeOK, Idle
    <3> QED BY <1>4, <2>1, <3>1 DEF ApiPut
  <2>2. CASE ForceRequeue(h)
    BY <1>5, <2>2 DEF ForceRequeue
  <2> QED BY <1>7, <2>1, <2>2
<1>8. ASSUME NEW h \in Threads, NEW t \in Tickets, ApiTest(h, t) \/ SetPriority(h, t) PROVE PendingInv'
  BY <1>5, <1>8 DEF ApiTest, SetPriority
<1>9. CASE Drain
  BY <1>5, <1>9 DEF Drain
<1> QED BY <1>1, <1>2, <1>3, <1>6, <1>7, <1>8, <1>9 DEF WNext, WNextUp

-----------------------------------------------------------------------------

(***************************************************************************)
(* The worker's state keeps its types, and its claims match its runs.      *)
(***************************************************************************)
THEOREM WorkerInvariant == WSpec => []WInv
<1> QED BY InitWInv, StepWInv, PTL DEF WSpec

(***************************************************************************)
(* Two consumers never work one ticket at once, in the same or in          *)
(* different stages, however many entries of it the queue holds            *)
(* (Worker._try_claim).                                                    *)
(***************************************************************************)
THEOREM NoTicketRunsTwice == WSpec => []OneRunPerTicket
<1>1. WInv => OneRunPerTicket
  BY DEF WInv, ClaimInv
<1> QED BY <1>1, WorkerInvariant, PTL

(***************************************************************************)
(* No claim is leaked: whatever way a run ends, its ticket can be claimed  *)
(* again (the finally block of Worker._run).                               *)
(***************************************************************************)
THEOREM NoClaimIsLeaked == WSpec => []ClaimsAreHeld
<1>1. WInv => ClaimsAreHeld
  BY DEF WInv, ClaimInv
<1> QED BY <1>1, WorkerInvariant, PTL

(***************************************************************************)
(* The queue, the sets and the consumers keep their types.                 *)
(***************************************************************************)
THEOREM WorkerTypeCorrect == WSpec => []WTypeOK
<1>1. WInv => WTypeOK
  BY DEF WInv
<1> QED BY <1>1, WorkerInvariant, PTL

(***************************************************************************)
(* The consumer loop leaves nothing behind: types, claims, and, unless a   *)
(* look-up raises in enqueue(), every id of _pending has an entry in the   *)
(* queue or a consumer that works on it (Worker.enqueue, Worker._run).     *)
(***************************************************************************)
THEOREM QueueLeaksNothing == WSpec => []NothingIsLeaked
<1>1. WInit => PendingInv
  BY DEF WInit, PendingInv
<1>2. WSpec => []PendingInv
  BY <1>1, PendingPreserved, WorkerInvariant, PTL DEF WSpec
<1>3. WInv /\ PendingInv => NothingIsLeaked
  BY DEF WInv, ClaimInv, PendingInv, InHand, PendingIsBacked, NothingIsLeaked
<1> QED BY <1>2, <1>3, WorkerInvariant, PTL

-----------------------------------------------------------------------------
(* The gate. *)

(***************************************************************************)
(* The safety of the gate for every number of callers, every cap and every *)
(* reservation.  The inductive invariant is the conjunction of the four    *)
(* parts below: a release may only push _value up to the cap because the   *)
(* releasing caller is counted (SlotConservation), the quota holds because *)
(* the free slots and the occupants add up, and one grant per release is   *)
(* enough because no waiter was admissible before it (NoIdleSlot).  The    *)
(* order of admission (AdmitsBestRanked) rests besides on HeapInv: an      *)
(* entry is of a suspended caller and the entries are strictly ordered.    *)
(***************************************************************************)

IInv == TypeOK /\ SlotConservation /\ ReservedKept /\ NoIdleSlot

\* The clamp leaves at least one slot to unprivileged callers.
LEMMA ReservedRange == Reserved \in 0..(Value - 1)
  BY GateArguments DEF Reserved

\* Occupants are callers, hence finitely many, and counted by a natural.
LEMMA OccupantsFinite ==
  /\ IsFiniteSet(Occupants) /\ Cardinality(Occupants) \in Nat
  /\ IsFiniteSet(Unprivileged) /\ Cardinality(Unprivileged) \in Nat
  /\ Cardinality(Unprivileged) <= Cardinality(Occupants)
<1>1. Occupants \subseteq Callers /\ Unprivileged \subseteq Occupants
  BY DEF Occupants, Unprivileged
<1>2. IsFiniteSet(Occupants)
  BY <1>1, FS_Subset, GateArguments
<1>3. IsFiniteSet(Unprivileged) /\ Cardinality(Unprivileged) <= Cardinality(Occupants)
  BY <1>1, <1>2, FS_Subset
<1> QED BY <1>2, <1>3, FS_CardinalityType

\* A set of callers counts at most as much as a set that contains it.
LEMMA SubsetCount ==
  ASSUME NEW S, NEW T, IsFiniteSet(T), S \subseteq T
  PROVE  /\ IsFiniteSet(S)
         /\ Cardinality(S) \in Nat /\ Cardinality(T) \in Nat
         /\ Cardinality(S) <= Cardinality(T)
  BY FS_Subset, FS_CardinalityType

\* The counting behind every action: it adds one occupant, or removes one,
\* or exchanges one for another, or changes none.
LEMMA CountAdd ==
  ASSUME NEW S, NEW x, IsFiniteSet(S), x \notin S
  PROVE  /\ IsFiniteSet(S \union {x})
         /\ Cardinality(S \union {x}) = Cardinality(S) + 1
  BY FS_AddElement

LEMMA CountRemove ==
  ASSUME NEW S, NEW x, IsFiniteSet(S), x \in S
  PROVE  /\ IsFiniteSet(S \ {x})
         /\ Cardinality(S \ {x}) = Cardinality(S) - 1
         /\ Cardinality(S) > 0
<1>1. IsFiniteSet(S \ {x}) /\ Cardinality(S \ {x}) = Cardinality(S) - 1
  BY FS_RemoveElement
<1>2. Cardinality(S \ {x}) \in Nat /\ Cardinality(S) \in Nat
  BY <1>1, FS_CardinalityType
<1> QED BY <1>1, <1>2

\* Initially every slot is free and nobody waits.
LEMMA InitIInv == Init => IInv
<1> SUFFICES ASSUME Init PROVE IInv
  OBVIOUS
<1>1. (CHOOSE r \in Ranks : TRUE) \in Ranks
  BY GateArguments
<1>2. TypeOK
  BY <1>1, GateArguments DEF Init, TypeOK, Phases
<1>3. Occupants = {}
  BY DEF Init, Occupants, Occupying
<1>4. Unprivileged = {}
  BY <1>3 DEF Unprivileged
<1>5. Cardinality({}) = 0
  BY FS_EmptySet
<1>6. SlotConservation
  BY <1>3, <1>5, GateArguments DEF SlotConservation, Init
<1>7. ReservedKept
  BY <1>4, <1>5, ReservedRange, GateArguments DEF ReservedKept
<1>8. NoIdleSlot
  BY DEF NoIdleSlot, Init, Live
<1> QED BY <1>2, <1>6, <1>7, <1>8 DEF IInv

-----------------------------------------------------------------------------

\* The fast path takes a slot only when the reservation allows it.
LEMMA AcquireFastIInv ==
  ASSUME IInv, NEW c \in Callers, NEW r \in Ranks, NEW p \in BOOLEAN, AcquireFast(c, r, p)
  PROVE  IInv'
<1> USE GateArguments
<1>1. value > 0 /\ value \in Nat /\ value' = value - 1 /\ pc[c] = "idle"
  BY DEF AcquireFast, CanAdmit, IInv, TypeOK
<1>2. priv' = priv \union {c} \/ (priv' = priv \ {c} /\ value > Reserved)
  <2>1. CASE p
    BY <2>1 DEF AcquireFast, SetPriv
  <2>2. CASE ~p
    BY <2>2 DEF AcquireFast, SetPriv, CanAdmit
  <2> QED BY <2>1, <2>2
<1>3. priv' \subseteq Callers
  BY <1>2 DEF IInv, TypeOK
<1>4. TypeOK'
  BY <1>1, <1>3 DEF IInv, TypeOK, AcquireFast, Phases
<1>5. Occupants' = Occupants \union {c} /\ c \notin Occupants
  BY <1>1 DEF AcquireFast, Occupants, Occupying, IInv, TypeOK
<1>6. Cardinality(Occupants') = Cardinality(Occupants) + 1 /\ IsFiniteSet(Occupants')
  BY <1>5, CountAdd, OccupantsFinite
<1>7. SlotConservation'
  BY <1>1, <1>6, OccupantsFinite DEF IInv, SlotConservation
<1>8. ReservedKept'
  <2>1. CASE priv' = priv \union {c}
    <3>1. Unprivileged' \subseteq Unprivileged
      BY <2>1, <1>5 DEF Unprivileged
    <3>2. Cardinality(Unprivileged') \in Nat /\ Cardinality(Unprivileged') <= Cardinality(Unprivileged)
      BY <3>1, OccupantsFinite, SubsetCount
    <3> QED BY <3>2, OccupantsFinite, ReservedRange DEF IInv, ReservedKept
  <2>2. CASE value > Reserved
    <3>1. Unprivileged' \subseteq Occupants'
      BY DEF Unprivileged
    <3>2. Cardinality(Unprivileged') \in Nat /\ Cardinality(Unprivileged') <= Cardinality(Occupants')
      BY <3>1, <1>6, SubsetCount
    <3>3. Cardinality(Occupants') = Value - value + 1
      BY <1>1, <1>6, OccupantsFinite DEF IInv, SlotConservation
    <3> QED BY <2>2, <3>2, <3>3, <1>1, ReservedRange DEF ReservedKept
  <2> QED BY <1>2, <2>1, <2>2
<1>9. NoIdleSlot'
  <2> SUFFICES ASSUME NEW w \in Callers, pc'[w] = "waiting"
               PROVE  w \in heap' /\ ~CanAdmit(value', w, priv')
    BY DEF NoIdleSlot, Live
  <2>1. w # c /\ pc[w] = "waiting"
    BY <1>1 DEF AcquireFast, IInv, TypeOK
  <2>2. w \in heap /\ ~CanAdmit(value, w, priv)
    BY <2>1 DEF IInv, NoIdleSlot, Live
  <2>3. w \in priv' <=> w \in priv
    BY <1>2, <2>1
  <2>4. ~CanAdmit(value', w, priv')
    BY <1>1, <2>2, <2>3, ReservedRange DEF CanAdmit
  <2> QED BY <2>2, <2>4 DEF AcquireFast
<1> QED BY <1>4, <1>7, <1>8, <1>9 DEF IInv

\* A caller that queues cannot be admitted at that moment: the fast path was
\* closed to it, and not by an admissible waiter, since there is none.
LEMMA AcquireWaitIInv ==
  ASSUME IInv, NEW c \in Callers, NEW r \in Ranks, NEW p \in BOOLEAN, AcquireWait(c, r, p)
  PROVE  IInv'
<1> USE GateArguments
<1>1. pc[c] = "idle" /\ value' = value /\ heap' = heap \union {c}
  BY DEF AcquireWait
<1>2. priv' = priv \union {c} \/ priv' = priv \ {c}
  BY DEF AcquireWait, SetPriv
<1>3. ~AdmissibleWaiterExists
  BY DEF IInv, NoIdleSlot, AdmissibleWaiterExists, TypeOK
<1>4. ~CanAdmit(value, c, priv')
  BY <1>3 DEF AcquireWait
<1>5. priv' \subseteq Callers
  BY <1>2 DEF IInv, TypeOK
<1>6. TypeOK'
  BY <1>1, <1>5 DEF IInv, TypeOK, AcquireWait, Phases
<1>7. Occupants' = Occupants /\ c \notin Occupants
  BY <1>1 DEF AcquireWait, Occupants, Occupying, IInv, TypeOK
<1>8. Unprivileged' = Unprivileged
  BY <1>2, <1>7 DEF Unprivileged
<1>9. SlotConservation' /\ ReservedKept'
  BY <1>1, <1>7, <1>8 DEF IInv, SlotConservation, ReservedKept
<1>10. NoIdleSlot'
  <2> SUFFICES ASSUME NEW w \in Callers, pc'[w] = "waiting"
               PROVE  w \in heap' /\ ~CanAdmit(value', w, priv')
    BY DEF NoIdleSlot, Live
  <2>1. CASE w = c
    BY <2>1, <1>1, <1>4
  <2>2. CASE w # c
    <3>1. pc[w] = "waiting"
      BY <2>2 DEF AcquireWait, IInv, TypeOK
    <3>2. w \in heap /\ ~CanAdmit(value, w, priv)
      BY <3>1 DEF IInv, NoIdleSlot, Live
    <3>3. w \in priv' <=> w \in priv
      BY <1>2, <2>2
    <3> QED BY <1>1, <3>2, <3>3 DEF CanAdmit
  <2> QED BY <2>1, <2>2
<1> QED BY <1>6, <1>9, <1>10 DEF IInv

-----------------------------------------------------------------------------

\* _release_slot by an occupant, whether it ran (release) or was cancelled
\* after its grant (the except clause of acquire).
LEMMA ReleaseSlotIInv ==
  ASSUME IInv, NEW c \in Callers, c \in Occupants, ReleaseSlot(c), UNCHANGED <<rank, priv>>
  PROVE  IInv'
<1> USE GateArguments
<1> DEFINE idle == [pc EXCEPT ![c] = "idle"]
           free == value + 1
           eligible == {w \in heap : idle[w] = "waiting" /\ CanAdmit(free, w, priv)}
           stale == {w \in heap : idle[w] = "cancelled"}
<1>1. /\ value \in Nat /\ value <= Value /\ pc \in [Callers -> Phases]
      /\ heap \subseteq Callers /\ priv \subseteq Callers
      /\ arrived \subseteq Callers \X Callers
  BY DEF IInv, TypeOK
<1>2. /\ Cardinality(Occupants \ {c}) = Cardinality(Occupants) - 1
      /\ IsFiniteSet(Occupants \ {c})
      /\ Cardinality(Occupants) \in Nat /\ Cardinality(Occupants) > 0
      /\ value + Cardinality(Occupants) = Value
  BY CountRemove, OccupantsFinite DEF IInv, SlotConservation
<1>3. CASE /\ eligible = {}
           /\ value' = free
           /\ pc' = idle
           /\ DropFromHeap(stale)
  <2>1. TypeOK'
    BY <1>1, <1>2, <1>3 DEF IInv, TypeOK, Phases, DropFromHeap
  <2>2. Occupants' = Occupants \ {c}
    BY <1>1, <1>3 DEF Occupants, Occupying
  <2>3. SlotConservation'
    BY <1>1, <1>2, <1>3, <2>2 DEF SlotConservation
  <2>4. Unprivileged' \subseteq Unprivileged
    BY <2>2 DEF Unprivileged
  <2>5. Cardinality(Unprivileged') \in Nat /\ Cardinality(Unprivileged') <= Cardinality(Unprivileged)
    BY <2>4, OccupantsFinite, SubsetCount
  <2>6. ReservedKept'
    BY <2>5, OccupantsFinite, ReservedRange DEF IInv, ReservedKept
  <2>7. NoIdleSlot'
    <3> SUFFICES ASSUME NEW w \in Callers, pc'[w] = "waiting"
                 PROVE  w \in heap' /\ ~CanAdmit(value', w, priv')
      BY DEF NoIdleSlot, Live
    <3>1. w # c /\ pc[w] = "waiting" /\ idle[w] = "waiting"
      BY <1>1, <1>3
    <3>2. w \in heap
      BY <3>1 DEF IInv, NoIdleSlot, Live
    <3>3. ~CanAdmit(free, w, priv)
      BY <1>3, <3>1, <3>2
    <3>4. w \in heap'
      BY <1>3, <3>1, <3>2 DEF DropFromHeap
    <3> QED BY <1>3, <3>3, <3>4
  <2> QED BY <2>1, <2>3, <2>6, <2>7 DEF IInv
<1>4. ASSUME NEW w \in eligible,
             value' = free - 1,
             pc' = [idle EXCEPT ![w] = "granted"],
             DropFromHeap({w} \union {o \in stale : Outranks(o, w)})
      PROVE  IInv'
  <2>1. w \in heap /\ w \in Callers /\ w # c /\ pc[w] = "waiting" /\ CanAdmit(free, w, priv)
    BY <1>1
  <2>2. value' = value
    BY <1>1, <1>4
  <2>3. TypeOK'
    BY <1>1, <1>4, <2>1, <2>2 DEF IInv, TypeOK, Phases, DropFromHeap
  <2>4. Occupants' = (Occupants \ {c}) \union {w} /\ w \notin Occupants \ {c}
    BY <1>1, <1>4, <2>1 DEF Occupants, Occupying
  <2>5. IsFiniteSet(Occupants') /\ Cardinality(Occupants') = Cardinality(Occupants)
    <3>1. /\ IsFiniteSet((Occupants \ {c}) \union {w})
          /\ Cardinality((Occupants \ {c}) \union {w}) = Cardinality(Occupants \ {c}) + 1
      BY <1>2, <2>4, CountAdd
    <3> QED BY <1>2, <2>4, <3>1
  <2>6. SlotConservation'
    BY <1>2, <2>2, <2>5 DEF SlotConservation
  <2>7. ReservedKept'
    <3>1. CASE w \in priv
      <4>1. Unprivileged' \subseteq Unprivileged
        BY <2>4, <3>1 DEF Unprivileged
      <4>2. Cardinality(Unprivileged') \in Nat /\ Cardinality(Unprivileged') <= Cardinality(Unprivileged)
        BY <4>1, OccupantsFinite, SubsetCount
      <4> QED BY <4>2, OccupantsFinite, ReservedRange DEF IInv, ReservedKept
    <3>2. CASE w \notin priv
      <4>1. value + 1 > Reserved
        BY <2>1, <3>2 DEF CanAdmit
      <4>2. Unprivileged' \subseteq Occupants'
        BY DEF Unprivileged
      <4>3. Cardinality(Unprivileged') \in Nat /\ Cardinality(Unprivileged') <= Cardinality(Occupants')
        BY <4>2, <2>5, SubsetCount
      <4> QED BY <4>1, <4>3, <2>5, <1>1, <1>2, ReservedRange DEF ReservedKept
    <3> QED BY <3>1, <3>2
  <2>8. NoIdleSlot'
    <3> SUFFICES ASSUME NEW x \in Callers, pc'[x] = "waiting"
                 PROVE  x \in heap' /\ ~CanAdmit(value', x, priv')
      BY DEF NoIdleSlot, Live
    <3>1. x # c /\ x # w /\ pc[x] = "waiting" /\ idle[x] = "waiting"
      BY <1>1, <1>4, <2>1
    <3>2. x \in heap /\ ~CanAdmit(value, x, priv)
      BY <3>1 DEF IInv, NoIdleSlot, Live
    <3>3. x \in heap'
      BY <1>4, <3>1, <3>2 DEF DropFromHeap
    <3> QED BY <2>2, <3>2, <3>3
  <2> QED BY <2>3, <2>6, <2>7, <2>8 DEF IInv
<1> QED BY <1>3, <1>4 DEF ReleaseSlot

\* The steps that only move one caller from one phase to another.
LEMMA PhaseStepIInv ==
  ASSUME IInv, NEW c \in Callers,
         Resume(c) \/ CancelWaiting(c) \/ CancelGranted(c) \/ AbandonWait(c)
  PROVE  IInv'
<1> USE GateArguments
<1>1. value' = value /\ priv' = priv /\ rank' = rank
  BY DEF Resume, CancelWaiting, CancelGranted, AbandonWait
<1>2. PICK ph \in Phases \ {"waiting"} :
        /\ pc' = [pc EXCEPT ![c] = ph]
        /\ ph \in Occupying <=> pc[c] \in Occupying
  BY DEF Resume, CancelWaiting, CancelGranted, AbandonWait, Phases, Occupying
<1>3. /\ heap \ {c} \subseteq heap' /\ heap' \subseteq Callers
      /\ arrived' \subseteq Callers \X Callers
  BY DEF Resume, CancelWaiting, CancelGranted, AbandonWait, DropFromHeap, IInv, TypeOK
<1>4. TypeOK'
  BY <1>1, <1>2, <1>3 DEF IInv, TypeOK
<1>5. Occupants' = Occupants
  BY <1>2 DEF Occupants, IInv, TypeOK
<1>6. Unprivileged' = Unprivileged
  BY <1>1, <1>5 DEF Unprivileged
<1>7. SlotConservation' /\ ReservedKept'
  BY <1>1, <1>5, <1>6 DEF IInv, SlotConservation, ReservedKept
<1>8. NoIdleSlot'
  <2> SUFFICES ASSUME NEW w \in Callers, pc'[w] = "waiting"
               PROVE  w \in heap' /\ ~CanAdmit(value', w, priv')
    BY DEF NoIdleSlot, Live
  <2>1. w # c /\ pc[w] = "waiting"
    BY <1>2 DEF IInv, TypeOK
  <2>2. w \in heap /\ ~CanAdmit(value, w, priv)
    BY <2>1 DEF IInv, NoIdleSlot, Live
  <2> QED BY <1>1, <1>3, <2>1, <2>2
<1> QED BY <1>4, <1>7, <1>8 DEF IInv

\* One step per action of the gate.
LEMMA NextIInv == IInv /\ [Next]_vars => IInv'
<1> SUFFICES ASSUME IInv, [Next]_vars PROVE IInv'
  OBVIOUS
<1>1. CASE UNCHANGED vars
  BY <1>1 DEF vars, IInv, TypeOK, SlotConservation, ReservedKept, NoIdleSlot,
              Occupants, Unprivileged, Live
<1>2. ASSUME NEW c \in Callers, Acquire(c) PROVE IInv'
  BY <1>2, AcquireFastIInv, AcquireWaitIInv DEF Acquire
<1>3. ASSUME NEW c \in Callers, Release(c) \/ PassOn(c) PROVE IInv'
  <2>1. c \in Occupants
    BY <1>3 DEF Release, PassOn, Occupants, Occupying
  <2> QED BY <1>3, <2>1, ReleaseSlotIInv DEF Release, PassOn
<1>4. ASSUME NEW c \in Callers,
             Resume(c) \/ CancelWaiting(c) \/ CancelGranted(c) \/ AbandonWait(c)
      PROVE  IInv'
  BY <1>4, PhaseStepIInv
<1> QED BY <1>1, <1>2, <1>3, <1>4 DEF Next

\* The conjunction is an invariant of every behaviour of the gate.
THEOREM GateInvariant == Spec => []IInv
<1>1. Init => IInv
  BY InitIInv
<1>2. IInv /\ [Next]_vars => IInv'
  BY NextIInv
<1> QED BY <1>1, <1>2, PTL DEF Spec

\* Type correctness: in particular _value stays within 0..value.
THEOREM GateTypeCorrect == Spec => []TypeOK
<1>1. IInv => TypeOK
  BY DEF IInv
<1> QED BY <1>1, GateInvariant, PTL

\* The cap holds and no cancellation leaks a slot.
THEOREM GateConservesSlots == Spec => []SlotConservation
<1>1. IInv => SlotConservation
  BY DEF IInv
<1> QED BY <1>1, GateInvariant, PTL

\* Unprivileged work never occupies a reserved slot.
THEOREM GateKeepsReserve == Spec => []ReservedKept
<1>1. IInv => ReservedKept
  BY DEF IInv
<1> QED BY <1>1, GateInvariant, PTL

\* A task never sleeps in acquire while a slot it may take is free.
THEOREM GateHasNoIdleSlot == Spec => []NoIdleSlot
<1>1. IInv => NoIdleSlot
  BY DEF IInv
<1> QED BY <1>1, GateInvariant, PTL

\* Thanks to the clamp, nobody waits on a gate that nobody occupies.
THEOREM GateWaitersHaveOccupant == Spec => []WaitersHaveOccupant
<1>1. IInv => WaitersHaveOccupant
  <2> SUFFICES ASSUME IInv, NEW w \in Callers, Live(w), Occupants = {} PROVE FALSE
    BY DEF WaitersHaveOccupant
  <2>1. value = Value
    BY FS_EmptySet, GateArguments DEF IInv, TypeOK, SlotConservation
  <2>2. CanAdmit(value, w, priv)
    BY <2>1, ReservedRange, GateArguments DEF CanAdmit
  <2> QED BY <2>2 DEF IInv, NoIdleSlot
<1> QED BY <1>1, GateInvariant, PTL

\* The gate's safety as the runs check it, for any callers, slots and reserve.
THEOREM GateSound == Spec => []GateIsSound
<1>1. TypeOK /\ SlotConservation /\ ReservedKept /\ NoIdleSlot /\ WaitersHaveOccupant
        => GateIsSound
  BY DEF GateIsSound
<1> QED BY <1>1, GateTypeCorrect, GateConservesSlots, GateKeepsReserve, GateHasNoIdleSlot,
           GateWaitersHaveOccupant, PTL

-----------------------------------------------------------------------------

(***************************************************************************)
(* Best rank first needs one more fact than the counting: the heap holds   *)
(* only callers whose future is pending or cancelled, and the sequence     *)
(* numbers order its entries, so two entries never outrank each other.     *)
(***************************************************************************)
HeapIsQueued == \A c \in heap : pc[c] \in {"waiting", "cancelled"}

ArrivalIsOrdered ==
  /\ arrived \subseteq heap \X heap
  /\ \A a, b \in heap : <<a, b>> \in arrived => <<b, a>> \notin arrived

HeapInv == HeapIsQueued /\ ArrivalIsOrdered

\* Dropping entries keeps the rest ordered.
LEMMA DropKeepsOrder ==
  ASSUME ArrivalIsOrdered, NEW S, DropFromHeap(S)
  PROVE  ArrivalIsOrdered'
  BY DEF ArrivalIsOrdered, DropFromHeap

\* An entry is added only behind all the others, by a caller that has none.
LEMMA AcquireHeapInv ==
  ASSUME IInv, HeapInv, NEW c \in Callers, Acquire(c)
  PROVE  HeapInv'
<1>1. PICK r \in Ranks, p \in BOOLEAN : AcquireFast(c, r, p) \/ AcquireWait(c, r, p)
  BY DEF Acquire
<1>2. pc[c] = "idle" /\ pc \in [Callers -> Phases] /\ heap \subseteq Callers
  BY <1>1 DEF AcquireFast, AcquireWait, IInv, TypeOK
<1>3. c \notin heap
  BY <1>2 DEF HeapInv, HeapIsQueued
<1>4. CASE AcquireFast(c, r, p)
  <2>1. heap' = heap /\ arrived' = arrived /\ \A d \in heap : pc'[d] = pc[d]
    BY <1>2, <1>3, <1>4 DEF AcquireFast
  <2> QED BY <2>1 DEF HeapInv, HeapIsQueued, ArrivalIsOrdered
<1>5. CASE AcquireWait(c, r, p)
  <2>1. /\ heap' = heap \union {c} /\ arrived' = arrived \union (heap \X {c})
        /\ pc'[c] = "waiting" /\ \A d \in heap : pc'[d] = pc[d]
    BY <1>2, <1>3, <1>5 DEF AcquireWait
  <2>2. HeapIsQueued'
    BY <2>1 DEF HeapInv, HeapIsQueued
  <2>3. arrived' \subseteq heap' \X heap'
    BY <2>1 DEF HeapInv, ArrivalIsOrdered
  <2>4. ASSUME NEW a \in heap', NEW b \in heap', <<a, b>> \in arrived', <<b, a>> \in arrived'
        PROVE  FALSE
    <3>1. CASE <<a, b>> \in arrived
      <4>1. a \in heap /\ b \in heap
        BY <3>1 DEF HeapInv, ArrivalIsOrdered
      <4>2. <<b, a>> \in arrived
        BY <1>3, <2>1, <2>4, <4>1
      <4> QED BY <3>1, <4>1, <4>2 DEF HeapInv, ArrivalIsOrdered
    <3>2. CASE a \in heap /\ b = c
      BY <1>3, <2>1, <2>4, <3>2 DEF HeapInv, ArrivalIsOrdered
    <3> QED BY <2>1, <2>4, <3>1, <3>2
  <2> QED BY <2>2, <2>3, <2>4 DEF HeapInv, ArrivalIsOrdered
<1> QED BY <1>1, <1>4, <1>5

\* A release pops what it grants, and the releasing caller has no entry.
LEMMA ReleaseHeapInv ==
  ASSUME IInv, HeapInv, NEW c \in Callers, c \in Occupants, ReleaseSlot(c)
  PROVE  HeapInv'
<1> DEFINE idle == [pc EXCEPT ![c] = "idle"]
           eligible == {w \in heap : idle[w] = "waiting" /\ CanAdmit(value + 1, w, priv)}
           stale == {w \in heap : idle[w] = "cancelled"}
<1>1. pc \in [Callers -> Phases] /\ heap \subseteq Callers
  BY DEF IInv, TypeOK
<1>0. c \notin heap
  BY DEF Occupants, Occupying, HeapInv, HeapIsQueued
<1>2. CASE eligible = {} /\ pc' = idle /\ DropFromHeap(stale)
  <2>1. HeapIsQueued'
    BY <1>1, <1>0, <1>2 DEF HeapInv, HeapIsQueued, DropFromHeap
  <2> QED BY <1>2, <2>1, DropKeepsOrder DEF HeapInv
<1>3. ASSUME NEW w \in eligible,
             pc' = [idle EXCEPT ![w] = "granted"],
             DropFromHeap({w} \union {o \in stale : Outranks(o, w)})
      PROVE  HeapInv'
  <2>1. HeapIsQueued'
    BY <1>1, <1>0, <1>3 DEF HeapInv, HeapIsQueued, DropFromHeap
  <2> QED BY <1>3, <2>1, DropKeepsOrder DEF HeapInv
<1> QED BY <1>2, <1>3 DEF ReleaseSlot

LEMMA PhaseStepHeapInv ==
  ASSUME IInv, HeapInv, NEW c \in Callers,
         Resume(c) \/ CancelWaiting(c) \/ CancelGranted(c) \/ AbandonWait(c)
  PROVE  HeapInv'
<1>1. pc \in [Callers -> Phases] /\ heap \subseteq Callers
  BY DEF IInv, TypeOK
<1>2. CASE Resume(c) \/ CancelGranted(c)
  <2>1. c \notin heap
    BY <1>2 DEF Resume, CancelGranted, HeapInv, HeapIsQueued
  <2> QED BY <1>1, <1>2, <2>1 DEF Resume, CancelGranted, HeapInv, HeapIsQueued, ArrivalIsOrdered
<1>3. CASE CancelWaiting(c)
  BY <1>1, <1>3 DEF CancelWaiting, HeapInv, HeapIsQueued, ArrivalIsOrdered
<1>4. CASE AbandonWait(c)
  <2>1. HeapIsQueued'
    BY <1>1, <1>4 DEF AbandonWait, DropFromHeap, HeapInv, HeapIsQueued
  <2> QED BY <1>4, <2>1, DropKeepsOrder DEF AbandonWait, HeapInv
<1> QED BY <1>2, <1>3, <1>4

(***************************************************************************)
(* The order of admission.  The fast path is closed while any waiter may   *)
(* be admitted, and a release grants the slot to an entry that outranks    *)
(* every other admissible one.                                             *)
(***************************************************************************)
BestFirst ==
  \A c \in Occupants' \ Occupants, w \in Callers :
    /\ Live(w) /\ Live(w)'
    /\ rank[w] < rank'[c] \/ (rank[w] = rank'[c] /\ (<<w, c>> \in arrived \/ c \notin heap))
    => ~(w \in priv \/ value' + 1 > Reserved)

LEMMA AcquireBestFirst ==
  ASSUME IInv, NEW c \in Callers, Acquire(c)
  PROVE  BestFirst
<1>1. PICK r \in Ranks, p \in BOOLEAN : AcquireFast(c, r, p) \/ AcquireWait(c, r, p)
  BY DEF Acquire
<1>2. CASE AcquireFast(c, r, p)
  <2>1. value \in Nat /\ value > 0 /\ value' = value - 1 /\ ~AdmissibleWaiterExists
    BY <1>2, GateArguments DEF AcquireFast, CanAdmit, IInv, TypeOK
  <2>2. ASSUME NEW w \in Callers, Live(w) PROVE ~(w \in priv \/ value > Reserved)
    BY <2>1, <2>2 DEF AdmissibleWaiterExists, CanAdmit, IInv, NoIdleSlot
  <2>3. value' + 1 = value
    BY <2>1
  <2> QED BY <2>2, <2>3 DEF BestFirst
<1>3. CASE AcquireWait(c, r, p)
  <2>1. Occupants' \subseteq Occupants
    BY <1>3 DEF AcquireWait, Occupants, Occupying, IInv, TypeOK
  <2> QED BY <2>1 DEF BestFirst
<1> QED BY <1>1, <1>2, <1>3

LEMMA ReleaseBestFirst ==
  ASSUME IInv, HeapInv, NEW c \in Callers, c \in Occupants, ReleaseSlot(c), UNCHANGED <<rank, priv>>
  PROVE  BestFirst
<1> USE GateArguments
<1> DEFINE idle == [pc EXCEPT ![c] = "idle"]
           free == value + 1
           eligible == {o \in heap : idle[o] = "waiting" /\ CanAdmit(free, o, priv)}
<1>1. /\ value \in Nat /\ pc \in [Callers -> Phases] /\ heap \subseteq Callers
      /\ rank \in [Callers -> Ranks]
  BY DEF IInv, TypeOK
<1>2. CASE pc' = idle
  <2>1. Occupants' \subseteq Occupants
    BY <1>1, <1>2 DEF Occupants, Occupying
  <2> QED BY <2>1 DEF BestFirst
<1>3. ASSUME NEW g \in eligible, \A o \in eligible \ {g} : Outranks(g, o),
             value' = free - 1, pc' = [idle EXCEPT ![g] = "granted"]
      PROVE  BestFirst
  <2>1. Occupants' \ Occupants \subseteq {g} /\ g \in heap /\ g \in Callers
    BY <1>1, <1>3 DEF Occupants, Occupying
  <2>2. SUFFICES ASSUME NEW w \in Callers, Live(w), Live(w)',
                        rank[w] < rank[g] \/ (rank[w] = rank[g] /\ <<w, g>> \in arrived),
                        w \in priv \/ free > Reserved
                 PROVE  FALSE
    <3>1. value' + 1 = free
      BY <1>1, <1>3
    <3> QED BY <2>1, <3>1 DEF BestFirst
  <2>3. w # g /\ w # c /\ w \in heap /\ idle[w] = "waiting"
    BY <1>1, <1>3, <2>1, <2>2 DEF Live, IInv, NoIdleSlot, Occupants, Occupying
  <2>4. w \in eligible
    BY <1>1, <2>2, <2>3 DEF CanAdmit
  <2>5. rank[g] < rank[w] \/ (rank[g] = rank[w] /\ <<g, w>> \in arrived)
    BY <1>3, <2>3, <2>4 DEF Outranks
  <2>6. rank[g] \in Nat /\ rank[w] \in Nat
    BY <1>1, <2>1
  <2>7. ~(<<g, w>> \in arrived /\ <<w, g>> \in arrived)
    BY <2>1, <2>3 DEF HeapInv, ArrivalIsOrdered
  <2> QED BY <2>2, <2>5, <2>6, <2>7
<1> QED BY <1>2, <1>3 DEF ReleaseSlot

LEMMA NextHeapInv == IInv /\ HeapInv /\ [Next]_vars => HeapInv' /\ (BestFirst \/ UNCHANGED vars)
<1> SUFFICES ASSUME IInv, HeapInv, [Next]_vars PROVE HeapInv' /\ (BestFirst \/ UNCHANGED vars)
  OBVIOUS
<1>1. CASE UNCHANGED vars
  BY <1>1 DEF vars, HeapInv, HeapIsQueued, ArrivalIsOrdered
<1>2. ASSUME NEW c \in Callers, Acquire(c) PROVE HeapInv' /\ BestFirst
  BY <1>2, AcquireHeapInv, AcquireBestFirst
<1>3. ASSUME NEW c \in Callers, Release(c) \/ PassOn(c) PROVE HeapInv' /\ BestFirst
  <2>1. c \in Occupants /\ ReleaseSlot(c) /\ UNCHANGED <<rank, priv>>
    BY <1>3 DEF Release, PassOn, Occupants, Occupying
  <2>2. HeapInv'
    BY <2>1, ReleaseHeapInv
  <2>3. BestFirst
    BY <2>1, ReleaseBestFirst
  <2> QED BY <2>2, <2>3
<1>4. ASSUME NEW c \in Callers,
             Resume(c) \/ CancelWaiting(c) \/ CancelGranted(c) \/ AbandonWait(c)
      PROVE  HeapInv' /\ BestFirst
  <2>1. Occupants' \subseteq Occupants
    BY <1>4 DEF Resume, CancelWaiting, CancelGranted, AbandonWait, Occupants, Occupying,
                IInv, TypeOK
  <2>2. BestFirst
    BY <2>1 DEF BestFirst
  <2> QED BY <1>4, <2>2, PhaseStepHeapInv
<1> QED BY <1>1, <1>2, <1>3, <1>4 DEF Next

\* Every admission is the best-ranked admissible one, first come first served
\* within a rank: no fast path overtakes a waiter the slot was open to.
THEOREM GateAdmitsBestRanked == Spec => AdmitsBestRanked
<1>1. Init => HeapInv
  BY DEF Init, HeapInv, HeapIsQueued, ArrivalIsOrdered
<1>2. IInv /\ HeapInv /\ [Next]_vars => HeapInv'
  BY NextHeapInv
<1>3. IInv /\ HeapInv /\ [Next]_vars => [BestFirst]_vars
  BY NextHeapInv
<1>4. Spec => [][BestFirst]_vars
  BY <1>1, <1>2, <1>3, GateInvariant, PTL DEF Spec
<1> QED BY <1>4 DEF AdmitsBestRanked, BestFirst

-----------------------------------------------------------------------------
(***************************************************************************)
(* The sandbox's slots and containers, for any number of callers, slots,   *)
(* ranks and timeouts.  Three facts make the pool's safety inductive: the  *)
(* queue has each waiting caller once and nobody else (QueueMatches), the  *)
(* counter counts the holders, and while a slot is free the head of the    *)
(* queue is awake.  The containers need two more: what an attempt counts,  *)
(* and that a command does not outlive its timeout.                        *)
(***************************************************************************)

InQueue(q, c) == \E i \in DOMAIN q : q[i] = c
Distinct(q) == \A i, j \in DOMAIN q : q[i] = q[j] => i = j

\* The queue is the set of the callers inside acquire, each of them once.
QueueMatches ==
    /\ Distinct(waiters)
    /\ \A c \in Users : InQueue(waiters, c) <=> spc[c] \in {"asleep", "woken"}

\* The attempt counter starts at zero with each call and stops at the bound.
AttemptsMatch ==
    \A c \in Users :
        /\ spc[c] \in {"out", "asleep", "woken", "granted"} => attempt[c] = 0
        /\ spc[c] = "retrying" => attempt[c] < MaxAttempts

Places == {"out", "asleep", "woken"} \cup Holding

ControlType ==
    /\ spc \in [Users -> Places]
    /\ waiters \in Seq(Users)
    /\ inUse \in 0..SlotCap
    /\ expired \subseteq Users /\ abandoned \subseteq Polled
    /\ attempt \in [Users -> 0..MaxAttempts]

\* The callers' side ...
Control == ControlType /\ QueueMatches /\ AttemptsMatch /\ SlotsMatchHolders /\ FreeSlotIsSeen

\* ... and the daemon's.
Containers ==
    /\ box \in [Users -> 0..NoBox]
    /\ orphans \subseteq 0..MaxAge
    /\ booted \in BOOLEAN /\ pruning \in BOOLEAN

SandboxInv == Control /\ Containers

\* A command ends with its timeout at the latest, and its container is there
\* until then.
RunIsBounded == \A c \in Users : spc[c] = "running" => box[c] <= EffectiveTimeout

\* Neither reaper's threshold is below the time a command may take.
ReapersHaveMargin == OpTimeout > 0 /\ OpTimeout <= ReapAge

-----------------------------------------------------------------------------
(* The queue. *)

\* The entry at index k leaves the queue; the others stay.
LEMMA WithoutEntry ==
    ASSUME NEW S, NEW q \in Seq(S), Distinct(q), NEW c, InQueue(q, c)
    PROVE  /\ Pool!Without(q, c) \in Seq(S)
           /\ Distinct(Pool!Without(q, c))
           /\ \A d : InQueue(Pool!Without(q, c), d) <=> InQueue(q, d) /\ d # c
<1> DEFINE k == CHOOSE i \in DOMAIN q : q[i] = c
           w == Pool!Without(q, c)
<1>1. k \in DOMAIN q /\ q[k] = c
    BY DEF InQueue
<1>2. k \in 1..Len(q) /\ Len(q) \in Nat /\ DOMAIN q = 1..Len(q)
    BY <1>1
<1>3. w = [i \in 1..(Len(q) - 1) |-> IF i < k THEN q[i] ELSE q[i + 1]]
    BY DEF Pool!Without
<1> HIDE DEF k, w
<1>4. w \in Seq(S) /\ DOMAIN w = 1..(Len(q) - 1)
  <2>1. \A i \in 1..(Len(q) - 1) : (IF i < k THEN q[i] ELSE q[i + 1]) \in S
      BY <1>2
  <2>2. w \in [1..(Len(q) - 1) -> S]
      BY <1>3, <2>1
  <2> QED BY <2>2, <1>2, Len(q) - 1 \in Nat
<1>5. Distinct(w)
  <2> SUFFICES ASSUME NEW i \in DOMAIN w, NEW j \in DOMAIN w, w[i] = w[j] PROVE i = j
      BY DEF Distinct
  <2> QED BY <1>1, <1>2, <1>3, <1>4 DEF Distinct
<1>6. ASSUME NEW d PROVE InQueue(w, d) <=> InQueue(q, d) /\ d # c
  <2>1. ASSUME InQueue(w, d) PROVE InQueue(q, d) /\ d # c
    <3>1. PICK i \in 1..(Len(q) - 1) : w[i] = d
        BY <2>1, <1>4 DEF InQueue
    <3>2. CASE i < k
      <4>1. q[i] = d /\ i \in DOMAIN q /\ i # k
          BY <3>1, <3>2, <1>2, <1>3
      <4> QED BY <4>1, <1>1 DEF InQueue, Distinct
    <3>3. CASE ~(i < k)
      <4>1. q[i + 1] = d /\ i + 1 \in DOMAIN q /\ i + 1 # k
          BY <3>1, <3>3, <1>2, <1>3
      <4> QED BY <4>1, <1>1 DEF InQueue, Distinct
    <3> QED BY <3>2, <3>3
  <2>2. ASSUME InQueue(q, d), d # c PROVE InQueue(w, d)
    <3>1. PICK i \in 1..Len(q) : q[i] = d
        BY <2>2, <1>2 DEF InQueue
    <3>2. i # k
        BY <3>1, <2>2, <1>1
    <3>3. CASE i < k
        BY <3>1, <3>3, <1>2, <1>3, <1>4 DEF InQueue
    <3>4. CASE i > k
      <4>1. i - 1 \in 1..(Len(q) - 1) /\ ~(i - 1 < k) /\ (i - 1) + 1 = i
          BY <3>4, <1>2
      <4>2. w[i - 1] = d
          BY <4>1, <3>1, <1>3
      <4> QED BY <4>1, <4>2, <1>4 DEF InQueue
    <3> QED BY <3>2, <3>3, <3>4, <1>2
  <2> QED BY <2>1, <2>2
<1> QED BY <1>4, <1>5, <1>6 DEF w

\* A caller that is not waiting joins the end of the queue.
LEMMA AppendEntry ==
    ASSUME NEW S, NEW q \in Seq(S), Distinct(q), NEW c \in S, ~InQueue(q, c)
    PROVE  /\ Append(q, c) \in Seq(S) /\ Distinct(Append(q, c))
           /\ \A d : InQueue(Append(q, c), d) <=> InQueue(q, d) \/ d = c
           /\ Pool!Without(Append(q, c), c) = q
<1> DEFINE a == Append(q, c)
<1>1. /\ a \in Seq(S) /\ Len(q) \in Nat /\ DOMAIN a = 1..(Len(q) + 1)
      /\ a[Len(q) + 1] = c /\ \A i \in 1..Len(q) : a[i] = q[i]
      /\ DOMAIN q = 1..Len(q)
    OBVIOUS
<1> HIDE DEF a
<1>2. \A i \in DOMAIN a : i = Len(q) + 1 \/ i \in DOMAIN q
    BY <1>1
<1>3. Distinct(a)
  <2> SUFFICES ASSUME NEW i \in DOMAIN a, NEW j \in DOMAIN a, a[i] = a[j] PROVE i = j
      BY DEF Distinct
  <2> QED BY <1>1, <1>2 DEF Distinct, InQueue
<1>4. \A d : InQueue(a, d) <=> InQueue(q, d) \/ d = c
    BY <1>1, <1>2 DEF InQueue
<1>5. (CHOOSE i \in DOMAIN a : a[i] = c) = Len(q) + 1
    BY <1>1, <1>2 DEF InQueue
<1>6. Len(a) = Len(q) + 1
    BY DEF a
<1>7. Pool!Without(a, c) = q
  <2>1. Pool!Without(a, c)
            = [i \in 1..Len(q) |-> IF i < Len(q) + 1 THEN a[i] ELSE a[i + 1]]
    <3>1. Len(a) - 1 = Len(q)
        BY <1>1, <1>6
    <3> QED BY <1>5, <3>1, Zenon DEF Pool!Without
  <2>2. \A i \in 1..Len(q) : i < Len(q) + 1 /\ a[i] = q[i]
      BY <1>1
  <2>3. q = [i \in 1..Len(q) |-> q[i]]
      OBVIOUS
  <2> QED BY <2>1, <2>2, <2>3
<1> QED BY <1>1, <1>3, <1>4, <1>7 DEF a

\* The best waiter is in the queue.
LEMMA BestIsQueued == ASSUME NEW c, NEW q, Pool!IsBest(c, q) PROVE InQueue(q, c)
    BY DEF Pool!IsBest, InQueue

-----------------------------------------------------------------------------
(* The counter and the condition variable. *)

LEMMA HoldersFinite == IsFiniteSet(Holders) /\ Cardinality(Holders) \in Nat
  <1>1. Holders \subseteq Users
      BY DEF Holders
  <1> QED BY <1>1, SandboxAssumption, FS_Subset, FS_CardinalityType

\* A grant adds one holder, a release removes one.
LEMMA SlotTaken ==
    ASSUME inUse \in 0..SlotCap, SlotsMatchHolders, inUse < SlotCap, NEW c, c \notin Holders,
           Holders' = Holders \cup {c}, inUse' = inUse + 1
    PROVE  inUse' \in 0..SlotCap /\ SlotsMatchHolders'
  <1>1. Cardinality(Holders \cup {c}) = Cardinality(Holders) + 1
      BY HoldersFinite, FS_AddElement
  <1>2. inUse' \in 0..SlotCap
      BY SandboxAssumption
  <1> QED BY <1>1, <1>2 DEF SlotsMatchHolders

LEMMA SlotReturned ==
    ASSUME inUse \in 0..SlotCap, SlotsMatchHolders, NEW c, c \in Holders,
           Holders' = Holders \ {c}, inUse' = inUse - 1
    PROVE  inUse' \in 0..SlotCap /\ SlotsMatchHolders'
  <1>1. /\ IsFiniteSet(Holders \ {c})
        /\ Cardinality(Holders \ {c}) = Cardinality(Holders) - 1
      BY HoldersFinite, FS_RemoveElement
  <1>2. Cardinality(Holders \ {c}) \in Nat
      BY <1>1, FS_CardinalityType
  <1>3. inUse' \in 0..SlotCap
      BY <1>1, <1>2, SandboxAssumption DEF SlotsMatchHolders
  <1> QED BY <1>1, <1>3 DEF SlotsMatchHolders

\* notify_all moves sleepers and nobody else.
LEMMA Notified ==
    ASSUME NEW pcs \in [Users -> Places]
    PROVE  /\ NotifyAll(pcs) \in [Users -> Places]
           /\ \A d \in Users :
                  /\ NotifyAll(pcs)[d] # "asleep"
                  /\ pcs[d] = "asleep" => NotifyAll(pcs)[d] = "woken"
                  /\ pcs[d] # "asleep" => NotifyAll(pcs)[d] = pcs[d]
    BY DEF NotifyAll, Places

\* Every other caller stays where it is, or is woken.
OthersStay(c) ==
    \A d \in Users \ {c} :
        \/ spc'[d] = spc[d]
        \/ spc[d] = "asleep" /\ spc'[d] = "woken"

\* What a turn of the loop in acquire may start from: the caller is in the
\* queue, and only it need not have been told of a free slot.
TurnOf(c, q, pcs) ==
    /\ q \in Seq(Users) /\ Distinct(q) /\ InQueue(q, c)
    /\ pcs \in [Users -> Places] /\ c \notin Holders
    /\ \A d \in Users \ {c} :
           \/ pcs[d] = spc[d]
           \/ spc[d] = "asleep" /\ pcs[d] = "woken"
    /\ \A d \in Users \ {c} : InQueue(q, d) <=> pcs[d] \in {"asleep", "woken"}
    /\ inUse < SlotCap =>
           \A d \in Users \ {c} : Pool!IsBest(d, q) => pcs[d] = "woken"

\* A caller moves among the places in which an attempt has not begun.
LEMMA AttemptsStay ==
    ASSUME Control, NEW c \in Users, OthersStay(c), UNCHANGED attempt, attempt[c] = 0,
           spc'[c] \in {"out", "asleep", "woken", "granted"}
    PROVE  AttemptsMatch'
  <1> SUFFICES ASSUME NEW d \in Users
               PROVE  /\ spc'[d] \in {"out", "asleep", "woken", "granted"} => attempt[d] = 0
                      /\ spc'[d] = "retrying" => attempt[d] < MaxAttempts
      BY DEF AttemptsMatch
  <1>1. CASE d = c
      BY <1>1
  <1>2. CASE d # c
      BY <1>2 DEF OthersStay, Control, AttemptsMatch
  <1> QED BY <1>1, <1>2

\* When everybody in the queue is awake, so is its head.
LEMMA AllAwake ==
    ASSUME \A d \in Users : InQueue(waiters', d) => spc'[d] = "woken"
    PROVE  FreeSlotIsSeen'
    BY BestIsQueued DEF FreeSlotIsSeen

\* Notifying after a turn has begun moves the others as notifying does.
LEMMA NotifiedStay ==
    ASSUME NEW c, NEW pcs \in [Users -> Places],
           \A d \in Users \ {c} : pcs[d] = spc[d] \/ (spc[d] = "asleep" /\ pcs[d] = "woken"),
           \A d \in Users \ {c} : spc'[d] = NotifyAll(pcs)[d]
    PROVE  OthersStay(c)
  <1> SUFFICES ASSUME NEW d \in Users \ {c}
               PROVE  spc'[d] = spc[d] \/ (spc[d] = "asleep" /\ spc'[d] = "woken")
      BY DEF OthersStay
  <1>1. /\ pcs[d] = "asleep" => spc'[d] = "woken"
        /\ pcs[d] # "asleep" => spc'[d] = pcs[d]
      BY Notified
  <1> QED BY <1>1

LEMMA TurnGrants ==
    ASSUME Control, NEW c \in Users, NEW q, NEW pcs, TurnOf(c, q, pcs),
           MayTake(c, q), Granted(c, q, pcs), UNCHANGED attempt, attempt[c] = 0
    PROVE  /\ Control' /\ OthersStay(c) /\ spc'[c] = "granted"
           /\ Holders' = Holders \cup {c} /\ c \notin Holders
  <1> USE DEF Control, ControlType
  <1>1. /\ NotifyAll(pcs) \in [Users -> Places]
        /\ spc' = [NotifyAll(pcs) EXCEPT ![c] = "granted"]
        /\ waiters' = Pool!Without(q, c) /\ inUse' = inUse + 1 /\ inUse < SlotCap
        /\ expired' = expired /\ abandoned' = abandoned
      BY Notified DEF TurnOf, Granted, MayTake
  <1>2. /\ spc' \in [Users -> Places] /\ spc'[c] = "granted"
        /\ \A d \in Users \ {c} : spc'[d] = NotifyAll(pcs)[d]
      BY <1>1 DEF Places, Holding
  <1>3. OthersStay(c)
      BY <1>2, NotifiedStay DEF TurnOf
  <1>4. /\ waiters' \in Seq(Users) /\ Distinct(waiters')
        /\ \A d : InQueue(waiters', d) <=> InQueue(q, d) /\ d # c
      BY <1>1, WithoutEntry DEF TurnOf
  <1>5. QueueMatches'
    <2>1. \A d \in Users \ {c} : InQueue(waiters', d) <=> spc'[d] \in {"asleep", "woken"}
        BY <1>2, <1>4, Notified DEF TurnOf
    <2>2. ~InQueue(waiters', c)
        BY <1>4
    <2> QED BY <1>2, <1>4, <2>1, <2>2 DEF QueueMatches, Distinct, InQueue
  <1>6. Holders' = Holders \cup {c} /\ c \notin Holders
      BY <1>2, <1>3 DEF TurnOf, OthersStay, Holders, Holding
  <1>7. inUse' \in 0..SlotCap /\ SlotsMatchHolders'
      BY <1>1, <1>6, SlotTaken
  <1>8. FreeSlotIsSeen'
    <2>1. ASSUME NEW d \in Users, InQueue(waiters', d) PROVE spc'[d] = "woken"
      <3>1. d # c /\ InQueue(q, d)
          BY <2>1, <1>4
      <3>2. pcs[d] \in {"asleep", "woken"} /\ pcs \in [Users -> Places]
          BY <3>1 DEF TurnOf
      <3>3. NotifyAll(pcs)[d] = "woken"
          BY <3>2, Notified
      <3> QED BY <3>1, <3>3, <1>2
    <2> QED BY <2>1, AllAwake
  <1>9. AttemptsMatch'
      BY <1>2, <1>3, AttemptsStay
  <1> QED BY <1>1, <1>2, <1>3, <1>4, <1>5, <1>6, <1>7, <1>8, <1>9

LEMMA TurnDrops ==
    ASSUME Control, NEW c \in Users, NEW q, NEW pcs, TurnOf(c, q, pcs),
           Drop(c, q, pcs), UNCHANGED attempt, attempt[c] = 0
    PROVE  Control' /\ OthersStay(c) /\ spc'[c] = "out" /\ Holders' = Holders
  <1> USE DEF Control, ControlType
  <1>1. /\ NotifyAll(pcs) \in [Users -> Places]
        /\ spc' = [NotifyAll(pcs) EXCEPT ![c] = "out"]
        /\ waiters' = Pool!Without(q, c) /\ inUse' = inUse
        /\ expired' \subseteq Users /\ abandoned' \subseteq Polled
      BY Notified DEF TurnOf, Drop, Afresh
  <1>2. /\ spc' \in [Users -> Places] /\ spc'[c] = "out"
        /\ \A d \in Users \ {c} : spc'[d] = NotifyAll(pcs)[d]
      BY <1>1 DEF Places
  <1>3. OthersStay(c)
      BY <1>2, NotifiedStay DEF TurnOf
  <1>4. /\ waiters' \in Seq(Users) /\ Distinct(waiters')
        /\ \A d : InQueue(waiters', d) <=> InQueue(q, d) /\ d # c
      BY <1>1, WithoutEntry DEF TurnOf
  <1>5. QueueMatches'
    <2>1. \A d \in Users \ {c} : InQueue(waiters', d) <=> spc'[d] \in {"asleep", "woken"}
        BY <1>2, <1>4, Notified DEF TurnOf
    <2>2. ~InQueue(waiters', c)
        BY <1>4
    <2> QED BY <1>2, <1>4, <2>1, <2>2 DEF QueueMatches, Distinct, InQueue
  <1>6. Holders' = Holders
      BY <1>2, <1>3 DEF TurnOf, OthersStay, Holders, Holding
  <1>7. SlotsMatchHolders'
      BY <1>1, <1>6 DEF SlotsMatchHolders
  <1>8. FreeSlotIsSeen'
    <2>1. ASSUME NEW d \in Users, InQueue(waiters', d) PROVE spc'[d] = "woken"
      <3>1. d # c /\ InQueue(q, d)
          BY <2>1, <1>4
      <3>2. pcs[d] \in {"asleep", "woken"} /\ pcs \in [Users -> Places]
          BY <3>1 DEF TurnOf
      <3>3. NotifyAll(pcs)[d] = "woken"
          BY <3>2, Notified
      <3> QED BY <3>1, <3>3, <1>2
    <2> QED BY <2>1, AllAwake
  <1>9. AttemptsMatch'
      BY <1>2, <1>3, AttemptsStay
  <1> QED BY <1>1, <1>2, <1>3, <1>4, <1>5, <1>6, <1>7, <1>8, <1>9

LEMMA TurnSleeps ==
    ASSUME Control, NEW c \in Users, NEW q, NEW pcs, TurnOf(c, q, pcs),
           ~MayTake(c, q), Sleep(c, q, pcs), UNCHANGED attempt, attempt[c] = 0
    PROVE  Control' /\ OthersStay(c) /\ spc'[c] = "asleep" /\ Holders' = Holders
  <1> USE DEF Control, ControlType
  <1>1. /\ spc' = [pcs EXCEPT ![c] = "asleep"] /\ waiters' = q /\ inUse' = inUse
        /\ expired' = expired /\ abandoned' = abandoned
      BY DEF Sleep
  <1>2. /\ spc' \in [Users -> Places] /\ spc'[c] = "asleep"
        /\ \A d \in Users \ {c} : spc'[d] = pcs[d]
      BY <1>1 DEF Places, TurnOf
  <1>3. OthersStay(c)
      BY <1>2 DEF TurnOf, OthersStay
  <1>5. QueueMatches'
      BY <1>1, <1>2 DEF QueueMatches, Distinct, InQueue, TurnOf
  <1>6. Holders' = Holders
      BY <1>2, <1>3 DEF TurnOf, OthersStay, Holders, Holding
  <1>7. SlotsMatchHolders'
      BY <1>1, <1>6 DEF SlotsMatchHolders
  <1>8. FreeSlotIsSeen'
      BY <1>1, <1>2 DEF FreeSlotIsSeen, TurnOf, MayTake
  <1>9. AttemptsMatch'
      BY <1>2, <1>3, AttemptsStay
  <1> QED BY <1>1, <1>2, <1>3, <1>5, <1>6, <1>7, <1>8, <1>9 DEF TurnOf

LEMMA EvaluateStep ==
    ASSUME Control, NEW c \in Users, NEW q, NEW pcs, TurnOf(c, q, pcs),
           Evaluate(c, q, pcs), UNCHANGED attempt, attempt[c] = 0
    PROVE  Control' /\ OthersStay(c) /\ spc'[c] \in {"granted", "out", "asleep"}
  <1>1. CASE MayTake(c, q) /\ Granted(c, q, pcs)
      BY <1>1, TurnGrants
  <1>2. CASE Drop(c, q, pcs)
      BY <1>2, TurnDrops
  <1>3. CASE ~MayTake(c, q) /\ Sleep(c, q, pcs)
      BY <1>3, TurnSleeps
  <1> QED BY <1>1, <1>2, <1>3 DEF Evaluate

\* acquire's own preparations: the entry at the end of the queue, and the
\* others notified.
LEMMA AcquireTurn ==
    ASSUME Control, NEW c \in Users, spc[c] = "out"
    PROVE  /\ TurnOf(c, Append(waiters, c), NotifyAll(spc)) /\ attempt[c] = 0
           /\ ~InQueue(waiters, c)
  <1> USE DEF Control, ControlType
  <1>1. ~InQueue(waiters, c) /\ Distinct(waiters)
      BY DEF QueueMatches
  <1>2. /\ Append(waiters, c) \in Seq(Users) /\ Distinct(Append(waiters, c))
        /\ \A d : InQueue(Append(waiters, c), d) <=> InQueue(waiters, d) \/ d = c
      BY <1>1, AppendEntry
  <1>3. NotifyAll(spc) \in [Users -> Places] /\ c \notin Holders
      BY Notified DEF Holders, Holding
  <1>4. \A d \in Users :
           \/ NotifyAll(spc)[d] = spc[d]
           \/ spc[d] = "asleep" /\ NotifyAll(spc)[d] = "woken"
      BY Notified
  <1>5. ASSUME NEW d \in Users \ {c}
        PROVE  InQueue(Append(waiters, c), d) <=> NotifyAll(spc)[d] \in {"asleep", "woken"}
    <2>1. InQueue(Append(waiters, c), d) <=> spc[d] \in {"asleep", "woken"}
        BY <1>2 DEF QueueMatches
    <2> QED BY <2>1, <1>4
  <1>6. ASSUME NEW d \in Users \ {c}, Pool!IsBest(d, Append(waiters, c))
        PROVE  NotifyAll(spc)[d] = "woken"
    <2>1. NotifyAll(spc)[d] \in {"asleep", "woken"}
        BY <1>5, <1>6, BestIsQueued
    <2> QED BY <2>1, Notified
  <1>7. attempt[c] = 0
      BY DEF AttemptsMatch
  <1> QED BY <1>1, <1>2, <1>3, <1>4, <1>5, <1>6, <1>7 DEF TurnOf

LEMMA LookTurn ==
    ASSUME Control, NEW c \in Users, spc[c] = "woken"
    PROVE  TurnOf(c, waiters, spc) /\ attempt[c] = 0 /\ InQueue(waiters, c)
  <1> USE DEF Control, ControlType
  <1>1. Distinct(waiters) /\ \A d \in Users : InQueue(waiters, d) <=> spc[d] \in {"asleep", "woken"}
      BY DEF QueueMatches
  <1>2. c \notin Holders
      BY DEF Holders, Holding
  <1>3. attempt[c] = 0
      BY DEF AttemptsMatch
  <1> QED BY <1>1, <1>2, <1>3 DEF TurnOf, FreeSlotIsSeen

\* A release empties the place of its caller and notifies the rest.
LEMMA ReleaseStep ==
    ASSUME Control, NEW c \in Users, spc[c] \in Holding, SlotRelease(c), UNCHANGED waiters
    PROVE  Control' /\ OthersStay(c) /\ spc'[c] = "out" /\ Holders' = Holders \ {c} /\ c \in Holders
  <1> USE DEF Control, ControlType
  <1>1. /\ NotifyAll(spc) \in [Users -> Places]
        /\ spc' = [NotifyAll(spc) EXCEPT ![c] = "out"] /\ inUse' = inUse - 1
        /\ expired' \subseteq Users /\ abandoned' \subseteq Polled
        /\ attempt' = [attempt EXCEPT ![c] = 0]
      BY Notified DEF SlotRelease, Afresh
  <1>2. /\ spc' \in [Users -> Places] /\ spc'[c] = "out"
        /\ \A d \in Users \ {c} : spc'[d] = NotifyAll(spc)[d]
      BY <1>1 DEF Places
  <1>3. OthersStay(c)
      BY <1>2, NotifiedStay
  <1>4. \A d \in Users : InQueue(waiters, d) <=> spc[d] \in {"asleep", "woken"}
      BY DEF QueueMatches
  <1>5. QueueMatches'
    <2>1. ASSUME NEW d \in Users PROVE InQueue(waiters', d) <=> spc'[d] \in {"asleep", "woken"}
      <3>1. CASE d = c
          BY <3>1, <1>2, <1>4 DEF Holding
      <3>2. CASE d # c
          BY <3>2, <1>2, <1>4, Notified
      <3> QED BY <3>1, <3>2
    <2> QED BY <2>1 DEF QueueMatches, Distinct, InQueue
  <1>6. Holders' = Holders \ {c} /\ c \in Holders
      BY <1>2, <1>3 DEF OthersStay, Holders, Holding
  <1>7. inUse' \in 0..SlotCap /\ SlotsMatchHolders'
      BY <1>1, <1>6, SlotReturned
  <1>8. FreeSlotIsSeen'
    <2>1. ASSUME NEW d \in Users, InQueue(waiters', d) PROVE spc'[d] = "woken"
      <3>1. spc[d] \in {"asleep", "woken"} /\ d # c
          BY <2>1, <1>4 DEF Holding
      <3> QED BY <3>1, <1>2, Notified
    <2> QED BY <2>1, AllAwake
  <1>9. attempt' \in [Users -> 0..MaxAttempts] /\ attempt'[c] = 0
      BY <1>1, SandboxAssumption
  <1>10. AttemptsMatch'
    <2> SUFFICES ASSUME NEW d \in Users
                 PROVE  /\ spc'[d] \in {"out", "asleep", "woken", "granted"} => attempt'[d] = 0
                        /\ spc'[d] = "retrying" => attempt'[d] < MaxAttempts
        BY DEF AttemptsMatch
    <2>1. CASE d = c
        BY <2>1, <1>2, <1>9
    <2>2. CASE d # c
        BY <2>2, <1>1, <1>3 DEF OthersStay, AttemptsMatch
    <2> QED BY <2>1, <2>2
  <1> QED BY <1>1, <1>2, <1>3, <1>5, <1>6, <1>7, <1>8, <1>9, <1>10

\* A holder goes on to another place among the holders.
LEMMA HolderStep ==
    ASSUME Control, NEW c \in Users, NEW p \in Holding, spc[c] \in Holding,
           spc' = [spc EXCEPT ![c] = p], UNCHANGED <<waiters, inUse, expired, abandoned>>,
           attempt' \in [Users -> 0..MaxAttempts],
           \A d \in Users \ {c} : attempt'[d] = attempt[d],
           p # "granted", p = "retrying" => attempt'[c] < MaxAttempts
    PROVE  Control' /\ Holders' = Holders
  <1> USE DEF Control, ControlType
  <1>1. spc' \in [Users -> Places] /\ spc'[c] = p /\ \A d \in Users \ {c} : spc'[d] = spc[d]
      BY DEF Places
  <1>2. Holders' = Holders
      BY <1>1 DEF Holders
  <1>3. SlotsMatchHolders'
      BY <1>2 DEF SlotsMatchHolders
  <1>4. \A d \in Users : InQueue(waiters, d) <=> spc[d] \in {"asleep", "woken"}
      BY DEF QueueMatches
  <1>5. QueueMatches'
    <2>1. \A d \in Users : InQueue(waiters', d) <=> spc'[d] \in {"asleep", "woken"}
        BY <1>1, <1>4 DEF Holding
    <2> QED BY <2>1 DEF QueueMatches, Distinct, InQueue
  <1>6. FreeSlotIsSeen'
    <2> SUFFICES ASSUME NEW d \in Users, Pool!IsBest(d, waiters), inUse < SlotCap
                 PROVE  spc'[d] = "woken"
        BY DEF FreeSlotIsSeen
    <2>1. spc[d] = "woken"
        BY DEF FreeSlotIsSeen
    <2> QED BY <2>1, <1>1 DEF Holding
  <1>7. AttemptsMatch'
      BY <1>1 DEF AttemptsMatch, Holding
  <1> QED BY <1>1, <1>2, <1>3, <1>5, <1>6, <1>7

\* A sleeper wakes: its deadline, or the poll of its abandon event.
LEMMA WakeStep ==
    ASSUME Control, NEW c \in Users, spc[c] \in {"asleep", "woken"},
           spc' = [spc EXCEPT ![c] = "woken"], UNCHANGED <<waiters, inUse, attempt, abandoned>>,
           expired' \subseteq Users
    PROVE  Control' /\ Holders' = Holders
  <1> USE DEF Control, ControlType
  <1>1. spc' \in [Users -> Places] /\ spc'[c] = "woken" /\ \A d \in Users \ {c} : spc'[d] = spc[d]
      BY DEF Places
  <1>2. Holders' = Holders
      BY <1>1 DEF Holders, Holding
  <1>3. SlotsMatchHolders'
      BY <1>2 DEF SlotsMatchHolders
  <1>4. QueueMatches'
    <2>1. \A d \in Users : InQueue(waiters', d) <=> spc'[d] \in {"asleep", "woken"}
        BY <1>1 DEF QueueMatches
    <2> QED BY <2>1 DEF QueueMatches, Distinct, InQueue
  <1>5. FreeSlotIsSeen'
    <2> SUFFICES ASSUME NEW d \in Users, Pool!IsBest(d, waiters), inUse < SlotCap
                 PROVE  spc'[d] = "woken"
        BY DEF FreeSlotIsSeen
    <2>1. spc[d] = "woken"
        BY DEF FreeSlotIsSeen
    <2> QED BY <2>1, <1>1
  <1>6. AttemptsMatch'
      BY <1>1 DEF AttemptsMatch
  <1> QED BY <1>1, <1>2, <1>3, <1>4, <1>5, <1>6

\* Nothing that a caller's place depends on changes.
LEMMA ControlKept ==
    ASSUME Control, UNCHANGED <<spc, waiters, inUse, expired, attempt>>, abandoned' \subseteq Polled
    PROVE  Control' /\ Holders' = Holders
  <1> USE DEF Control, ControlType
  <1>1. Holders' = Holders
      BY DEF Holders
  <1>2. QueueMatches'
      BY DEF QueueMatches, Distinct, InQueue
  <1>3. AttemptsMatch'
      BY DEF AttemptsMatch
  <1>4. SlotsMatchHolders'
      BY <1>1 DEF SlotsMatchHolders
  <1>5. FreeSlotIsSeen'
      BY DEF FreeSlotIsSeen
  <1> QED BY <1>1, <1>2, <1>3, <1>4, <1>5

\* What a process that has just started knows.
AtStart ==
    /\ spc = [c \in Users |-> "out"] /\ waiters = <<>> /\ inUse = 0
    /\ expired = {} /\ abandoned = {} /\ attempt = [c \in Users |-> 0]

NobodyHolds == Holders = {}

LEMMA ControlAfresh == AtStart => Control /\ NobodyHolds
  <1> SUFFICES ASSUME AtStart PROVE Control /\ NobodyHolds
      OBVIOUS
  <1> USE DEF AtStart, NobodyHolds
  <1>1. ControlType
      BY SandboxAssumption DEF ControlType, Places
  <1>2. Holders = {}
      BY DEF Holders, Holding
  <1>3. SlotsMatchHolders
      BY <1>2, FS_EmptySet DEF SlotsMatchHolders
  <1>4. \A c : ~InQueue(waiters, c)
      BY DEF InQueue
  <1>5. QueueMatches
      BY <1>4 DEF QueueMatches, Distinct
  <1>6. FreeSlotIsSeen
      BY <1>4, BestIsQueued DEF FreeSlotIsSeen
  <1>7. AttemptsMatch
      BY SandboxAssumption DEF AttemptsMatch
  <1> QED BY <1>1, <1>2, <1>3, <1>5, <1>6, <1>7 DEF Control

-----------------------------------------------------------------------------
(* The steps, each with the step of the abstract pool it is. *)

PoolStep == [Pool!PNext]_(Pool!pvars)

LEMMA Stutters == ASSUME UNCHANGED waiters, Holders' = Holders PROVE PoolStep
    BY DEF PoolStep, Pool!pvars

LEMMA RoomIsFree == ASSUME SlotsMatchHolders PROVE Pool!Room <=> inUse < SlotCap
    BY Zenon DEF SlotsMatchHolders, Pool!Room, Pool!Cardinality, Cardinality

LEMMA Frees ==
    ASSUME NEW c \in Users, c \in Holders, Holders' = Holders \ {c}, UNCHANGED waiters
    PROVE  PoolStep
    BY DEF PoolStep, Pool!PNext, Pool!PFree

LEMMA AcquireStep ==
    ASSUME Control, NEW c \in Users, SlotAcquire(c)
    PROVE  Control' /\ OthersStay(c) /\ spc'[c] # "running" /\ PoolStep
  <1> DEFINE q == Append(waiters, c)
             pcs == NotifyAll(spc)
  <1>1. /\ TurnOf(c, q, pcs) /\ attempt[c] = 0 /\ UNCHANGED attempt
        /\ ~InQueue(waiters, c) /\ Evaluate(c, q, pcs)
      BY AcquireTurn DEF SlotAcquire
  <1>2. Control' /\ OthersStay(c) /\ spc'[c] \in {"granted", "out", "asleep"}
      BY <1>1, EvaluateStep
  <1>3. Pool!Without(q, c) = waiters
      BY <1>1, AppendEntry DEF Control, ControlType, QueueMatches
  <1>4. ~Pool!Waits(c) /\ c \notin Holders
      BY <1>1 DEF Pool!Waits, InQueue, TurnOf
  <1>5. MayTake(c, q) <=> Pool!Room /\ Pool!IsBest(c, q)
      BY RoomIsFree DEF Control, MayTake
  <1>6. CASE MayTake(c, q) /\ Granted(c, q, pcs)
    <2>1. Holders' = Holders \cup {c}
        BY <1>1, <1>6, TurnGrants
    <2>2. waiters' = waiters
        BY <1>3, <1>6 DEF Granted
    <2>3. Pool!PArrive(c)
        BY <1>4, <1>5, <1>6, <2>1, <2>2 DEF Pool!PArrive
    <2> QED BY <2>3, <1>2 DEF PoolStep, Pool!PNext
  <1>7. CASE Drop(c, q, pcs)
    <2>1. Holders' = Holders
        BY <1>1, <1>7, TurnDrops
    <2>2. waiters' = waiters
        BY <1>3, <1>7 DEF Drop
    <2> QED BY <2>1, <2>2, <1>2, Stutters
  <1>8. CASE ~MayTake(c, q) /\ Sleep(c, q, pcs)
    <2>1. Holders' = Holders
        BY <1>1, <1>8, TurnSleeps
    <2>2. waiters' = q
        BY <1>8 DEF Sleep
    <2>3. Pool!PArrive(c)
        BY <1>4, <1>5, <1>8, <2>1, <2>2 DEF Pool!PArrive
    <2> QED BY <2>3, <1>2 DEF PoolStep, Pool!PNext
  <1> QED BY <1>1, <1>6, <1>7, <1>8 DEF Evaluate

LEMMA LookStep ==
    ASSUME Control, NEW c \in Users, LooksAgain(c)
    PROVE  Control' /\ OthersStay(c) /\ spc'[c] # "running" /\ PoolStep
  <1>1. /\ TurnOf(c, waiters, spc) /\ attempt[c] = 0 /\ UNCHANGED attempt
        /\ InQueue(waiters, c) /\ Evaluate(c, waiters, spc)
      BY LookTurn DEF LooksAgain
  <1>2. Control' /\ OthersStay(c) /\ spc'[c] \in {"granted", "out", "asleep"}
      BY <1>1, EvaluateStep
  <1>3. Pool!Waits(c)
      BY <1>1 DEF Pool!Waits, InQueue
  <1>4. MayTake(c, waiters) <=> Pool!Room /\ Pool!IsBest(c, waiters)
      BY RoomIsFree DEF Control, MayTake
  <1>5. CASE MayTake(c, waiters) /\ Granted(c, waiters, spc)
    <2>1. Holders' = Holders \cup {c}
        BY <1>1, <1>5, TurnGrants
    <2>2. Pool!PGrant(c)
        BY <1>4, <1>5, <2>1 DEF Pool!PGrant, Granted
    <2> QED BY <2>2, <1>2 DEF PoolStep, Pool!PNext
  <1>6. CASE Drop(c, waiters, spc)
    <2>1. Holders' = Holders
        BY <1>1, <1>6, TurnDrops
    <2>2. Pool!PLeave(c)
        BY <1>3, <1>6, <2>1 DEF Pool!PLeave, Drop
    <2> QED BY <2>2, <1>2 DEF PoolStep, Pool!PNext
  <1>7. CASE ~MayTake(c, waiters) /\ Sleep(c, waiters, spc)
    <2>1. Holders' = Holders
        BY <1>1, <1>7, TurnSleeps
    <2>2. waiters' = waiters
        BY <1>7 DEF Sleep
    <2> QED BY <2>1, <2>2, <1>2, Stutters
  <1> QED BY <1>1, <1>5, <1>6, <1>7 DEF Evaluate

\* The steps of a call that give its slot back.
CallReturns(c) == GiveBack(c) \/ SpawnFails(c) \/ CommandEnds(c) \/ DockerFails(c) \/ CleanUp(c)

LEMMA ReturnsStep ==
    ASSUME Control, NEW c \in Users, CallReturns(c)
    PROVE  Control' /\ OthersStay(c) /\ spc'[c] # "running" /\ PoolStep
  <1>1. spc[c] \in Holding /\ SlotRelease(c) /\ UNCHANGED waiters
      BY DEF CallReturns, GiveBack, SpawnFails, CommandEnds, DockerFails, CleanUp, Holding
  <1> QED BY <1>1, ReleaseStep, Frees

\* The steps of a call that keep it.
Keeps(c) == Spawn(c) \/ Disconnected(c) \/ TimesOut(c)

LEMMA KeepsStep ==
    ASSUME Control, NEW c \in Users, Keeps(c)
    PROVE  Control' /\ OthersStay(c) /\ PoolStep
  <1> USE DEF Control, ControlType
  <1>1. CASE Spawn(c)
    <2>1. /\ spc[c] \in Holding /\ spc' = [spc EXCEPT ![c] = "running"]
          /\ UNCHANGED <<waiters, inUse, expired, abandoned>>
          /\ attempt' = [attempt EXCEPT ![c] = @ + 1]
        BY <1>1 DEF Spawn, Holding
    <2>2. attempt[c] < MaxAttempts
        BY <1>1, SandboxAssumption DEF Spawn, AttemptsMatch
    <2>3. attempt' \in [Users -> 0..MaxAttempts] /\ \A d \in Users \ {c} : attempt'[d] = attempt[d]
        BY <2>1, <2>2, SandboxAssumption
    <2>4. Control' /\ Holders' = Holders
        BY <2>1, <2>3, HolderStep DEF Holding
    <2> QED BY <2>1, <2>4, Stutters DEF OthersStay
  <1>2. CASE Disconnected(c)
    <2>1. /\ spc[c] \in Holding /\ spc' = [spc EXCEPT ![c] = "retrying"]
          /\ UNCHANGED <<waiters, inUse, expired, abandoned, attempt>> /\ attempt[c] < MaxAttempts
        BY <1>2 DEF Disconnected, Holding
    <2>2. Control' /\ Holders' = Holders
        BY <2>1, HolderStep DEF Holding
    <2> QED BY <2>1, <2>2, Stutters DEF OthersStay
  <1>3. CASE TimesOut(c)
    <2>1. /\ spc[c] \in Holding /\ spc' = [spc EXCEPT ![c] = "cleaning"]
          /\ UNCHANGED <<waiters, inUse, expired, abandoned, attempt>>
        BY <1>3 DEF TimesOut, Holding
    <2>2. Control' /\ Holders' = Holders
        BY <2>1, HolderStep DEF Holding
    <2> QED BY <2>1, <2>2, Stutters DEF OthersStay
  <1> QED BY <1>1, <1>2, <1>3 DEF Keeps

\* A deadline, an abandonment or the poll of it.
Wakes(c) == Expire(c) \/ Abandon(c) \/ Poll(c)

LEMMA WakesStep ==
    ASSUME Control, NEW c \in Users, Wakes(c)
    PROVE  /\ Control' /\ PoolStep
           /\ \A d \in Users : spc'[d] = "running" => spc[d] = "running"
  <1> USE DEF Control, ControlType
  <1>1. CASE Expire(c)
    <2>1. /\ spc[c] \in {"asleep", "woken"} /\ spc' = [spc EXCEPT ![c] = "woken"]
          /\ UNCHANGED <<waiters, inUse, attempt, abandoned>> /\ expired' \subseteq Users
        BY <1>1 DEF Expire
    <2>2. Control' /\ Holders' = Holders
        BY <2>1, WakeStep
    <2> QED BY <2>1, <2>2, Stutters
  <1>2. CASE Abandon(c)
    <2>1. UNCHANGED <<spc, waiters, inUse, expired, attempt>> /\ abandoned' \subseteq Polled
        BY <1>2 DEF Abandon
    <2>2. Control' /\ Holders' = Holders
        BY <2>1, ControlKept
    <2> QED BY <2>1, <2>2, Stutters
  <1>3. CASE Poll(c)
    <2>1. /\ spc[c] \in {"asleep", "woken"} /\ spc' = [spc EXCEPT ![c] = "woken"]
          /\ UNCHANGED <<waiters, inUse, attempt, abandoned, expired>>
        BY <1>3 DEF Poll
    <2>2. Control' /\ Holders' = Holders
        BY <2>1, WakeStep
    <2> QED BY <2>1, <2>2, Stutters
  <1> QED BY <1>1, <1>2, <1>3 DEF Wakes

LEMMA RestartStep == ASSUME Restart PROVE Control' /\ PoolStep /\ \A d \in Users : spc'[d] = "out"
  <1>a. AtStart' => Control' /\ NobodyHolds'
      BY ControlAfresh, PTL
  <1>1. Control' /\ Holders' = {}
      BY <1>a DEF Restart, AtStart, NobodyHolds
  <1>2. Pool!PRestart
      BY <1>1 DEF Restart, Pool!PRestart
  <1> QED BY <1>1, <1>2 DEF PoolStep, Pool!PNext, Restart

\* Time, the reapers and the cache pruner leave the callers where they are.
Around == Tick \/ BootReap \/ PeriodicReap \/ TimeoutReap \/ PruneLooks \/ PruneDeletes

LEMMA AroundStep ==
    ASSUME Control, Around
    PROVE  Control' /\ PoolStep /\ spc' = spc
  <1>1. UNCHANGED <<spc, waiters, inUse, expired, abandoned, attempt>>
      BY DEF Around, Tick, BootReap, PeriodicReap, TimeoutReap, ReapOlder, PruneLooks, PruneDeletes
  <1>2. Control' /\ Holders' = Holders
      BY <1>1, ControlKept DEF Control, ControlType
  <1> QED BY <1>1, <1>2, Stutters

LEMMA NextCases ==
    ASSUME SNext
    PROVE  \/ \E c \in Users : SlotAcquire(c) \/ LooksAgain(c) \/ Wakes(c) \/ CallReturns(c) \/ Keeps(c)
           \/ Restart \/ Around
    BY DEF SNext, CallStep, Wakes, CallReturns, Keeps, Around

LEMMA ControlStep == ASSUME Control, [SNext]_svars PROVE Control' /\ PoolStep
  <1>1. CASE UNCHANGED svars
    <2>1. UNCHANGED <<spc, waiters, inUse, expired, abandoned, attempt>>
        BY <1>1 DEF svars
    <2> QED BY <2>1, ControlKept, Stutters DEF Control, ControlType
  <1>2. CASE SNext
      BY <1>2, NextCases, AcquireStep, LookStep, WakesStep, ReturnsStep, KeepsStep, RestartStep,
         AroundStep
  <1> QED BY <1>1, <1>2

-----------------------------------------------------------------------------
(* The containers. *)

\* The bounds of an age.
LEMMA Ages ==
    /\ NoBox \in 0..NoBox /\ 0 \in 0..NoBox /\ NoBox \notin 0..MaxAge
    /\ \A a \in 0..NoBox : a = NoBox \/ a \in 0..MaxAge
    /\ \A a \in 0..MaxAge : a \in 0..NoBox /\ Older(a) \in 0..MaxAge
    BY SandboxAssumption DEF NoBox, Older

BoxTypes == box \in [Users -> 0..NoBox] /\ orphans \subseteq 0..MaxAge

\* One container starts, or ends, or ends and may be left behind.
LEMMA BoxStep ==
    ASSUME BoxTypes, NEW c \in Users, NEW a \in {0, NoBox}, box' = [box EXCEPT ![c] = a],
           orphans' \subseteq orphans \cup ({box[c]} \ {NoBox})
    PROVE  BoxTypes'
    BY Ages DEF BoxTypes

LEMMA ReapStep ==
    ASSUME BoxTypes, NEW n, ReapOlder(n)
    PROVE  BoxTypes'
  <1>1. CASE \E a \in orphans : orphans' = orphans \ {a} /\ UNCHANGED box
      BY <1>1 DEF BoxTypes
  <1>2. CASE \E c \in Users : box' = [box EXCEPT ![c] = NoBox] /\ UNCHANGED orphans
      BY <1>2, BoxStep
  <1> QED BY <1>1, <1>2 DEF ReapOlder

LEMMA BoxTypesStep == ASSUME BoxTypes, [SNext]_svars PROVE BoxTypes'
  <1>1. ASSUME NEW c \in Users, SlotAcquire(c) \/ LooksAgain(c) \/ Wakes(c) PROVE BoxTypes'
      BY <1>1 DEF SlotAcquire, LooksAgain, Wakes, Expire, Abandon, Poll, BoxTypes
  <1>2. ASSUME NEW c \in Users, Keeps(c) PROVE BoxTypes'
    <2>1. CASE Spawn(c)
        BY <2>1, BoxStep DEF Spawn
    <2>2. CASE Disconnected(c)
        BY <2>2, BoxStep DEF Disconnected
    <2>3. CASE TimesOut(c)
        BY <2>3 DEF TimesOut, BoxTypes
    <2> QED BY <1>2, <2>1, <2>2, <2>3 DEF Keeps
  <1>3. ASSUME NEW c \in Users, CallReturns(c) PROVE BoxTypes'
    <2>1. CASE GiveBack(c) \/ SpawnFails(c)
        BY <2>1 DEF GiveBack, SpawnFails, BoxTypes
    <2>2. CASE CommandEnds(c)
        BY <2>2, BoxStep DEF CommandEnds
    <2>3. CASE DockerFails(c)
        BY <2>3, BoxStep DEF DockerFails
    <2>4. CASE CleanUp(c)
        BY <2>4, BoxStep DEF CleanUp
    <2> QED BY <1>3, <2>1, <2>2, <2>3, <2>4 DEF CallReturns
  <1>4. CASE Restart
    <2>1. orphans' \subseteq 0..MaxAge
        BY <1>4, Ages DEF Restart, BoxTypes
    <2> QED BY <1>4, <2>1, Ages DEF Restart, BoxTypes
  <1>5. CASE Tick
    <2>1. \A c \in Users : (IF box[c] = NoBox THEN NoBox ELSE Older(box[c])) \in 0..NoBox
        BY Ages DEF BoxTypes
    <2>2. orphans' \subseteq 0..MaxAge
        BY <1>5, Ages DEF Tick, BoxTypes
    <2> QED BY <1>5, <2>1, <2>2 DEF Tick, BoxTypes
  <1>6. CASE BootReap \/ PruneLooks \/ PruneDeletes
      BY <1>6 DEF BootReap, PruneLooks, PruneDeletes, BoxTypes
  <1>7. CASE PeriodicReap \/ TimeoutReap
      BY <1>7, ReapStep DEF PeriodicReap, TimeoutReap
  <1>8. CASE UNCHANGED svars
      BY <1>8 DEF svars, BoxTypes
  <1> QED BY <1>1, <1>2, <1>3, <1>4, <1>5, <1>6, <1>7, <1>8, NextCases DEF Around

LEMMA ContainersStep == ASSUME Containers, [SNext]_svars PROVE Containers'
  <1>1. BoxTypes'
      BY BoxTypesStep DEF Containers, BoxTypes
  <1>2. CASE UNCHANGED <<booted, pruning>>
      BY <1>1, <1>2 DEF Containers, BoxTypes
  <1>3. CASE Restart \/ BootReap \/ PruneLooks \/ PruneDeletes
      BY <1>1, <1>3 DEF Containers, BoxTypes, Restart, BootReap, PruneLooks, PruneDeletes
  <1>4. \/ UNCHANGED <<booted, pruning>>
        \/ Restart \/ BootReap \/ PruneLooks \/ PruneDeletes
      BY DEF SNext, CallStep, svars, SlotAcquire, LooksAgain, Expire, Abandon, Poll, GiveBack,
             Spawn, SpawnFails, CommandEnds, Disconnected, DockerFails, TimesOut, CleanUp, Tick,
             PeriodicReap, TimeoutReap, ReapOlder
  <1> QED BY <1>2, <1>3, <1>4

\* No reaper takes a container whose command is within its timeout.
LEMMA ReapSparesRuns ==
    ASSUME NEW n \in Nat, EffectiveTimeout <= n, Containers, RunIsBounded, ReapOlder(n)
    PROVE  RunIsBounded'
  <1>1. ASSUME NEW d \in Users, spc[d] = "running" PROVE box'[d] = box[d]
    <2>1. box[d] <= n /\ ~(box[d] > n)
        BY <1>1, SandboxAssumption DEF RunIsBounded, Containers, EffectiveTimeout, NoBox
    <2> QED BY <2>1 DEF ReapOlder, Containers
  <1>2. spc' = spc
      BY DEF ReapOlder
  <1> QED BY <1>1, <1>2 DEF RunIsBounded

LEMMA RunsStep ==
    ASSUME ReapersHaveMargin, Control, Containers, RunIsBounded, [SNext]_svars
    PROVE  RunIsBounded'
  <1>1. ASSUME NEW c \in Users, SlotAcquire(c) \/ LooksAgain(c) PROVE RunIsBounded'
    <2>1. OthersStay(c) /\ spc'[c] # "running"
        BY <1>1, AcquireStep, LookStep
    <2>2. box' = box
        BY <1>1 DEF SlotAcquire, LooksAgain
    <2> QED BY <2>1, <2>2 DEF OthersStay, RunIsBounded
  <1>2. ASSUME NEW c \in Users, Wakes(c) PROVE RunIsBounded'
    <2>1. box' = box
        BY <1>2 DEF Wakes, Expire, Abandon, Poll
    <2> QED BY <1>2, <2>1, WakesStep DEF RunIsBounded
  <1>3. ASSUME NEW c \in Users, CallReturns(c) PROVE RunIsBounded'
    <2>1. OthersStay(c) /\ spc'[c] # "running"
        BY <1>3, ReturnsStep
    <2>2. \A d \in Users \ {c} : box'[d] = box[d]
        BY <1>3 DEF CallReturns, GiveBack, SpawnFails, CommandEnds, DockerFails, CleanUp, Containers
    <2> QED BY <2>1, <2>2 DEF OthersStay, RunIsBounded
  <1>4. ASSUME NEW c \in Users, Keeps(c) PROVE RunIsBounded'
    <2>1. OthersStay(c)
        BY <1>4, KeepsStep
    <2>2. \A d \in Users \ {c} : box'[d] = box[d]
        BY <1>4 DEF Keeps, Spawn, Disconnected, TimesOut, Containers
    <2>3. spc'[c] = "running" => box'[c] <= EffectiveTimeout
        BY <1>4, SandboxAssumption
        DEF Keeps, Spawn, Disconnected, TimesOut, Containers, EffectiveTimeout, Control, ControlType
    <2> QED BY <2>1, <2>2, <2>3 DEF OthersStay, RunIsBounded
  <1>5. CASE Restart
    <2>1. \A d \in Users : spc'[d] = "out"
        BY <1>5, RestartStep
    <2> QED BY <2>1 DEF RunIsBounded
  <1>6. CASE Tick
    <2> SUFFICES ASSUME NEW d \in Users, spc[d] = "running" PROVE box'[d] <= EffectiveTimeout
        BY <1>6 DEF Tick, RunIsBounded
    <2>1. box[d] < EffectiveTimeout
        BY <1>6 DEF Tick
    <2>2. box'[d] = Older(box[d]) /\ box[d] \in 0..MaxAge
        BY <1>6, <2>1, SandboxAssumption DEF Tick, Containers, EffectiveTimeout, NoBox
    <2> QED BY <2>1, <2>2, SandboxAssumption DEF Older, EffectiveTimeout
  <1>7. CASE BootReap \/ PruneLooks \/ PruneDeletes
      BY <1>7 DEF BootReap, PruneLooks, PruneDeletes, RunIsBounded
  <1>8. CASE PeriodicReap \/ TimeoutReap
    <2>1. /\ ReapAge \in Nat /\ 2 * OpTimeout \in Nat
          /\ EffectiveTimeout <= ReapAge /\ EffectiveTimeout <= 2 * OpTimeout
        BY SandboxAssumption DEF ReapAge, ReapersHaveMargin, EffectiveTimeout
    <2> QED BY <1>8, <2>1, ReapSparesRuns DEF PeriodicReap, TimeoutReap
  <1>9. CASE UNCHANGED svars
      BY <1>9 DEF svars, RunIsBounded
  <1> QED BY <1>1, <1>2, <1>3, <1>4, <1>5, <1>6, <1>7, <1>8, <1>9, NextCases DEF Around

-----------------------------------------------------------------------------
(* The theorems. *)

LEMMA SandboxStart == SInit => SandboxInv /\ NobodyHolds /\ RunIsBounded
  <1> SUFFICES ASSUME SInit PROVE SandboxInv /\ NobodyHolds /\ RunIsBounded
      OBVIOUS
  <1>1. Control /\ NobodyHolds
      BY ControlAfresh DEF AtStart, SInit
  <1>2. Containers /\ RunIsBounded
    <2>1. box = [c \in Users |-> NoBox] /\ spc = [c \in Users |-> "out"]
        BY DEF SInit
    <2>2. box \in [Users -> 0..NoBox]
        BY <2>1, Ages
    <2> QED BY <2>1, <2>2 DEF SInit, Containers, RunIsBounded
  <1> QED BY <1>1, <1>2 DEF SandboxInv

LEMMA SandboxStep == SandboxInv /\ [SNext]_svars => SandboxInv' /\ PoolStep
    BY ControlStep, ContainersStep DEF SandboxInv, Control

\* The inductive invariant of sandbox.run() and its slot pool, whatever the
\* timeouts are.
THEOREM SandboxInvariant == SSpec => []SandboxInv
  <1>1. SInit => SandboxInv
      BY SandboxStart
  <1>2. SandboxInv /\ [SNext]_svars => SandboxInv'
      BY SandboxStep
  <1> QED BY <1>1, <1>2, PTL DEF SSpec

\* The counter of _slots.py is the number of the calls inside the with block,
\* on every way out of it.
THEOREM SlotsAreCounted == SSpec => []SlotsMatchHolders
  <1>1. SandboxInv => SlotsMatchHolders
      BY DEF SandboxInv, Control
  <1> QED BY <1>1, SandboxInvariant, PTL

\* No wakeup is lost: the waiter a free slot belongs to is awake.
THEOREM WakeupsAreNotLost == SSpec => []FreeSlotIsSeen
  <1>1. SandboxInv => FreeSlotIsSeen
      BY DEF SandboxInv, Control
  <1> QED BY <1>1, SandboxInvariant, PTL

\* While the reapers' thresholds leave a command its timeout (a positive
\* sandbox_op_timeout, and not above the periodic reaper's threshold), the
\* sandbox is sound: in particular no reaper takes the container of a live run.
THEOREM SandboxSound == ASSUME ReapersHaveMargin PROVE SSpec => []SandboxIsSound
  <1>1. SInit => SandboxInv /\ RunIsBounded
      BY SandboxStart
  <1>2. SandboxInv /\ RunIsBounded /\ [SNext]_svars => SandboxInv' /\ RunIsBounded'
      BY SandboxStep, RunsStep DEF SandboxInv
  <1>3. SandboxInv /\ RunIsBounded => SandboxIsSound
    <2> SUFFICES ASSUME SandboxInv, RunIsBounded PROVE SandboxIsSound
        OBVIOUS
    <2>1. STypeOK
        BY Zenon DEF SandboxInv, Control, ControlType, Containers, STypeOK, Places
    <2>2. RunKeepsItsContainer
        BY SandboxAssumption DEF RunKeepsItsContainer, RunIsBounded, EffectiveTimeout, NoBox
    <2> QED BY <2>1, <2>2 DEF SandboxIsSound, SandboxInv, Control
  <1> QED BY <1>1, <1>2, <1>3, PTL DEF SSpec

\* The pool of threads, lock, condition variable and counter implements the
\* abstract pool: nobody takes a slot past a better waiter, at most SlotCap
\* calls hold one, and each step of the code is a step of the pool or none.
THEOREM PoolIsImplemented == SSpec => Pool!PSafe
  <1>1. SInit => Pool!PInit
      BY SandboxStart DEF SInit, Pool!PInit, NobodyHolds
  <1>2. SandboxInv /\ [SNext]_svars => [Pool!PNext]_(Pool!pvars)
      BY SandboxStep DEF PoolStep
  <1> QED BY <1>1, <1>2, SandboxInvariant, PTL DEF SSpec, Pool!PSafe
=============================================================================
