--------------------------- MODULE RecoveryProofs ---------------------------
(***************************************************************************)
(* The passes over blocked tickets and the search for tickets that wait    *)
(* for one another, for any tickets and bounds.                            *)
(*                                                                         *)
(* First the passes.  A pass goes through tickets it listed earlier, and   *)
(* may meet one that was resumed and blocked again for another reason in   *)
(* between.  The invariant numbers the spells a ticket spends blocked: what *)
(* a pass saw of a ticket is true of it as long as that spell lasts        *)
(* (SeenOk), and since the spell began nothing but its reason, and remarks *)
(* that name none, was written to its history (SpellsOk).                  *)
(***************************************************************************)
EXTENDS BlockedRecovery, CycleSearch, FiniteSetTheorems, SequenceTheorems, TLAPS

\* The bounds are numbers; a cap of 0 turns the purge off.
RecoveryNumbers ==
  /\ MaxPer \in Nat /\ MaxEvents \in Nat \ {0} /\ MaxNotes \in Nat /\ MaxBlocks \in Nat
  /\ MaxTurns \in Nat /\ MaxCrashes \in Nat

RecoveryTypes == BTypeOK /\ events \in [Tickets -> Seq(Notes)]

\* What a blocked ticket's card and history say of why it was blocked.
SpellOk(c, e) ==
  /\ c.resumes <= MaxPer
  /\ c.block_reason = "debt" => c.why = "debt"
  /\ c.st = "blocked" =>
       /\ c.why \in BlockReasons /\ c.blocked_from = Origin(c.why)
       /\ Len(e) > 0 /\ \A i \in 1..Len(e) : e[i] \in {c.why, "note"}

SpellsOk == \A t \in Tickets : SpellOk(cards[t], events[t])

\* What a pass saw of a ticket is true of it for as long as the spell lasts.
SeenOk ==
  \A p \in PassNames, t \in Tickets :
    /\ before[p][t] <= cards[t].blocks
    /\ p # "auto" /\ t \in passes[p] /\ before[p][t] = cards[t].blocks => cards[t].why = Owned[p]

Told == escalated.sent <= escalated.windows + escalated.crashes + (IF escalated.recent THEN 1 ELSE 0)

RecoveryInv == RecoveryTypes /\ SpellsOk /\ SeenOk /\ Told

-----------------------------------------------------------------------------
(* What an action may do to the cards, and to what the passes saw. *)

\* No spell ends in another reason than the one it began with.
CardsKeep ==
  \A t \in Tickets :
    /\ cards'[t].blocks >= cards[t].blocks
    /\ cards'[t].blocks = cards[t].blocks => cards'[t].why = cards[t].why

\* No pass takes up a ticket.
PassesShrink ==
  \A p \in PassNames, t \in Tickets :
    /\ before'[p][t] <= before[p][t]
    /\ t \in passes'[p] => t \in passes[p] /\ before'[p][t] = before[p][t]

CardTypes == cards \in [Tickets -> Ticket]
PassTypes == passes \in [PassNames -> SUBSET Tickets] /\ before \in [PassNames -> [Tickets -> 0..MaxBlocks]]

LEMMA CardType == ASSUME RecoveryNumbers, RecoveryInv, NEW t \in Tickets
  PROVE  /\ cards[t] \in Ticket /\ cards[t].blocks \in 0..MaxBlocks /\ cards[t].blocks \in Nat
         /\ cards[t].resumes \in Nat /\ SpellOk(cards[t], events[t]) /\ events[t] \in Seq(Notes)
  BY DEF RecoveryInv, RecoveryTypes, BTypeOK, SpellsOk, Ticket, RecoveryNumbers

\* What was seen stays true when no pass takes up a ticket.
LEMMA SeenKept == ASSUME RecoveryNumbers, RecoveryInv, CardTypes', PassTypes', CardsKeep, PassesShrink PROVE SeenOk'
<1> SUFFICES ASSUME NEW p \in PassNames, NEW t \in Tickets
      PROVE  /\ before'[p][t] <= cards'[t].blocks
             /\ p # "auto" /\ t \in passes'[p] /\ before'[p][t] = cards'[t].blocks => cards'[t].why = Owned[p]
  BY DEF SeenOk
<1>1. /\ before[p][t] \in Nat /\ before'[p][t] \in Nat /\ cards[t].blocks \in Nat /\ cards'[t].blocks \in Nat
  BY CardType DEF RecoveryInv, RecoveryTypes, BTypeOK, PassTypes, CardTypes, Ticket, RecoveryNumbers
<1>2. /\ before[p][t] <= cards[t].blocks
      /\ p # "auto" /\ t \in passes[p] /\ before[p][t] = cards[t].blocks => cards[t].why = Owned[p]
  BY DEF RecoveryInv, SeenOk
<1> QED BY <1>1, <1>2 DEF CardsKeep, PassesShrink

\* One card is replaced by another of the same spell.
LEMMA CardReplaced ==
  ASSUME RecoveryNumbers, RecoveryInv, NEW t \in Tickets, NEW c \in Ticket, cards' = [cards EXCEPT ![t] = c],
         c.blocks = cards[t].blocks, c.why = cards[t].why
  PROVE  /\ CardTypes' /\ CardsKeep
         /\ SpellOk(c, events[t]) => \A x \in Tickets : SpellOk(cards'[x], events[x])
<1>1. \A x \in Tickets : cards[x].blocks \in Nat /\ SpellOk(cards[x], events[x])
  BY CardType
<1>2. CardTypes'
  BY DEF RecoveryInv, RecoveryTypes, BTypeOK, CardTypes
<1>3. \A x \in Tickets : cards'[x] = IF x = t THEN c ELSE cards[x]
  BY DEF RecoveryInv, RecoveryTypes, BTypeOK
<1>4. CardsKeep
  BY <1>1, <1>3 DEF CardsKeep
<1> QED BY <1>1, <1>2, <1>3, <1>4

\* A blocked ticket goes back to where it came from.
LEMMA Resumed ==
  ASSUME RecoveryNumbers, RecoveryInv, NEW t \in Tickets, NEW n \in 0..1, IsBlocked(t), resume_blocked(t, n),
         n = 1 => MayRetry(t)
  PROVE  CardTypes' /\ CardsKeep /\ \A x \in Tickets : SpellOk(cards'[x], events[x])
<1> DEFINE c == [cards[t] EXCEPT !.st = cards[t].blocked_from, !.blocked_from = None,
                                 !.block_reason = "none", !.resumes = @ + n]
<1>1. /\ cards[t] \in Ticket /\ SpellOk(cards[t], events[t]) /\ cards[t].resumes \in Nat
  BY CardType
<1>2. cards[t].blocked_from \in State \ {"blocked"}
  BY <1>1 DEF SpellOk, IsBlocked, Origin, State
<1>3. c \in Ticket
  <2> DEFINE s == cards[t].blocked_from
             m == cards[t].resumes + n
  <2>1. s \in State /\ m \in Nat
    BY <1>1, <1>2
  <2>2. c = [cards[t] EXCEPT !.st = s, !.blocked_from = None, !.block_reason = "none", !.resumes = m]
    OBVIOUS
  <2> HIDE DEF s, m, c
  <2> QED BY <1>1, <2>1, <2>2 DEF Ticket
<1>4. c.blocks = cards[t].blocks /\ c.why = cards[t].why
  BY <1>1 DEF Ticket
<1>5. SpellOk(c, events[t])
  <2>1. c.resumes = cards[t].resumes + n /\ c.block_reason = "none" /\ c.st = cards[t].blocked_from
    BY <1>1 DEF Ticket
  <2>2. c.resumes <= MaxPer
    BY <2>1, <1>1 DEF SpellOk, MayRetry, RecoveryNumbers
  <2> QED BY <2>1, <2>2, <1>2 DEF SpellOk
<1>6. cards' = [cards EXCEPT ![t] = c]
  BY DEF resume_blocked
<1> HIDE DEF c
<1> QED BY <1>3, <1>4, <1>5, <1>6, CardReplaced

-----------------------------------------------------------------------------
(* The actions. *)

LEMMA SameCards == ASSUME RecoveryNumbers, RecoveryInv, cards' = cards
  PROVE CardTypes' /\ CardsKeep /\ \A x \in Tickets : SpellOk(cards'[x], events[x])
<1>1. \A x \in Tickets : cards[x].blocks \in Nat /\ SpellOk(cards[x], events[x])
  BY CardType
<1> QED BY <1>1 DEF RecoveryInv, RecoveryTypes, BTypeOK, CardTypes, CardsKeep

LEMMA SamePasses == ASSUME RecoveryNumbers, RecoveryInv, passes' = passes, before' = before
  PROVE PassTypes' /\ PassesShrink
<1>1. \A p \in PassNames, t \in Tickets : before[p][t] \in Nat
  BY DEF RecoveryInv, RecoveryTypes, BTypeOK, RecoveryNumbers
<1> QED BY <1>1 DEF RecoveryInv, RecoveryTypes, BTypeOK, PassTypes, PassesShrink

LEMMA OneDone == ASSUME RecoveryNumbers, RecoveryInv, NEW p \in PassNames, NEW t \in Tickets, Done(p, t)
  PROVE PassTypes' /\ PassesShrink
<1>1. \A q \in PassNames, x \in Tickets : before[q][x] \in 0..MaxBlocks
  BY DEF RecoveryInv, RecoveryTypes, BTypeOK
<1>2. \A q \in PassNames : passes'[q] = IF q = p THEN passes[q] \ {t} ELSE passes[q]
  BY DEF Done, RecoveryInv, RecoveryTypes, BTypeOK
<1>3. \A q \in PassNames, x \in Tickets : before'[q][x] = IF q = p /\ x = t THEN 0 ELSE before[q][x]
  BY DEF Done, RecoveryInv, RecoveryTypes, BTypeOK
<1>4. PassTypes'
  BY DEF Done, RecoveryInv, RecoveryTypes, BTypeOK, PassTypes, RecoveryNumbers
<1>5. ASSUME NEW q \in PassNames, NEW x \in Tickets
      PROVE  before'[q][x] <= before[q][x] /\ (x \in passes'[q] => x \in passes[q] /\ before'[q][x] = before[q][x])
  <2>1. before[q][x] \in Nat
    BY <1>1 DEF RecoveryNumbers
  <2>2. passes'[q] = (IF q = p THEN passes[q] \ {t} ELSE passes[q])
        /\ before'[q][x] = (IF q = p /\ x = t THEN 0 ELSE before[q][x])
    BY <1>2, <1>3
  <2>3. before'[q][x] <= before[q][x]
    BY <2>1, <2>2
  <2>4. x \in passes'[q] => x \in passes[q] /\ ~(q = p /\ x = t)
    BY <2>2, Zenon
  <2> QED BY <2>2, <2>3, <2>4
<1> QED BY <1>4, <1>5 DEF PassesShrink

\* A pass lists tickets that are blocked for the reason it is for.
LEMMA Listing ==
  ASSUME RecoveryNumbers, RecoveryInv, NEW p \in PassNames, NEW L \in SUBSET Tickets, Goes(p, L), cards' = cards,
         \A t \in L : p # "auto" => cards[t].why = Owned[p]
  PROVE  PassTypes' /\ SeenOk'
<1>1. \A q \in PassNames, x \in Tickets : before[q][x] \in 0..MaxBlocks /\ cards[x].blocks \in 0..MaxBlocks
  BY CardType DEF RecoveryInv, RecoveryTypes, BTypeOK
<1>2. \A q \in PassNames : passes'[q] = IF q = p THEN L ELSE passes[q]
  BY DEF Goes, RecoveryInv, RecoveryTypes, BTypeOK
<1>3. \A q \in PassNames, x \in Tickets :
        before'[q][x] = IF q = p THEN (IF x \in L THEN cards[x].blocks ELSE 0) ELSE before[q][x]
  BY DEF Goes, RecoveryInv, RecoveryTypes, BTypeOK
<1>4. PassTypes'
  BY <1>1 DEF Goes, RecoveryInv, RecoveryTypes, BTypeOK, PassTypes, RecoveryNumbers
<1>5. SeenOk'
  BY <1>1, <1>2, <1>3 DEF SeenOk, RecoveryInv, RecoveryNumbers
<1> QED BY <1>4, <1>5

\* The rest of the invariant for an action that leaves the history alone.
LEMMA HistoryKept ==
  ASSUME RecoveryNumbers, RecoveryInv, CardTypes', PassTypes', SeenOk', \A x \in Tickets : SpellOk(cards'[x], events[x]),
         UNCHANGED <<events, ci, escalated>>
  PROVE  RecoveryInv'
  BY DEF RecoveryInv, RecoveryTypes, BTypeOK, CardTypes, PassTypes, SpellsOk, Told

\* What the passes read of a blocked ticket is the reason it was blocked for.
LEMMA NotesTellWhy ==
  ASSUME RecoveryNumbers, RecoveryInv, NEW t \in Tickets, IsBlocked(t)
  PROVE  /\ \A r \in BlockReasons : _last_blocked_note(t) = r => cards[t].why = r
         /\ OnDebt(t) => cards[t].why = "debt"
<1>1. SpellOk(cards[t], events[t]) /\ events[t] \in Seq(Notes)
  BY CardType
<1>2. /\ Len(events[t]) \in Nat \ {0}
      /\ \A i \in 1..Len(events[t]) : events[t][i] \in {cards[t].why, "note"}
      /\ cards[t].block_reason = "debt" => cards[t].why = "debt"
  BY <1>1 DEF SpellOk, IsBlocked
<1>3. events[t][1] \in {cards[t].why, "note"} /\ events[t][Len(events[t])] \in {cards[t].why, "note"}
  BY <1>2
<1>4. _last_blocked_note(t) = events[t][Len(events[t])]
  BY <1>1, <1>2 DEF _last_blocked_note, Last
<1>5. _last_block_reason(t) = events[t][1]
  BY <1>1, <1>2 DEF _last_block_reason
<1> QED BY <1>2, <1>3, <1>4, <1>5 DEF BlockReasons, OnDebt

LEMMA RecoveryInitially == ASSUME RecoveryNumbers, BInit PROVE RecoveryInv
<1>1. RecoveryTypes
  BY DEF BInit, RecoveryTypes, BTypeOK, RecoveryNumbers, Ticket, State, None, NoEscalation
<1>2. SpellsOk
  BY DEF BInit, SpellsOk, SpellOk, RecoveryNumbers
<1>3. SeenOk
  BY DEF BInit, SeenOk
<1>4. Told
  BY DEF BInit, Told, NoEscalation
<1> QED BY <1>1, <1>2, <1>3, <1>4 DEF RecoveryInv

LEMMA BlockKeeps == ASSUME RecoveryNumbers, RecoveryInv, NEW t \in Tickets, Block(t) PROVE RecoveryInv'
<1> PICK r \in BlockReasons, s \in {"none", "debt"} :
      /\ s = "debt" => r = "debt"
      /\ cards' = [cards EXCEPT ![t].st = "blocked", ![t].blocked_from = Origin(r), ![t].block_reason = s,
                                ![t].cooled = FALSE, ![t].blocks = @ + 1, ![t].why = r]
      /\ events' = [events EXCEPT ![t] = <<r>>]
  BY DEF Block
<1> DEFINE b == cards[t].blocks + 1
           c == [cards[t] EXCEPT !.st = "blocked", !.blocked_from = Origin(r), !.block_reason = s,
                                 !.cooled = FALSE, !.blocks = b, !.why = r]
<1>1. cards[t] \in Ticket /\ cards[t].blocks \in 0..MaxBlocks /\ SpellOk(cards[t], events[t])
  BY CardType
<1>2. b \in 0..MaxBlocks /\ b > cards[t].blocks
  BY <1>1 DEF Block, RecoveryNumbers
<1>3. cards' = [cards EXCEPT ![t] = c]
  OBVIOUS
<1> HIDE DEF b
<1>4. Origin(r) \in State
  BY DEF Origin, State
<1>5. c \in Ticket
  <2> DEFINE o == Origin(r)
  <2>1. c = [cards[t] EXCEPT !.st = "blocked", !.blocked_from = o, !.block_reason = s,
                             !.cooled = FALSE, !.blocks = b, !.why = r]
    OBVIOUS
  <2>2. o \in State /\ "blocked" \in State
    BY <1>4 DEF State
  <2> HIDE DEF o, c
  <2> QED BY <1>1, <1>2, <2>1, <2>2 DEF Ticket
<1>6. /\ c.st = "blocked" /\ c.blocked_from = Origin(r) /\ c.block_reason = s /\ c.blocks = b /\ c.why = r
      /\ c.resumes = cards[t].resumes
  BY <1>1 DEF Ticket
<1> HIDE DEF c
<1>7. \A x \in Tickets : cards'[x] = (IF x = t THEN c ELSE cards[x]) /\ events'[x] = (IF x = t THEN <<r>> ELSE events[x])
  BY <1>3 DEF RecoveryInv, RecoveryTypes, BTypeOK
<1>8. CardTypes'
  BY <1>3, <1>5 DEF RecoveryInv, RecoveryTypes, BTypeOK, CardTypes
<1>9. <<r>> \in Seq(Notes) /\ Len(<<r>>) = 1 /\ <<r>>[1] = r
  BY DEF Notes
<1>10. events' \in [Tickets -> Seq(Notes)]
  BY <1>9 DEF RecoveryInv, RecoveryTypes
<1>11. SpellsOk'
  <2> SUFFICES ASSUME NEW x \in Tickets PROVE SpellOk(cards'[x], events'[x])
    BY DEF SpellsOk
  <2>1. SpellOk(cards[x], events[x])
    BY CardType
  <2>2. SpellOk(c, <<r>>)
    BY <1>1, <1>6, <1>9 DEF SpellOk
  <2> QED BY <1>7, <2>1, <2>2
<1>12. CardsKeep
  <2>1. \A x \in Tickets : cards[x].blocks \in Nat
    BY CardType
  <2>2. b \in Nat
    BY <1>2 DEF RecoveryNumbers
  <2> SUFFICES ASSUME NEW x \in Tickets
        PROVE  /\ cards'[x].blocks >= cards[x].blocks
               /\ cards'[x].blocks = cards[x].blocks => cards'[x].why = cards[x].why
    BY DEF CardsKeep
  <2>3. CASE x = t
    <3>1. cards'[x].blocks = b /\ cards[x].blocks \in Nat /\ b > cards[x].blocks
      BY <1>2, <1>6, <1>7, <2>1, <2>3
    <3> QED BY <3>1, <2>2
  <2>4. CASE x # t
    <3>1. cards'[x] = cards[x]
      BY <1>7, <2>4
    <3> QED BY <3>1, <2>1
  <2> QED BY <2>3, <2>4
<1>13. UNCHANGED <<ci, passes, escalated, before>>
  BY DEF Block
<1>14. PassTypes' /\ PassesShrink
  BY <1>13, SamePasses
<1>15. SeenOk'
  BY <1>8, <1>12, <1>14, SeenKept
<1> QED BY <1>8, <1>10, <1>11, <1>13, <1>14, <1>15
        DEF RecoveryInv, RecoveryTypes, BTypeOK, CardTypes, PassTypes, Told

\* The actions that touch the history of one blocked ticket.
LEMMA HistoryChanged ==
  ASSUME RecoveryNumbers, RecoveryInv, NEW t \in Tickets, NEW e \in Seq(Notes), events' = [events EXCEPT ![t] = e],
         SpellOk(cards[t], e),
         NEW c \in Ticket, cards' = [cards EXCEPT ![t] = c], c.blocks = cards[t].blocks, c.why = cards[t].why,
         c.st = cards[t].st, c.block_reason = cards[t].block_reason, c.resumes = cards[t].resumes,
         c.blocked_from = cards[t].blocked_from,
         UNCHANGED <<ci, passes, escalated, before>>
  PROVE  RecoveryInv'
<1>1. CardTypes' /\ CardsKeep
  BY CardReplaced
<1>2. PassTypes' /\ PassesShrink
  BY SamePasses
<1>3. SeenOk'
  BY <1>1, <1>2, SeenKept
<1>4. SpellOk(c, e)
  BY DEF SpellOk
<1>5. \A x \in Tickets : SpellOk(cards[x], events[x])
  BY CardType
<1>6. \A x \in Tickets : cards'[x] = (IF x = t THEN c ELSE cards[x]) /\ events'[x] = (IF x = t THEN e ELSE events[x])
  BY DEF RecoveryInv, RecoveryTypes, BTypeOK
<1>7. SpellsOk'
  <2> SUFFICES ASSUME NEW x \in Tickets PROVE SpellOk(cards'[x], events'[x])
    BY DEF SpellsOk
  <2> QED BY <1>4, <1>5, <1>6
<1>8. events' \in [Tickets -> Seq(Notes)]
  BY DEF RecoveryInv, RecoveryTypes
<1> QED BY <1>1, <1>2, <1>3, <1>7, <1>8 DEF RecoveryInv, RecoveryTypes, BTypeOK, CardTypes, PassTypes, Told

LEMMA NoteKeeps == ASSUME RecoveryNumbers, RecoveryInv, NEW t \in Tickets, add_step_event(t) PROVE RecoveryInv'
<1> DEFINE e == Append(events[t], "note")
           c == [cards[t] EXCEPT !.cooled = FALSE]
<1>1. cards[t] \in Ticket /\ SpellOk(cards[t], events[t]) /\ events[t] \in Seq(Notes)
  BY CardType
<1>2. e \in Seq(Notes) /\ Len(e) = Len(events[t]) + 1
      /\ \A i \in 1..Len(e) : e[i] = IF i <= Len(events[t]) THEN events[t][i] ELSE "note"
  BY <1>1 DEF Notes
<1>3. SpellOk(cards[t], e)
  <2>1. Len(events[t]) \in Nat
    BY <1>1
  <2> HIDE DEF e
  <2> QED BY <1>1, <1>2, <2>1 DEF SpellOk
<1>4. /\ c \in Ticket /\ c.blocks = cards[t].blocks /\ c.why = cards[t].why /\ c.st = cards[t].st
      /\ c.block_reason = cards[t].block_reason /\ c.resumes = cards[t].resumes
      /\ c.blocked_from = cards[t].blocked_from
  BY <1>1 DEF Ticket
<1>5. cards' = [cards EXCEPT ![t] = c] /\ events' = [events EXCEPT ![t] = e] /\ UNCHANGED <<ci, passes, escalated, before>>
  BY DEF add_step_event
<1> HIDE DEF e, c
<1> QED BY <1>2, <1>3, <1>4, <1>5, HistoryChanged

LEMMA PurgeKeeps == ASSUME RecoveryNumbers, RecoveryInv, NEW t \in Tickets, _maybe_purge_ticket_events(t) PROVE RecoveryInv'
<1> DEFINE n == Len(events[t])
           e == SubSeq(events[t], n - MaxEvents + 1, n)
           c == cards[t]
<1>1. cards[t] \in Ticket /\ SpellOk(cards[t], events[t]) /\ events[t] \in Seq(Notes)
  BY CardType
<1>2. n \in Nat /\ n > MaxEvents /\ MaxEvents \in Nat \ {0}
  BY <1>1 DEF _maybe_purge_ticket_events, RecoveryNumbers
<1>3. /\ e \in Seq(Notes) /\ Len(e) = MaxEvents
      /\ \A i \in 1..Len(e) : e[i] = events[t][n - MaxEvents + i]
  <2>1. n - MaxEvents + 1 \in 1..n /\ n - (n - MaxEvents + 1) + 1 = MaxEvents
    BY <1>2
  <2>2. /\ e \in Seq(Notes) /\ Len(e) = n - (n - MaxEvents + 1) + 1
        /\ \A i \in 1..(n - (n - MaxEvents + 1) + 1) : e[i] = events[t][(n - MaxEvents + 1) + i - 1]
    BY <1>1, <1>2, <2>1, SubSeqProperties
  <2>3. \A i \in 1..MaxEvents : (n - MaxEvents + 1) + i - 1 = n - MaxEvents + i
    BY <1>2
  <2> QED BY <2>1, <2>2, <2>3
<1>4. SpellOk(cards[t], e)
  <2>1. \A i \in 1..MaxEvents : n - MaxEvents + i \in 1..n
    BY <1>2
  <2>2. Len(events[t]) = n
    OBVIOUS
  <2> HIDE DEF e, n
  <2> QED BY <1>1, <1>2, <1>3, <2>1, <2>2 DEF SpellOk
<1>5. cards' = [cards EXCEPT ![t] = c] /\ events' = [events EXCEPT ![t] = e] /\ UNCHANGED <<ci, passes, escalated, before>>
  BY DEF _maybe_purge_ticket_events, RecoveryInv, RecoveryTypes, BTypeOK
<1> HIDE DEF e
<1> QED BY <1>1, <1>3, <1>4, <1>5, HistoryChanged

LEMMA CoolsKeeps == ASSUME RecoveryNumbers, RecoveryInv, NEW t \in Tickets, Cools(t) PROVE RecoveryInv'
<1> DEFINE e == events[t]
           c == [cards[t] EXCEPT !.cooled = TRUE]
<1>1. cards[t] \in Ticket /\ SpellOk(cards[t], e) /\ e \in Seq(Notes)
  BY CardType
<1>2. /\ c \in Ticket /\ c.blocks = cards[t].blocks /\ c.why = cards[t].why /\ c.st = cards[t].st
      /\ c.block_reason = cards[t].block_reason /\ c.resumes = cards[t].resumes
      /\ c.blocked_from = cards[t].blocked_from
  BY <1>1 DEF Ticket
<1>3. cards' = [cards EXCEPT ![t] = c] /\ events' = [events EXCEPT ![t] = e] /\ UNCHANGED <<ci, passes, escalated, before>>
  BY DEF Cools, RecoveryInv, RecoveryTypes
<1> HIDE DEF c
<1> QED BY <1>1, <1>2, <1>3, HistoryChanged

LEMMA OperatorKeeps == ASSUME RecoveryNumbers, RecoveryInv, NEW t \in Tickets, Operator(t) PROVE RecoveryInv'
<1>1. IsBlocked(t) /\ resume_blocked(t, 0) /\ UNCHANGED <<events, ci, passes, escalated, before>> /\ 0 \in 0..1
  BY DEF Operator
<1>2. CardTypes' /\ CardsKeep /\ \A x \in Tickets : SpellOk(cards'[x], events[x])
  BY <1>1, Resumed
<1>3. PassTypes' /\ PassesShrink
  BY <1>1, SamePasses
<1>4. SeenOk'
  BY <1>2, <1>3, SeenKept
<1> QED BY <1>1, <1>2, <1>3, <1>4, HistoryKept

\* A turn of a pass, at a ticket it had listed.
LEMMA TurnKeeps ==
  ASSUME RecoveryNumbers, RecoveryInv, NEW p \in PassNames, NEW t \in Tickets, Done(p, t), UNCHANGED <<events, ci, escalated>>,
         CardTypes', CardsKeep, \A x \in Tickets : SpellOk(cards'[x], events[x])
  PROVE  RecoveryInv'
<1>1. PassTypes' /\ PassesShrink
  BY OneDone
<1>2. SeenOk'
  BY <1>1, SeenKept
<1> QED BY <1>1, <1>2, HistoryKept

LEMMA ResumeParkedKeeps ==
  ASSUME RecoveryNumbers, RecoveryInv, NEW p \in PassNames, NEW t \in Tickets, ResumeParked(p, t) PROVE RecoveryInv'
<1>1. Done(p, t) /\ UNCHANGED <<events, ci, escalated>> /\ 0 \in 0..1
  BY DEF ResumeParked
<1>2. CASE IsBlocked(t)
  BY <1>1, <1>2, Resumed, TurnKeeps DEF ResumeParked
<1>3. CASE ~IsBlocked(t)
  BY <1>1, <1>3, SameCards, TurnKeeps DEF ResumeParked
<1> QED BY <1>2, <1>3

LEMMA ResumeOneKeeps == ASSUME RecoveryNumbers, RecoveryInv, NEW t \in Tickets, _resume_one(t) PROVE RecoveryInv'
<1>1. Done("auto", t) /\ UNCHANGED <<events, ci, escalated>> /\ 1 \in 0..1 /\ "auto" \in PassNames
  BY DEF _resume_one, PassNames
<1>2. CASE IsBlocked(t) /\ MayRetry(t) /\ resume_blocked(t, 1)
  BY <1>1, <1>2, Resumed, TurnKeeps
<1>3. CASE UNCHANGED cards
  BY <1>1, <1>3, SameCards, TurnKeeps
<1> QED BY <1>2, <1>3 DEF _resume_one

LEMMA RecheckKeeps ==
  ASSUME RecoveryNumbers, RecoveryInv, NEW t \in Tickets, _maybe_resume_target_ci(t) PROVE RecoveryInv'
<1>1. Done("recheck", t) /\ UNCHANGED <<events, ci, escalated>> /\ "recheck" \in PassNames
  BY DEF _maybe_resume_target_ci, PassNames
<1>2. CASE cards' = [cards EXCEPT ![t].st = "implement_complete", ![t].blocked_from = None, ![t].block_reason = "none"]
  <2> DEFINE c == [cards[t] EXCEPT !.st = "implement_complete", !.blocked_from = None, !.block_reason = "none"]
  <2>1. cards[t] \in Ticket /\ SpellOk(cards[t], events[t])
    BY CardType
  <2>2. /\ c \in Ticket /\ c.blocks = cards[t].blocks /\ c.why = cards[t].why /\ c.st = "implement_complete"
        /\ c.block_reason = "none" /\ c.resumes = cards[t].resumes
    BY <2>1 DEF Ticket, State, None
  <2>3. cards' = [cards EXCEPT ![t] = c]
    BY <1>2
  <2> HIDE DEF c
  <2>4. SpellOk(c, events[t])
    BY <2>1, <2>2 DEF SpellOk
  <2> QED BY <1>1, <2>2, <2>3, <2>4, CardReplaced, TurnKeeps
<1>3. CASE UNCHANGED cards
  BY <1>1, <1>3, SameCards, TurnKeeps
<1> QED BY <1>2, <1>3 DEF _maybe_resume_target_ci

\* A pass makes its list.
LEMMA ListKeeps ==
  ASSUME RecoveryNumbers, RecoveryInv, NEW p \in PassNames, NEW L \in SUBSET Blocked, Goes(p, L),
         UNCHANGED <<cards, events, ci, escalated>>, \A t \in L : p # "auto" => cards[t].why = Owned[p]
  PROVE  RecoveryInv'
<1>1. L \in SUBSET Tickets
  BY DEF Blocked
<1>2. PassTypes' /\ SeenOk'
  BY <1>1, Listing
<1> QED BY <1>2, SameCards, HistoryKept

LEMMA ListsKeep ==
  ASSUME RecoveryNumbers, RecoveryInv,
         \/ run_upstream_ci_recovery \/ run_infra_account_block_recovery
         \/ run_blocked_auto_resume \/ _blocked_recheck_pass
  PROVE  RecoveryInv'
<1>1. CASE run_upstream_ci_recovery
  <2> DEFINE L == {t \in Blocked : _last_blocked_note(t) = "upstream"}
  <2>1. \A t \in L : cards[t].why = Owned["upstream"]
    BY NotesTellWhy DEF Blocked, BlockReasons, Owned
  <2>2. Goes("upstream", L) /\ UNCHANGED <<cards, events, ci, escalated>> /\ L \in SUBSET Blocked /\ "upstream" \in PassNames
    BY <1>1 DEF run_upstream_ci_recovery, PassNames
  <2> HIDE DEF L
  <2> QED BY <2>1, <2>2, ListKeeps
<1>2. CASE run_infra_account_block_recovery
  <2>1. \A t \in AccountParked : cards[t].why = Owned["account"]
    BY NotesTellWhy DEF AccountParked, Blocked, BlockReasons, Owned
  <2>2. /\ Goes("account", AccountParked) /\ UNCHANGED <<cards, events, ci, escalated>>
        /\ AccountParked \in SUBSET Blocked /\ "account" \in PassNames
    BY <1>2 DEF run_infra_account_block_recovery, AccountParked, PassNames
  <2> QED BY <2>1, <2>2, ListKeeps
<1>3. CASE run_blocked_auto_resume
  <2>1. Goes("auto", Blocked) /\ UNCHANGED <<cards, events, ci, escalated>> /\ "auto" \in PassNames
    BY <1>3 DEF run_blocked_auto_resume, PassNames
  <2> QED BY <2>1, ListKeeps
<1>4. CASE _blocked_recheck_pass
  <2> DEFINE L == {t \in Blocked : OnDebt(t)}
  <2>1. \A t \in L : cards[t].why = Owned["recheck"]
    BY NotesTellWhy DEF Blocked, Owned
  <2>2. Goes("recheck", L) /\ UNCHANGED <<cards, events, ci, escalated>> /\ L \in SUBSET Blocked /\ "recheck" \in PassNames
    BY <1>4 DEF _blocked_recheck_pass, PassNames
  <2> HIDE DEF L
  <2> QED BY <2>1, <2>2, ListKeeps
<1> QED BY <1>1, <1>2, <1>3, <1>4

LEMMA TellingKeeps == ASSUME RecoveryNumbers, RecoveryInv, SendEscalation \/ WindowEnds PROVE RecoveryInv'
<1> DEFINE E == [recent : BOOLEAN, sent : Nat, windows : 0..MaxTurns, crashes : 0..MaxCrashes]
<1>1. escalated \in E /\ Told
  BY DEF RecoveryInv, RecoveryTypes, BTypeOK
<1>2. UNCHANGED <<cards, events, ci, passes, before>>
  BY DEF SendEscalation, WindowEnds
<1>3. CASE SendEscalation
  <2>1. PICK lost \in BOOLEAN :
          /\ lost => escalated.crashes < MaxCrashes
          /\ escalated' = [escalated EXCEPT !.sent = @ + 1, !.recent = ~lost,
                                            !.crashes = IF lost THEN @ + 1 ELSE @]
    BY <1>3 DEF SendEscalation
  <2> DEFINE n == escalated.sent + 1
             k == IF lost THEN escalated.crashes + 1 ELSE escalated.crashes
  <2>2. n \in Nat /\ k \in 0..MaxCrashes
    BY <1>1, <2>1 DEF RecoveryNumbers
  <2>3. escalated' = [escalated EXCEPT !.sent = n, !.recent = ~lost, !.crashes = k]
    BY <2>1
  <2>4. k = IF lost THEN escalated.crashes + 1 ELSE escalated.crashes
    OBVIOUS
  <2>5. n = escalated.sent + 1
    OBVIOUS
  <2> HIDE DEF n, k
  <2>6. escalated' \in E /\ escalated'.sent = n /\ escalated'.recent = ~lost /\ escalated'.crashes = k
        /\ escalated'.windows = escalated.windows
    BY <1>1, <2>2, <2>3
  <2>7. ~escalated.recent
    BY <1>3 DEF SendEscalation
  <2>8. Told'
    <3>1. escalated.sent <= escalated.windows + escalated.crashes
      BY <1>1, <2>7 DEF Told
    <3>2. CASE lost
      BY <3>1, <3>2, <1>1, <2>4, <2>5, <2>6 DEF Told
    <3>3. CASE ~lost
      BY <3>1, <3>3, <1>1, <2>4, <2>5, <2>6 DEF Told
    <3> QED BY <3>2, <3>3
  <2> QED BY <1>2, <2>6, <2>8 DEF RecoveryInv, RecoveryTypes, BTypeOK, SpellsOk, SeenOk
<1>4. CASE WindowEnds
  <2> DEFINE w == escalated.windows + 1
  <2>1. w \in 0..MaxTurns /\ escalated.recent /\ escalated' = [escalated EXCEPT !.recent = FALSE, !.windows = w]
    BY <1>1, <1>4 DEF WindowEnds, RecoveryNumbers
  <2>2. w = escalated.windows + 1
    OBVIOUS
  <2> HIDE DEF w
  <2>3. escalated' \in E /\ escalated'.sent = escalated.sent /\ escalated'.recent = FALSE
        /\ escalated'.crashes = escalated.crashes /\ escalated'.windows = w
    BY <1>1, <2>1
  <2>4. Told'
    <3>1. escalated.sent <= escalated.windows + escalated.crashes + 1
      BY <1>1, <2>1 DEF Told
    <3> QED BY <3>1, <1>1, <2>2, <2>3 DEF Told, RecoveryNumbers
  <2> QED BY <1>2, <2>3, <2>4 DEF RecoveryInv, RecoveryTypes, BTypeOK, SpellsOk, SeenOk
<1> QED BY <1>3, <1>4

LEMMA TurnsKeep == ASSUME RecoveryNumbers, RecoveryInv, NEW s \in {"green", "red", "pending"}, Turns(s) PROVE RecoveryInv'
<1>1. UNCHANGED <<cards, events, passes, escalated, before>>
  BY DEF Turns
<1>2. ci' \in [state : {"green", "red", "pending"}, turns : 0..MaxTurns]
  BY DEF Turns, RecoveryInv, RecoveryTypes, BTypeOK, RecoveryNumbers
<1> QED BY <1>1, <1>2 DEF RecoveryInv, RecoveryTypes, BTypeOK, SpellsOk, SeenOk, Told

LEMMA RecoveryStep == ASSUME RecoveryNumbers, RecoveryInv, [RecoveryNext]_bvars PROVE RecoveryInv'
<1>1. CASE \E t \in Tickets : Block(t) \/ add_step_event(t) \/ Cools(t) \/ _maybe_purge_ticket_events(t) \/ Operator(t)
  BY <1>1, BlockKeeps, NoteKeeps, CoolsKeeps, PurgeKeeps, OperatorKeeps
<1>2. CASE \E s \in {"green", "red", "pending"} : Turns(s)
  BY <1>2, TurnsKeep
<1>3. CASE WindowEnds
  BY <1>3, TellingKeeps
<1>4. CASE Recheck
  BY <1>4, ListsKeep, RecheckKeeps DEF Recheck
<1>5. CASE Upstream
  <2>1. "upstream" \in PassNames
    BY DEF PassNames
  <2> QED BY <1>5, <2>1, ListsKeep, ResumeParkedKeeps DEF Upstream
<1>6. CASE Account
  <2>1. "account" \in PassNames
    BY DEF PassNames
  <2> QED BY <1>6, <2>1, ListsKeep, ResumeParkedKeeps, TellingKeeps DEF Account
<1>7. CASE AutoResume
  BY <1>7, ListsKeep, ResumeOneKeeps DEF AutoResume
<1>8. CASE UNCHANGED bvars
  BY <1>8 DEF bvars, RecoveryInv, RecoveryTypes, BTypeOK, SpellsOk, SeenOk, Told
<1> QED BY <1>1, <1>2, <1>3, <1>4, <1>5, <1>6, <1>7, <1>8 DEF RecoveryNext

\* By its owner: what a pass takes off its list while the ticket leaves BLOCKED.
LEMMA LeavesByOwner ==
  ASSUME RecoveryNumbers, RecoveryInv, [RecoveryNext]_bvars, NEW t \in Tickets, NEW p \in PassNames,
         Leaves(t), t \in passes[p], t \notin passes'[p], before[p][t] = cards[t].blocks
  PROVE  cards[t].why = Owned[p]
<1>1. CASE p # "auto"
  BY <1>1 DEF RecoveryInv, SeenOk
<1>2. CASE p = "auto"
  <2>1. passes'["auto"] # passes["auto"] /\ cards' # cards /\ passes["auto"] # {}
    BY <1>2 DEF Leaves, IsBlocked
  <2>2. ASSUME NEW q \in PassNames \ {"auto"}, NEW x \in Tickets, Done(q, x) PROVE FALSE
    BY <2>1, <2>2 DEF Done, RecoveryInv, RecoveryTypes, BTypeOK
  <2>3. PICK x \in Tickets : _resume_one(x)
    <3>1. ~ \E x \in Tickets : Block(x) \/ add_step_event(x) \/ Cools(x) \/ _maybe_purge_ticket_events(x) \/ Operator(x)
      BY <2>1 DEF Block, add_step_event, Cools, _maybe_purge_ticket_events, Operator
    <3>2. ~ \E s \in {"green", "red", "pending"} : Turns(s)
      BY <2>1 DEF Turns
    <3>3. ~WindowEnds /\ ~SendEscalation
      BY <2>1 DEF WindowEnds, SendEscalation
    <3>4. ~_blocked_recheck_pass /\ ~run_upstream_ci_recovery /\ ~run_infra_account_block_recovery /\ ~run_blocked_auto_resume
      BY <2>1 DEF _blocked_recheck_pass, run_upstream_ci_recovery, run_infra_account_block_recovery, run_blocked_auto_resume
    <3>5. ~ \E x \in Tickets : _maybe_resume_target_ci(x) \/ ResumeParked("upstream", x) \/ ResumeParked("account", x)
      BY <2>2 DEF _maybe_resume_target_ci, ResumeParked, PassNames
    <3>6. ~UNCHANGED bvars
      BY <2>1 DEF bvars
    <3> QED BY <3>1, <3>2, <3>3, <3>4, <3>5, <3>6 DEF RecoveryNext, Recheck, Upstream, Account, AutoResume
  <2>4. x = t
    BY <1>2, <2>3 DEF _resume_one, Done, RecoveryInv, RecoveryTypes, BTypeOK, PassNames
  <2>5. IsBlocked(t) /\ _last_blocked_note(t) = "timeout"
    BY <2>1, <2>3, <2>4 DEF _resume_one
  <2> QED BY <1>2, <2>5, NotesTellWhy DEF BlockReasons, Owned
<1> QED BY <1>1, <1>2

\* Whatever blocked ticket a pass of agents/runners/ goes through, and however
\* late, what it saw is true of the ticket or the ticket is blocked anew.
THEOREM RecoveryInvariant == ASSUME RecoveryNumbers PROVE RecoverySpec => []RecoveryInv
<1>1. BInit => RecoveryInv
  BY RecoveryInitially
<1>2. RecoveryInv /\ [RecoveryNext]_bvars => RecoveryInv'
  BY RecoveryStep
<1> QED BY <1>1, <1>2, PTL DEF RecoverySpec

\* _resume_one and resume_blocked of the blocked-ticket runners: no ticket is
\* resumed more often than its cap, the operator is told once a window and
\* crash, and a ticket is resumed by the pass that owns its reason.
THEOREM RecoveryAlwaysSound == ASSUME RecoveryNumbers PROVE RecoverySpec => RecoveryIsSound
<1>1. RecoveryInv => BTypeOK /\ RetriesAreBounded /\ ToldOnce
  <2> SUFFICES ASSUME RecoveryInv PROVE BTypeOK /\ RetriesAreBounded /\ ToldOnce
    OBVIOUS
  <2>1. RetriesAreBounded
    BY DEF RecoveryInv, SpellsOk, SpellOk, RetriesAreBounded
  <2>2. ToldOnce
    <3>1. escalated.windows \in Nat /\ escalated.crashes \in Nat /\ escalated.sent \in Nat
      BY DEF RecoveryInv, RecoveryTypes, BTypeOK, RecoveryNumbers
    <3> QED BY <3>1 DEF RecoveryInv, Told, ToldOnce
  <2> QED BY <2>1, <2>2 DEF RecoveryInv, RecoveryTypes
<1>2. RecoveryInv /\ [RecoveryNext]_bvars =>
        [\A t \in Tickets, p \in PassNames :
           Leaves(t) /\ t \in passes[p] /\ t \notin passes'[p] /\ before[p][t] = cards[t].blocks
             => cards[t].why = Owned[p]]_bvars
  BY LeavesByOwner
<1> QED BY <1>1, <1>2, RecoveryInvariant, PTL DEF RecoverySpec, RecoveryIsSound, ByItsOwner

-----------------------------------------------------------------------------
(***************************************************************************)
(* The search is Kosaraju's, with the order the neighbours are tried in    *)
(* left open.  The usual argument goes by induction over the depth-first   *)
(* forest; here one invariant over the unfinished search takes its place   *)
(* (LastEnds): of a deadlock some ticket is still being visited, or one of *)
(* its tickets ended after everything the deadlock waits for.  When all    *)
(* visits have ended the second case holds of every deadlock, so the sweep *)
(* meets that ticket first of those not yet assigned, and who is collected *)
(* with it waits for it and is waited for (Collecting).  Being reached is  *)
(* being in every closed set, so that paths need no induction either.      *)
(***************************************************************************)

Finished == {order[i] : i \in 1..Len(order)}
Visiting == {stack[i].node : i \in 1..Len(stack)}
Mutual(g, m, n) == Reaches(g, m, n) /\ Reaches(g, n, m)

\* A node is being visited, or its visit has ended, or it was not reached.
Visits ==
  /\ seen = Finished \cup Visiting
  /\ Finished \cap Visiting = {}
  /\ \A i, j \in 1..Len(stack) : stack[i].node = stack[j].node => i = j
  /\ \A i, j \in 1..Len(order) : order[i] = order[j] => i = j
  /\ Cardinality(Finished) = Len(order)

\* The stack is a path of the graph.
Paths == \A i, j \in 1..Len(stack) : i <= j => Reaches(graph, stack[i].node, stack[j].node)

\* Neighbours that are no longer to be tried have been reached.
Tried ==
  /\ \A i \in 1..Len(stack) :
       stack[i].rest \subseteq graph[stack[i].node] /\ graph[stack[i].node] \ stack[i].rest \subseteq seen
  /\ \A i \in 1..Len(order) : graph[order[i]] \subseteq seen

\* Whatever the i-th node reaches ended no later than a node it waits for mutually.
Outlasts(i) ==
  \A v \in Nodes : Reaches(graph, order[i], v) =>
    \E j, l \in 1..Len(order) : order[j] = v /\ j <= l /\ Mutual(graph, order[i], order[l])

\* The heart of the search: of a deadlock, some ticket is still being visited,
\* or one of its tickets ended after all that the deadlock waits for.
LastEnds ==
  \A i \in 1..Len(order) :
    (\E k \in 1..Len(stack) : Mutual(graph, order[i], stack[k].node)) \/ Outlasts(i)

\* The second sweep begins when every visit has ended.
Sweeping ==
  /\ swept <= Len(order)
  /\ IF swept = 0 THEN comps = <<>> /\ frontier = {} ELSE Len(order) = Cardinality(Nodes)
  /\ \A i \in 1..Len(order) : i > Len(order) - swept => order[i] \in assigned

Exact(k) == comps[k] # {} /\ \A n \in comps[k] : comps[k] = MutuallyWaiting(graph, n)

\* The last component grows from its root, the r-th node.
Grows(r) ==
  /\ Len(comps) > 0
  /\ order[r] \in comps[Len(comps)] /\ comps[Len(comps)] \subseteq MutuallyWaiting(graph, order[r])
  /\ frontier \subseteq comps[Len(comps)]
  /\ \A x \in comps[Len(comps)] \ frontier : transposed(x) \subseteq assigned
  /\ \A k \in 1..(Len(comps) - 1) : order[r] \notin comps[k]
  /\ \A i \in 1..Len(order) : i > r => \E k \in 1..(Len(comps) - 1) : order[i] \in comps[k]

Collecting ==
  /\ \A k \in 1..Len(comps) : k < Len(comps) \/ frontier = {} => Exact(k)
  /\ frontier # {} => \E r \in 1..Len(order) : Grows(r)

KInv == KTypeOK /\ Visits /\ Paths /\ Tried /\ LastEnds /\ Sweeping /\ Collecting

-----------------------------------------------------------------------------
(* Waiting for one another. *)

LEMMA ReachesSelf == ASSUME NEW g, NEW n PROVE Reaches(g, n, n) /\ Mutual(g, n, n)
  BY DEF Reaches, Mutual

LEMMA ReachesNext == ASSUME NEW g, NEW m, NEW n \in g[m] PROVE Reaches(g, m, n)
  BY DEF Reaches

LEMMA ReachesOn == ASSUME NEW g, NEW l, NEW m, NEW n, Reaches(g, l, m), Reaches(g, m, n) PROVE Reaches(g, l, n)
  BY DEF Reaches

\* A set of nodes that waits for none outside it.
LEMMA ReachesWithin ==
  ASSUME NEW g, NEW C \in SUBSET Nodes, \A x \in C : g[x] \subseteq C, NEW m \in C, NEW n, Reaches(g, m, n) PROVE n \in C
  BY DEF Reaches

LEMMA MutualAlike == ASSUME NEW g, NEW l, NEW m, NEW n, Mutual(g, l, m), Mutual(g, m, n) PROVE Mutual(g, l, n) /\ Mutual(g, n, l)
  BY ReachesOn DEF Mutual

LEMMA WaitingAlike ==
  ASSUME NEW g, NEW m \in Nodes, NEW n \in Nodes, Mutual(g, m, n) PROVE MutuallyWaiting(g, m) = MutuallyWaiting(g, n)
  BY ReachesOn DEF Mutual, MutuallyWaiting

-----------------------------------------------------------------------------
(* The parts of the invariant for a step of one sweep are those of the other *)
(* as they were. *)

Entry == [node : Nodes, rest : SUBSET Nodes]

FirstInv == Visits /\ Paths /\ Tried /\ LastEnds
FirstVars == <<graph, seen, stack, order>>

LEMMA FirstKept == ASSUME FirstInv, UNCHANGED FirstVars PROVE FirstInv'
<1>1. graph' = graph /\ seen' = seen /\ stack' = stack /\ order' = order
  BY DEF FirstVars
<1>2. Finished' = Finished /\ Visiting' = Visiting
  BY <1>1 DEF Finished, Visiting
<1>3. Visits' /\ Paths' /\ Tried'
  BY <1>1, <1>2 DEF FirstInv, Visits, Paths, Tried
<1>4. LastEnds'
  <2>1. ASSUME NEW i \in 1..Len(order) PROVE (\E k \in 1..Len(stack) : Mutual(graph, order[i], stack[k].node)) \/ Outlasts(i)
    BY DEF FirstInv, LastEnds
  <2>2. \A i : Outlasts(i)' <=> Outlasts(i)
    BY <1>1 DEF Outlasts
  <2> QED BY <1>1, <2>1, <2>2 DEF LastEnds
<1> QED BY <1>3, <1>4 DEF FirstInv

\* When every visit has ended there is nothing left to visit.
LEMMA AllEnded ==
  ASSUME KTypeOK, Visits, Len(order) = Cardinality(Nodes)
  PROVE  Finished = Nodes /\ stack = <<>> /\ seen = Nodes
<1>1. Finished \subseteq Nodes
  BY DEF Finished, KTypeOK
<1>2. Finished = Nodes
  BY <1>1, CycleSearchConstants, FS_Subset DEF Visits
<1>3. Visiting \subseteq Nodes
  <2>1. stack \in Seq(Entry)
    BY DEF KTypeOK, Entry
  <2>2. \A i \in 1..Len(stack) : stack[i] \in Entry
    BY <2>1
  <2> QED BY <2>2 DEF Visiting, Entry
<1>4. Visiting = {}
  BY <1>2, <1>3 DEF Visits
<1>5. stack = <<>>
  <2> SUFFICES ASSUME stack # <<>> PROVE FALSE
    OBVIOUS
  <2>1. Len(stack) \in Nat /\ Len(stack) > 0
    BY DEF KTypeOK
  <2>2. stack[1].node \in Visiting
    BY <2>1 DEF Visiting
  <2> QED BY <2>2, <1>4
<1> QED BY <1>2, <1>4, <1>5 DEF Visits

\* So a step of the first sweep finds the second one not begun.
LEMMA NotBegun ==
  ASSUME KTypeOK, Visits, Sweeping, StartVisit \/ NextNeighbour \/ EndVisit
  PROVE  swept = 0 /\ comps = <<>> /\ frontier = {}
<1>1. CASE StartVisit
  BY <1>1, AllEnded DEF StartVisit, Sweeping
<1>2. CASE NextNeighbour
  BY <1>2, AllEnded DEF NextNeighbour, Sweeping
<1>3. CASE EndVisit
  BY <1>3, AllEnded DEF EndVisit, Sweeping
<1> QED BY <1>1, <1>2, <1>3

-----------------------------------------------------------------------------
(* The first sweep. *)

\* A node is entered, from the top of the stack s or from nowhere.
LEMMA Entered ==
  ASSUME KInv, UNCHANGED <<graph, order>>,
         NEW s \in Seq(Entry), Len(s) = Len(stack),
         \A i \in 1..Len(s) : /\ s[i].node = stack[i].node /\ s[i].rest \subseteq stack[i].rest
                             /\ stack[i].rest \ s[i].rest \subseteq seen',
         NEW n \in Nodes \ seen, Pushes(s, n),
         \A i \in 1..Len(s) : Reaches(graph, s[i].node, n)
  PROVE  FirstInv' /\ stack' \in Seq(Entry) /\ seen' \subseteq Nodes
<1> DEFINE d == Len(stack)
<1>1. d \in Nat /\ graph \in [Nodes -> SUBSET Nodes] /\ seen \subseteq Nodes
  BY DEF KInv, KTypeOK
<1>2. Frame(n) \in Entry /\ Frame(n).node = n /\ Frame(n).rest = graph[n]
  BY <1>1 DEF Frame, Entry
<1>3. /\ stack' \in Seq(Entry) /\ Len(stack') = d + 1 /\ stack'[d + 1] = Frame(n)
      /\ \A i \in 1..d : stack'[i] = s[i]
  BY <1>1, <1>2 DEF Pushes
<1>4. seen' = seen \cup {n}
  BY DEF Pushes
<1>5. \A i \in 1..(d + 1) : stack'[i].node = IF i = d + 1 THEN n ELSE stack[i].node
  BY <1>1, <1>2, <1>3
<1>6. Visiting' = Visiting \cup {n}
  <2>1. Visiting' = {stack'[i].node : i \in 1..(d + 1)}
    BY <1>3 DEF Visiting
  <2>2. Visiting = {stack[i].node : i \in 1..d}
    BY DEF Visiting
  <2>3. \A i : i \in 1..(d + 1) <=> i \in 1..d \/ i = d + 1
    BY <1>1
  <2>4. \A i \in 1..d : i # d + 1
    BY <1>1
  <2> QED BY <2>1, <2>2, <2>3, <2>4, <1>5
<1>7. Finished' = Finished /\ n \notin Finished /\ n \notin Visiting
  BY DEF Finished, KInv, Visits
<1> HIDE DEF d
<1>8. Visits'
  <2>1. \A i, j \in 1..(d + 1) : stack'[i].node = stack'[j].node => i = j
    <3> SUFFICES ASSUME NEW i \in 1..(d + 1), NEW j \in 1..(d + 1), stack'[i].node = stack'[j].node PROVE i = j
      OBVIOUS
    <3>1. \A k \in 1..d : stack[k].node # n
      BY <1>7 DEF Visiting, d
    <3>2. \A k, l \in 1..d : stack[k].node = stack[l].node => k = l
      BY DEF KInv, Visits, d
    <3> QED BY <1>1, <1>5, <3>1, <3>2
  <2> QED BY <2>1, <1>3, <1>4, <1>6, <1>7 DEF KInv, Visits
<1>9. Paths'
  <2> SUFFICES ASSUME NEW i \in 1..(d + 1), NEW j \in 1..(d + 1), i <= j PROVE Reaches(graph, stack'[i].node, stack'[j].node)
    BY <1>3 DEF Paths
  <2>1. CASE j # d + 1
    <3>1. i \in 1..d /\ j \in 1..d
      BY <1>1, <2>1
    <3>2. Reaches(graph, stack[i].node, stack[j].node)
      BY <3>1 DEF KInv, Paths, d
    <3>3. i # d + 1
      BY <1>1, <2>1
    <3> QED BY <3>2, <3>3, <1>5, <2>1
  <2>2. CASE j = d + 1 /\ i # d + 1
    <3>1. i \in 1..Len(s) /\ s[i].node = stack[i].node
      BY <1>1, <2>2 DEF d
    <3> QED BY <3>1, <1>5, <2>2
  <2>3. CASE j = d + 1 /\ i = d + 1
    BY <2>3, <1>5, ReachesSelf
  <2> QED BY <2>1, <2>2, <2>3
<1>10. Tried'
  <2>1. ASSUME NEW i \in 1..(d + 1)
        PROVE  stack'[i].rest \subseteq graph[stack'[i].node] /\ graph[stack'[i].node] \ stack'[i].rest \subseteq seen'
    <3>1. CASE i = d + 1
      BY <3>1, <1>2, <1>3
    <3>2. CASE i # d + 1
      <4>1. i \in 1..d /\ i \in 1..Len(s) /\ i \in 1..Len(stack)
        BY <1>1, <3>2 DEF d
      <4>2. stack'[i] = s[i] /\ s[i].node = stack[i].node /\ s[i].rest \subseteq stack[i].rest
            /\ stack[i].rest \ s[i].rest \subseteq seen'
        BY <1>3, <4>1
      <4>3. stack[i].rest \subseteq graph[stack[i].node] /\ graph[stack[i].node] \ stack[i].rest \subseteq seen
        BY <4>1 DEF KInv, Tried
      <4> QED BY <4>2, <4>3, <1>4
    <3> QED BY <3>1, <3>2
  <2>2. \A i \in 1..Len(order) : graph[order[i]] \subseteq seen'
    BY <1>4 DEF KInv, Tried
  <2> QED BY <2>1, <2>2, <1>3 DEF Tried
<1>11. LastEnds'
  <2> SUFFICES ASSUME NEW i \in 1..Len(order)
        PROVE (\E k \in 1..(d + 1) : Mutual(graph, order[i], stack'[k].node)) \/ Outlasts(i)
    BY <1>3 DEF LastEnds, Outlasts
  <2>1. (\E k \in 1..d : Mutual(graph, order[i], stack[k].node)) \/ Outlasts(i)
    BY DEF KInv, LastEnds, d
  <2>2. \A k \in 1..d : k \in 1..(d + 1) /\ k # d + 1
    BY <1>1
  <2> QED BY <2>1, <2>2, <1>5
<1> QED BY <1>1, <1>3, <1>4, <1>8, <1>9, <1>10, <1>11 DEF FirstInv

LEMMA StartVisitKeeps == ASSUME KInv, StartVisit PROVE KInv'
<1>1. PICK n \in Nodes \ seen : Pushes(stack, n)
  BY DEF StartVisit
<1>2. stack = <<>> /\ UNCHANGED <<graph, order, swept, frontier, comps>>
  BY DEF StartVisit
<1>3. swept = 0 /\ comps = <<>> /\ frontier = {}
  BY NotBegun DEF KInv
<1>4. stack \in Seq(Entry) /\ Len(stack) = 0
  BY <1>2 DEF KInv, KTypeOK, Entry
<1>5. \A i \in 1..Len(stack) : FALSE
  BY <1>4
<1>6. FirstInv' /\ stack' \in Seq(Entry) /\ seen' \subseteq Nodes
  BY <1>1, <1>2, <1>4, <1>5, Entered
<1> QED BY <1>2, <1>3, <1>6
        DEF KInv, FirstInv, KTypeOK, Entry, Sweeping, Collecting, Exact, assigned

\* The top of the stack, and the stack with a neighbour taken off its rest.
LEMMA Tops ==
  ASSUME KTypeOK, stack # <<>>
  PROVE  Len(stack) \in Nat \ {0} /\ top \in Entry /\ top = stack[Len(stack)]
<1>1. stack \in Seq(Entry)
  BY DEF KTypeOK, Entry
<1>2. Len(stack) \in Nat \ {0}
  BY <1>1
<1>3. stack[Len(stack)] \in Entry
  BY <1>1, <1>2
<1> QED BY <1>2, <1>3 DEF top

LEMMA NextNeighbourKeeps == ASSUME KInv, NextNeighbour PROVE KInv'
<1>1. PICK n \in top.rest : LET s == [stack EXCEPT ![Len(stack)].rest = @ \ {n}]
                           IN IF n \in seen THEN stack' = s /\ UNCHANGED seen ELSE Pushes(s, n)
  BY DEF NextNeighbour
<1> DEFINE d == Len(stack)
           s == [stack EXCEPT ![d].rest = @ \ {n}]
<1>2. stack # <<>> /\ UNCHANGED <<graph, order, swept, frontier, comps>>
  BY DEF NextNeighbour
<1>3. swept = 0 /\ comps = <<>> /\ frontier = {}
  BY NotBegun DEF KInv
<1>4. d \in Nat \ {0} /\ d \in 1..d /\ top \in Entry /\ top = stack[d] /\ stack \in Seq(Entry)
  BY <1>2, Tops DEF KInv, KTypeOK, Entry
<1>5. n \in Nodes /\ n \in graph[stack[d].node]
  BY <1>4 DEF Entry, KInv, Tried
<1>6. /\ s \in Seq(Entry) /\ Len(s) = d
      /\ \A i \in 1..d : s[i] = IF i = d THEN [stack[d] EXCEPT !.rest = @ \ {n}] ELSE stack[i]
  BY <1>4 DEF Entry
<1>7. ASSUME NEW i \in 1..d
      PROVE  s[i].node = stack[i].node /\ s[i].rest = IF i = d THEN stack[i].rest \ {n} ELSE stack[i].rest
  <2>1. stack[i] \in Entry /\ s[i] = IF i = d THEN [stack[i] EXCEPT !.rest = @ \ {n}] ELSE stack[i]
    <3>1. stack[i] \in Entry
      BY <1>4
    <3> HIDE DEF s
    <3> QED BY <3>1, <1>6
  <2> HIDE DEF s
  <2> QED BY <2>1 DEF Entry
<1>8. \A i \in 1..d : s[i].rest \subseteq stack[i].rest /\ stack[i].rest \ s[i].rest \subseteq {n}
  BY <1>7
<1> HIDE DEF s
<1>9. CASE n \notin seen
  <2>1. Pushes(s, n)
    BY <1>1, <1>9 DEF s
  <2>2. n \in seen'
    BY <2>1 DEF Pushes
  <2>3. \A i \in 1..d : Reaches(graph, s[i].node, n)
    <3> SUFFICES ASSUME NEW i \in 1..d PROVE Reaches(graph, stack[i].node, n)
      BY <1>7
    <3>1. Reaches(graph, stack[i].node, stack[d].node)
      BY <1>4 DEF KInv, Paths
    <3> QED BY <3>1, <1>5, ReachesNext, ReachesOn
  <2>4. FirstInv' /\ stack' \in Seq(Entry) /\ seen' \subseteq Nodes
    BY <1>2, <1>5, <1>6, <1>7, <1>8, <1>9, <2>1, <2>2, <2>3, Entered
  <2> QED BY <1>2, <1>3, <2>4
          DEF KInv, FirstInv, KTypeOK, Entry, Sweeping, Collecting, Exact, assigned
<1>10. CASE n \in seen
  <2>1. stack' = s /\ seen' = seen
    BY <1>1, <1>10 DEF s
  <2>2. Len(stack') = d /\ \A i \in 1..d : stack'[i].node = stack[i].node
    BY <2>1, <1>6, <1>7
  <2>3. Visiting' = Visiting /\ Finished' = Finished
    <3>1. Visiting' = {stack'[i].node : i \in 1..d}
      BY <2>2 DEF Visiting
    <3> QED BY <3>1, <2>2, <1>2 DEF Visiting, Finished
  <2>4. Visits'
    BY <2>1, <2>2, <2>3, <1>2 DEF KInv, Visits
  <2>5. Paths'
    BY <2>2, <1>2 DEF KInv, Paths
  <2>6. Tried'
    <3>1. ASSUME NEW i \in 1..d
          PROVE  stack'[i].rest \subseteq graph[stack'[i].node] /\ graph[stack'[i].node] \ stack'[i].rest \subseteq seen
      <4>1. stack[i].rest \subseteq graph[stack[i].node] /\ graph[stack[i].node] \ stack[i].rest \subseteq seen
        BY DEF KInv, Tried
      <4>2. stack'[i].rest \subseteq stack[i].rest /\ stack[i].rest \ stack'[i].rest \subseteq {n} /\ stack'[i].node = stack[i].node
        BY <1>8, <2>1, <2>2
      <4> QED BY <4>1, <4>2, <1>10
    <3> QED BY <3>1, <2>1, <2>2, <1>2 DEF KInv, Tried
  <2>7. LastEnds'
    <3> SUFFICES ASSUME NEW i \in 1..Len(order)
          PROVE (\E k \in 1..d : Mutual(graph, order[i], stack'[k].node)) \/ Outlasts(i)
      BY <2>2, <1>2 DEF LastEnds, Outlasts
    <3>1. (\E k \in 1..d : Mutual(graph, order[i], stack[k].node)) \/ Outlasts(i)
      BY DEF KInv, LastEnds
    <3> QED BY <2>2, <3>1
  <2> QED BY <1>2, <1>3, <1>6, <2>1, <2>4, <2>5, <2>6, <2>7
          DEF KInv, FirstInv, KTypeOK, Entry, Sweeping, Collecting, Exact, assigned
<1> QED BY <1>9, <1>10

\* A sequence without its last element.
LEMMA FrontOf ==
  ASSUME NEW S, NEW s \in Seq(S), Len(s) > 0
  PROVE  LET f == SubSeq(s, 1, Len(s) - 1)
         IN f \in Seq(S) /\ Len(f) = Len(s) - 1 /\ \A i \in 1..(Len(s) - 1) : f[i] = s[i]
<1>1. Len(s) \in Nat
  OBVIOUS
<1>2. \A i \in 1..(Len(s) - 1) : s[i] \in S
  BY <1>1
<1> DEFINE f == SubSeq(s, 1, Len(s) - 1)
<1>3. /\ f \in Seq(S) /\ Len(f) = (IF 1 <= Len(s) - 1 THEN (Len(s) - 1) - 1 + 1 ELSE 0)
      /\ \A i \in 1..((Len(s) - 1) - 1 + 1) : f[i] = s[1 + i - 1]
  BY <1>1, <1>2, SubSeqProperties
<1> HIDE DEF f
<1>4. Len(f) = Len(s) - 1
  <2>1. CASE Len(s) = 1
    BY <2>1, <1>3
  <2>2. CASE Len(s) > 1
    <3>1. Len(f) = (Len(s) - 1) - 1 + 1
      BY <2>2, <1>1, <1>3
    <3> QED BY <3>1, <1>1
  <2>3. Len(s) = 1 \/ Len(s) > 1
    <3>1. \A l \in Nat : l > 0 => l = 1 \/ l > 1
      OBVIOUS
    <3>2. Len(s) \in Nat /\ Len(s) > 0
      BY <1>1
    <3> QED BY ONLY <3>1, <3>2
  <2> QED BY <2>1, <2>2, <2>3
<1>5. ASSUME NEW i \in 1..(Len(s) - 1) PROVE f[i] = s[i]
  <2>1. i \in 1..((Len(s) - 1) - 1 + 1) /\ 1 + i - 1 = i
    BY <1>1
  <2> QED BY <2>1, <1>3
<1> QED BY <1>3, <1>4, <1>5 DEF f

\* A visit ends.
LEMMA EndVisitKeeps == ASSUME KInv, EndVisit PROVE KInv'
<1> DEFINE d == Len(stack)
           e == Len(order)
           t == top.node
<1>1. /\ stack # <<>> /\ top.rest = {} /\ order' = Append(order, t) /\ stack' = SubSeq(stack, 1, d - 1)
      /\ UNCHANGED <<graph, seen, swept, frontier, comps>>
  BY DEF EndVisit
<1>2. swept = 0 /\ comps = <<>> /\ frontier = {}
  BY NotBegun DEF KInv
<1>3. d \in Nat \ {0} /\ d \in 1..d /\ top \in Entry /\ top = stack[d] /\ stack \in Seq(Entry) /\ t \in Nodes
      /\ e \in Nat /\ order \in Seq(Nodes) /\ graph \in [Nodes -> SUBSET Nodes]
  BY <1>1, Tops DEF KInv, KTypeOK, Entry
<1>4. stack' \in Seq(Entry) /\ Len(stack') = d - 1 /\ \A i \in 1..(d - 1) : stack'[i] = stack[i]
  BY <1>1, <1>3, FrontOf
<1>5. order' \in Seq(Nodes) /\ Len(order') = e + 1 /\ order'[e + 1] = t /\ \A i \in 1..e : order'[i] = order[i]
  BY <1>1, <1>3
<1>6. t = stack[d].node
  BY <1>3
<1> HIDE DEF t
<1>7. Finished' = Finished \cup {t}
  <2>1. \A i : i \in 1..(e + 1) <=> i \in 1..e \/ i = e + 1
    BY <1>3
  <2>2. Finished' = {order'[i] : i \in 1..(e + 1)}
    BY <1>5 DEF Finished
  <2> QED BY <2>1, <2>2, <1>5 DEF Finished
<1>8. Visiting = Visiting' \cup {t} /\ t \notin Visiting'
  <2>1. \A i : i \in 1..d <=> i \in 1..(d - 1) \/ i = d
    BY <1>3
  <2>2. Visiting' = {stack[i].node : i \in 1..(d - 1)}
    BY <1>4 DEF Visiting
  <2>3. \A i \in 1..(d - 1) : i # d /\ i \in 1..d
    BY <1>3
  <2>4. \A i \in 1..(d - 1) : stack[i].node # t
    BY <2>3, <1>3, <1>6 DEF KInv, Visits
  <2> QED BY <2>1, <2>2, <2>4, <1>6 DEF Visiting
<1>9. t \notin Finished
  BY <1>8 DEF KInv, Visits
<1>10. \A i \in 1..e : order[i] # t
  BY <1>9 DEF Finished
<1>11. Visits'
  <2>1. Cardinality(Finished') = e + 1
    <3>1. Finished \subseteq Nodes
      BY <1>3 DEF Finished
    <3>2. IsFiniteSet(Finished)
      BY <3>1, CycleSearchConstants, FS_Subset
    <3> QED BY <3>2, <1>7, <1>9, FS_AddElement DEF KInv, Visits
  <2>2. \A i, j \in 1..(d - 1) : stack'[i].node = stack'[j].node => i = j
    <3>1. \A i \in 1..(d - 1) : i \in 1..d
      BY <1>3
    <3> QED BY <3>1, <1>4 DEF KInv, Visits
  <2>3. ASSUME NEW i \in 1..(e + 1), NEW j \in 1..(e + 1), order'[i] = order'[j] PROVE i = j
    <3>1. CASE i \in 1..e /\ j \in 1..e
      BY <3>1, <2>3, <1>5 DEF KInv, Visits
    <3>2. CASE i \in 1..e /\ j = e + 1
      BY <3>2, <2>3, <1>5, <1>10
    <3>3. CASE i = e + 1 /\ j \in 1..e
      BY <3>3, <2>3, <1>5, <1>10
    <3> QED BY <3>1, <3>2, <3>3, <1>3
  <2>4. seen' = Finished' \cup Visiting' /\ Finished' \cap Visiting' = {}
    BY <1>1, <1>7, <1>8 DEF KInv, Visits
  <2> QED BY <2>1, <2>2, <2>3, <2>4, <1>4, <1>5 DEF Visits
<1>12. Paths'
  <2>1. \A i \in 1..(d - 1) : i \in 1..d
    BY <1>3
  <2> QED BY <2>1, <1>1, <1>4 DEF KInv, Paths
<1>13. graph[t] \subseteq seen
  BY <1>1, <1>3, <1>6 DEF KInv, Tried
<1>14. Tried'
  <2>1. \A i \in 1..(d - 1) : i \in 1..d
    BY <1>3
  <2>2. \A i \in 1..(d - 1) : stack'[i].rest \subseteq graph'[stack'[i].node] /\ graph'[stack'[i].node] \ stack'[i].rest \subseteq seen'
    BY <2>1, <1>1, <1>4 DEF KInv, Tried
  <2>3. ASSUME NEW i \in 1..(e + 1) PROVE graph'[order'[i]] \subseteq seen'
    <3>1. CASE i \in 1..e
      BY <3>1, <1>1, <1>5 DEF KInv, Tried
    <3>2. CASE i = e + 1
      BY <3>2, <1>1, <1>5, <1>13
    <3> QED BY <3>1, <3>2, <1>3
  <2> QED BY <2>2, <2>3, <1>4, <1>5 DEF Tried
\* If nobody left on the stack is in t's deadlock, all that t reaches has ended.
<1>15. ASSUME \A k \in 1..(d - 1) : ~Mutual(graph, t, stack[k].node) PROVE LastEnds'
  <2>1. ASSUME NEW v \in Nodes, Reaches(graph, t, v) PROVE v \in Finished'
    <3> DEFINE X == {x \in Finished' : Reaches(graph, t, x)}
    <3>1. X \in SUBSET Nodes
      BY <1>3, <1>5 DEF Finished
    <3>2. t \in X
      BY <1>7, ReachesSelf
    <3>3. ASSUME NEW x \in X, NEW y \in graph[x] PROVE y \in X
      <4>1. Reaches(graph, t, y)
        BY <3>3, ReachesNext, ReachesOn
      <4>2. y \in seen
        <5>1. CASE x = t
          BY <5>1, <1>13
        <5>2. CASE x # t
          BY <5>2, <1>7 DEF KInv, Tried, Finished
        <5> QED BY <5>1, <5>2
      <4>3. ASSUME y \in Visiting' PROVE FALSE
        <5>1. PICK k \in 1..(d - 1) : y = stack[k].node
          BY <4>3, <1>4 DEF Visiting
        <5>2. k \in 1..d /\ k <= d
          BY <1>3
        <5>3. Reaches(graph, y, t)
          BY <5>1, <5>2, <1>3, <1>6 DEF KInv, Paths
        <5> QED BY <4>1, <5>1, <5>3, <1>15 DEF Mutual
      <4> QED BY <4>1, <4>2, <4>3, <1>1, <1>11 DEF Visits
    <3>4. \A x \in X : graph[x] \subseteq X
      BY <3>3
    <3> HIDE DEF X
    <3>5. v \in X
      BY <3>1, <3>2, <3>4, <2>1, ReachesWithin
    <3> QED BY <3>5 DEF X
  <2>2. ASSUME NEW i \in 1..(e + 1), Mutual(graph, order'[i], t), NEW v \in Nodes, Reaches(graph, order'[i], v)
        PROVE \E j, l \in 1..(e + 1) : order'[j] = v /\ j <= l /\ Mutual(graph, order'[i], order'[l])
    <3>1. Reaches(graph, t, v)
      BY <2>2, ReachesOn DEF Mutual
    <3>2. v \in Finished'
      BY <3>1, <2>1
    <3>3. PICK j \in 1..(e + 1) : order'[j] = v
      BY <3>2, <1>5 DEF Finished
    <3>4. e + 1 \in 1..(e + 1) /\ j <= e + 1 /\ order'[e + 1] = t
      BY <1>3, <1>5
    <3> QED BY <3>3, <3>4, <2>2
  <2>3. ASSUME NEW i \in 1..(e + 1), ~ \E k \in 1..(d - 1) : Mutual(graph, order'[i], stack'[k].node),
               NEW v \in Nodes, Reaches(graph, order'[i], v)
        PROVE \E j, l \in 1..(e + 1) : order'[j] = v /\ j <= l /\ Mutual(graph, order'[i], order'[l])
    <3>1. CASE Mutual(graph, order'[i], t)
      BY <3>1, <2>2, <2>3
    <3>2. CASE ~Mutual(graph, order'[i], t)
      <4>1. i \in 1..e /\ order'[i] = order[i]
        BY <3>2, <1>3, <1>5, ReachesSelf
      <4>2. ~ \E k \in 1..d : Mutual(graph, order[i], stack[k].node)
        <5> SUFFICES ASSUME NEW k \in 1..d, Mutual(graph, order[i], stack[k].node) PROVE FALSE
          OBVIOUS
        <5>1. CASE k = d
          BY <5>1, <3>2, <4>1, <1>6
        <5>2. CASE k # d
          <6>1. k \in 1..(d - 1)
            BY <5>2, <1>3
          <6> QED BY <6>1, <2>3, <4>1, <1>4
        <5> QED BY <5>1, <5>2
      <4>3. Outlasts(i)
        BY <4>1, <4>2 DEF KInv, LastEnds
      <4>4. PICK j \in 1..e, l \in 1..e : order[j] = v /\ j <= l /\ Mutual(graph, order[i], order[l])
        BY <4>1, <4>3, <2>3 DEF Outlasts
      <4>5. j \in 1..(e + 1) /\ l \in 1..(e + 1) /\ order'[j] = order[j] /\ order'[l] = order[l]
        BY <1>3, <1>5
      <4> QED BY <4>1, <4>4, <4>5
    <3> QED BY <3>1, <3>2
  <2>4. \A i \in 1..(e + 1) :
          \/ \E k \in 1..(d - 1) : Mutual(graph', order'[i], stack'[k].node)
          \/ \A v \in Nodes : Reaches(graph', order'[i], v) =>
               \E j, l \in 1..(e + 1) : order'[j] = v /\ j <= l /\ Mutual(graph', order'[i], order'[l])
    BY <2>3, <1>1
  <2> QED BY <2>4, <1>4, <1>5, Zenon DEF LastEnds, Outlasts
<1>16. ASSUME \E k \in 1..(d - 1) : Mutual(graph, t, stack[k].node) PROVE LastEnds'
  <2>1. PICK b \in 1..(d - 1) : Mutual(graph, t, stack[b].node)
    BY <1>16
  <2>2. ASSUME NEW i \in 1..(e + 1)
        PROVE \/ \E k \in 1..(d - 1) : Mutual(graph, order'[i], stack'[k].node)
              \/ \A v \in Nodes : Reaches(graph, order'[i], v) =>
                   \E j, l \in 1..(e + 1) : order'[j] = v /\ j <= l /\ Mutual(graph, order'[i], order'[l])
    <3>1. CASE i = e + 1
      BY <3>1, <2>1, <1>4, <1>5
    <3>2. CASE i # e + 1
      <4>1. i \in 1..e /\ order'[i] = order[i]
        BY <3>2, <1>3, <1>5
      <4>2. CASE \E m \in 1..d : Mutual(graph, order[i], stack[m].node)
        <5>1. PICK m \in 1..d : Mutual(graph, order[i], stack[m].node)
          BY <4>2
        <5>2. CASE m = d
          <6>1. Mutual(graph, order[i], stack[b].node)
            BY <5>1, <5>2, <2>1, <1>6, MutualAlike
          <6> QED BY <6>1, <4>1, <1>4
        <5>3. CASE m # d
          <6>1. m \in 1..(d - 1)
            BY <5>3, <1>3
          <6> QED BY <6>1, <5>1, <4>1, <1>4
        <5> QED BY <5>2, <5>3
      <4>3. CASE Outlasts(i)
        <5>1. \A j \in 1..e : j \in 1..(e + 1) /\ order'[j] = order[j]
          BY <1>3, <1>5
        <5> QED BY <5>1, <4>1, <4>3 DEF Outlasts
      <4> QED BY <4>1, <4>2, <4>3 DEF KInv, LastEnds
    <3> QED BY <3>1, <3>2
  <2>3. \A i \in 1..(e + 1) :
          \/ \E k \in 1..(d - 1) : Mutual(graph', order'[i], stack'[k].node)
          \/ \A v \in Nodes : Reaches(graph', order'[i], v) =>
               \E j, l \in 1..(e + 1) : order'[j] = v /\ j <= l /\ Mutual(graph', order'[i], order'[l])
    BY <2>2, <1>1
  <2> QED BY <2>3, <1>4, <1>5, Zenon DEF LastEnds, Outlasts
<1>17. LastEnds'
  BY <1>15, <1>16
<1>18. Sweeping' /\ Collecting'
  BY <1>1, <1>2, <1>3, <1>5 DEF Sweeping, Collecting, Exact, assigned
<1> QED BY <1>1, <1>4, <1>5, <1>11, <1>12, <1>14, <1>17, <1>18 DEF KInv, KTypeOK, Entry

-----------------------------------------------------------------------------
(* The second sweep. *)

\* All tickets of a component that is complete are in it.
LEMMA ExactIsWhole ==
  ASSUME NEW k, Exact(k), NEW m \in Nodes, NEW n \in Nodes, Mutual(graph, m, n), n \in comps[k]
  PROVE  m \in comps[k]
  BY DEF Exact, MutuallyWaiting, Mutual

LEMMA StartComponentKeeps == ASSUME KInv, StartComponent PROVE KInv'
<1> DEFINE e == Len(order)
           r == e - swept
           n == order[r]
           c == Len(comps)
<1>1. /\ e = Cardinality(Nodes) /\ frontier = {} /\ swept < e /\ swept' = swept + 1
      /\ UNCHANGED <<graph, seen, stack, order>>
      /\ IF n \in assigned THEN UNCHANGED <<frontier, comps>> ELSE frontier' = {n} /\ comps' = Append(comps, {n})
  BY DEF StartComponent
<1>2. /\ e \in Nat /\ swept \in Nat /\ r \in 1..e /\ c \in Nat /\ order \in Seq(Nodes) /\ comps \in Seq(SUBSET Nodes)
  <2>1. e \in Nat /\ swept \in 0..Cardinality(Nodes) /\ c \in Nat /\ order \in Seq(Nodes) /\ comps \in Seq(SUBSET Nodes)
    BY DEF KInv, KTypeOK
  <2>2. swept \in Nat
    BY <2>1, <1>1
  <2> QED BY <2>1, <2>2, <1>1
<1>3. n \in Nodes
  BY <1>2
<1>4. FirstInv'
  BY <1>1, FirstKept DEF FirstVars, FirstInv, KInv
<1>5. swept' \in 0..Cardinality(Nodes) /\ swept' <= e /\ swept' # 0
  BY <1>1, <1>2
<1>6. \A i \in 1..e : i > r => order[i] \in assigned
  BY DEF KInv, Sweeping
<1>7. \A i \in 1..e : i > e - swept' => i = r \/ i > r
  BY <1>1, <1>2
<1>8. \A k \in 1..c : Exact(k)
  BY <1>1 DEF KInv, Collecting
<1> HIDE DEF e, r, n, c
<1>9. CASE n \in assigned
  <2>1. frontier' = {} /\ comps' = comps /\ assigned' = assigned
    BY <1>1, <1>9 DEF assigned
  <2>2. Sweeping'
    BY <2>1, <1>1, <1>5, <1>6, <1>7, <1>9 DEF Sweeping, e, n
  <2>3. Collecting'
    BY <2>1, <1>1, <1>8 DEF Collecting, Exact, c
  <2>4. KTypeOK'
    BY <2>1, <1>1, <1>5 DEF KInv, KTypeOK
  <2> QED BY <1>4, <2>2, <2>3, <2>4 DEF KInv, FirstInv
<1>10. CASE n \notin assigned
  <2>1. frontier' = {n} /\ comps' = Append(comps, {n})
    BY <1>1, <1>10
  <2>2. /\ comps' \in Seq(SUBSET Nodes) /\ Len(comps') = c + 1 /\ comps'[c + 1] = {n}
        /\ \A k \in 1..c : comps'[k] = comps[k]
    <3>1. {n} \in SUBSET Nodes
      BY <1>3
    <3> QED BY <3>1, <1>2, <2>1 DEF c
  <2>3. \A k : k \in 1..(c + 1) <=> k \in 1..c \/ k = c + 1
    BY <1>2
  <2>4. assigned' = assigned \cup {n}
    <3>1. assigned' = UNION {comps'[k] : k \in 1..(c + 1)}
      BY <2>2 DEF assigned
    <3>2. assigned = UNION {comps[k] : k \in 1..c}
      BY DEF assigned, c
    <3> QED BY <3>1, <3>2, <2>2, <2>3
  <2>5. Sweeping'
    <3>1. \A i \in 1..e : i > e - swept' => order[i] \in assigned'
      BY <2>4, <1>6, <1>7 DEF n
    <3> QED BY <3>1, <2>1, <1>1, <1>5 DEF Sweeping, e
  <2>6. KTypeOK'
    BY <2>1, <2>2, <1>1, <1>3, <1>5 DEF KInv, KTypeOK
  <2>7. \A k \in 1..c : Exact(k)'
    BY <2>2, <1>1, <1>8 DEF Exact
  <2>8. ASSUME NEW q, q = r PROVE Grows(q)'
    <3>1. {n} \subseteq MutuallyWaiting(graph, n)
      BY <1>3, ReachesSelf DEF MutuallyWaiting
    <3>2. \A k \in 1..c : n \notin comps'[k]
      BY <1>10, <2>2 DEF assigned, c
    <3>3. \A i \in 1..e : i > q => \E k \in 1..c : order[i] \in comps'[k]
      BY <1>6, <2>2, <2>8 DEF assigned, c
    <3>4. c + 1 > 0 /\ (c + 1) - 1 = c
      BY <1>2
    <3>5. order'[q] = n
      BY <1>1, <2>8 DEF n
    <3>6. Len(comps') = c + 1 /\ comps'[Len(comps')] = {n} /\ Len(comps') - 1 = c /\ Len(comps') > 0
      BY <2>2, <3>4
    <3>7. \A x : x \notin comps'[Len(comps')] \ frontier'
      BY <3>6, <2>1
    <3>8. order' = order /\ graph' = graph /\ Len(order') = e
      BY <1>1 DEF e
    <3>9. n \in comps'[Len(comps')] /\ comps'[Len(comps')] \subseteq MutuallyWaiting(graph, n) /\ frontier' \subseteq comps'[Len(comps')]
      BY <3>1, <3>6, <2>1
    <3>10. \A k \in 1..(Len(comps') - 1) : n \notin comps'[k]
      BY <3>2, <3>6
    <3>11. \A i \in 1..Len(order') : i > q => \E k \in 1..(Len(comps') - 1) : order'[i] \in comps'[k]
      BY <3>3, <3>6, <3>8
    <3> HIDE DEF n
    <3> QED BY <3>5, <3>6, <3>7, <3>8, <3>9, <3>10, <3>11, Zenon DEF Grows
  <2>9. Collecting'
    <3>1. \A k \in 1..(c + 1) : k < c + 1 => k \in 1..c
      BY <1>2
    <3>2. frontier' # {}
      BY <2>1
    <3>3. \E q \in 1..Len(order') : Grows(q)'
      BY <1>1, <1>2, <2>8 DEF e
    <3>4. \A k \in 1..Len(comps') : k < Len(comps') \/ frontier' = {} => Exact(k)'
      BY <3>1, <3>2, <2>2, <2>7
    <3> QED BY <3>3, <3>4, Zenon DEF Collecting
  <2> QED BY <1>4, <2>5, <2>6, <2>9 DEF KInv, FirstInv
<1> QED BY <1>9, <1>10

\* Who waits for a ticket of the deadlock being collected, and is in no earlier
\* one, is in it.
LEMMA JoinersBelong ==
  ASSUME KInv, NEW r \in 1..Len(order), Grows(r), Len(order) = Cardinality(Nodes),
         NEW m \in Nodes, m \notin assigned, Reaches(graph, m, order[r])
  PROVE  m \in MutuallyWaiting(graph, order[r])
<1> DEFINE n == order[r]
           c == Len(comps)
<1>1. Finished = Nodes /\ stack = <<>>
  BY AllEnded DEF KInv
<1>2. order \in Seq(Nodes) /\ Len(order) \in Nat /\ comps \in Seq(SUBSET Nodes) /\ c \in Nat /\ n \in Nodes
  BY DEF KInv, KTypeOK
<1>3. PICK i \in 1..Len(order) : order[i] = m
  BY <1>1 DEF Finished
<1>4. Outlasts(i)
  <2>1. ~ \E k \in 1..Len(stack) : Mutual(graph, order[i], stack[k].node)
    BY <1>1
  <2> QED BY <2>1 DEF KInv, LastEnds
<1>5. PICK j \in 1..Len(order), l \in 1..Len(order) : order[j] = n /\ j <= l /\ Mutual(graph, m, order[l])
  BY <1>2, <1>3, <1>4 DEF Outlasts
<1>6. j = r
  BY <1>5 DEF KInv, Visits
<1>7. ASSUME l > r PROVE FALSE
  <2>1. PICK k \in 1..(c - 1) : order[l] \in comps[k]
    BY <1>7 DEF Grows
  <2>2. k \in 1..c /\ k < c
    BY <1>2
  <2>3. Exact(k)
    BY <2>2 DEF KInv, Collecting
  <2>4. order[l] \in Nodes
    BY <1>2
  <2>5. m \in comps[k]
    BY <1>5, <2>1, <2>3, <2>4, ExactIsWhole
  <2> QED BY <2>2, <2>5 DEF assigned
<1>8. l = r
  BY <1>2, <1>5, <1>6, <1>7
<1> QED BY <1>5, <1>8 DEF Mutual, MutuallyWaiting

\* A deadlock with nothing left to collect is whole.
LEMMA CollectedIsExact ==
  ASSUME KInv, graph' = graph, order' = order, KTypeOK', NEW r \in 1..Len(order), Grows(r)', frontier' = {},
         \A k \in 1..(Len(comps') - 1) : Exact(k)'
  PROVE  Exact(Len(comps))'
<1> DEFINE n == order[r]
           c == Len(comps')
           D == comps'[c]
           Z == {z \in Nodes : Reaches(graph, n, z)} \ D
<1>1. graph \in [Nodes -> SUBSET Nodes] /\ n \in Nodes /\ c \in Nat /\ D \in SUBSET Nodes /\ c > 0
  <2>1. order \in Seq(Nodes) /\ graph \in [Nodes -> SUBSET Nodes] /\ comps' \in Seq(SUBSET Nodes)
    BY DEF KInv, KTypeOK
  <2>2. c \in Nat /\ c > 0
    BY <2>1 DEF Grows
  <2> QED BY <2>1, <2>2
<1>2. /\ n \in D /\ D \subseteq MutuallyWaiting(graph, n)
      /\ \A x \in D : {m \in Nodes : x \in graph[m]} \subseteq assigned'
      /\ \A k \in 1..(c - 1) : n \notin comps'[k]
  BY DEF Grows, transposed
<1>3. assigned' = UNION {comps'[k] : k \in 1..c}
  BY DEF assigned
<1> HIDE DEF n, c, D
<1>4. ASSUME NEW z \in Z, NEW y \in graph[z] PROVE y \in Z
  <2>1. Reaches(graph, z, y) /\ Reaches(graph, n, y) /\ y \in Nodes
    BY <1>1, <1>4, ReachesNext, ReachesOn
  <2>2. ASSUME y \in D PROVE FALSE
    <3>1. Reaches(graph, z, n)
      BY <2>1, <2>2, <1>2, ReachesOn DEF MutuallyWaiting
    <3>2. z \in assigned'
      BY <1>2, <2>2
    <3>3. PICK k \in 1..c : z \in comps'[k]
      BY <3>2, <1>3
    <3>4. k # c
      BY <3>3 DEF D
    <3>5. k \in 1..(c - 1)
      BY <3>4, <1>1
    <3>6. comps'[k] = MutuallyWaiting(graph, z)
      BY <3>3, <3>5 DEF Exact, c
    <3>7. n \in comps'[k]
      BY <3>1, <3>6, <1>1 DEF MutuallyWaiting
    <3> QED BY <3>5, <3>7, <1>2
  <2> QED BY <2>1, <2>2
<1>5. ASSUME NEW y \in MutuallyWaiting(graph, n) PROVE y \in D
  <2> SUFFICES ASSUME y \notin D PROVE FALSE
    OBVIOUS
  <2>1. y \in Z /\ Reaches(graph, y, n)
    BY DEF MutuallyWaiting
  <2>2. Z \in SUBSET Nodes /\ \A z \in Z : graph[z] \subseteq Z
    BY <1>4
  <2>3. n \in Z
    <3> HIDE DEF Z
    <3> QED BY <2>1, <2>2, ReachesWithin
  <2> QED BY <2>3, <1>2
<1>6. D = MutuallyWaiting(graph, n)
  BY <1>2, <1>5
<1>7. \A m \in D : D = MutuallyWaiting(graph, m)
  <2> SUFFICES ASSUME NEW m \in D PROVE MutuallyWaiting(graph, m) = MutuallyWaiting(graph, n)
    BY <1>6
  <2>1. m \in Nodes /\ Mutual(graph, m, n)
    BY <1>6 DEF MutuallyWaiting, Mutual
  <2> QED BY <2>1, <1>1, WaitingAlike
<1> QED BY <1>2, <1>7 DEF Exact, D, c

LEMMA CollectKeeps == ASSUME KInv, Collect PROVE KInv'
<1> DEFINE c == Len(comps)
<1>1. PICK x \in frontier : /\ frontier' = (frontier \ {x}) \cup (transposed(x) \ assigned)
                           /\ comps' = [comps EXCEPT ![c] = @ \cup (transposed(x) \ assigned)]
  BY DEF Collect
<1> DEFINE new == transposed(x) \ assigned
<1>2. UNCHANGED <<graph, seen, stack, order, swept>>
  BY DEF Collect
<1>3. PICK r \in 1..Len(order) : Grows(r)
  BY DEF KInv, Collecting
<1> DEFINE n == order[r]
<1>4. comps \in Seq(SUBSET Nodes) /\ c \in Nat /\ c > 0 /\ c \in 1..c /\ order \in Seq(Nodes) /\ n \in Nodes
  <2>1. comps \in Seq(SUBSET Nodes) /\ c \in Nat /\ order \in Seq(Nodes)
    BY DEF KInv, KTypeOK
  <2>2. c > 0
    BY <1>3 DEF Grows
  <2> QED BY <2>1, <2>2
<1>5. new \in SUBSET Nodes /\ new \cap assigned = {} /\ new = transposed(x) \ assigned
  BY DEF transposed
<1> HIDE DEF new
<1>6. comps' = [comps EXCEPT ![c] = @ \cup new] /\ frontier' = (frontier \ {x}) \cup new
  BY <1>1 DEF new
<1>7. comps[c] \in SUBSET Nodes /\ comps[c] \cup new \in SUBSET Nodes
  BY <1>4, <1>5
<1>8. /\ comps' \in Seq(SUBSET Nodes) /\ Len(comps') = c /\ comps'[c] = comps[c] \cup new
      /\ \A k \in 1..(c - 1) : comps'[k] = comps[k]
  BY <1>4, <1>6, <1>7
<1>9. swept # 0 /\ Len(order) = Cardinality(Nodes)
  BY <1>1 DEF KInv, Sweeping
<1>10. FirstInv'
  BY <1>2, FirstKept DEF FirstVars, FirstInv, KInv
<1> HIDE DEF c
<1>11. \A k : k \in 1..c <=> k \in 1..(c - 1) \/ k = c
  BY <1>4
<1>12. assigned' = assigned \cup new
  <2>1. assigned' = UNION {comps'[k] : k \in 1..c}
    BY <1>8 DEF assigned
  <2>2. assigned = UNION {comps[k] : k \in 1..c}
    BY DEF assigned, c
  <2> QED BY <2>1, <2>2, <1>8, <1>11
<1>13. Sweeping'
  BY <1>2, <1>9, <1>12 DEF KInv, Sweeping
<1>14. frontier \subseteq Nodes
  BY DEF KInv, KTypeOK
<1>15. KTypeOK'
  BY <1>2, <1>5, <1>6, <1>8, <1>14 DEF KInv, KTypeOK
<1>16. x \in comps[c] /\ Reaches(graph, x, n)
  BY <1>1, <1>3 DEF Grows, MutuallyWaiting, c
<1>17. new \subseteq MutuallyWaiting(graph, n)
  <2> SUFFICES ASSUME NEW m \in new PROVE m \in MutuallyWaiting(graph, n)
    OBVIOUS
  <2>1. m \in Nodes /\ m \notin assigned /\ x \in graph[m]
    BY <1>5 DEF transposed
  <2>2. Reaches(graph, m, n)
    BY <2>1, <1>16, ReachesNext, ReachesOn
  <2> QED BY <2>1, <2>2, <1>3, <1>9, JoinersBelong
<1>18. Grows(r)'
  <2>1. /\ n \in comps[c] /\ comps[c] \subseteq MutuallyWaiting(graph, n) /\ frontier \subseteq comps[c]
        /\ \A y \in comps[c] \ frontier : transposed(y) \subseteq assigned
        /\ \A k \in 1..(c - 1) : n \notin comps[k]
        /\ \A i \in 1..Len(order) : i > r => \E k \in 1..(c - 1) : order[i] \in comps[k]
    BY <1>3 DEF Grows, c
  <2>2. n \in comps'[c] /\ comps'[c] \subseteq MutuallyWaiting(graph, n) /\ frontier' \subseteq comps'[c]
    BY <2>1, <1>6, <1>8, <1>17
  <2>3. ASSUME NEW y \in comps'[c] \ frontier' PROVE transposed(y) \subseteq assigned'
    <3>1. y = x \/ y \in comps[c] \ frontier
      BY <1>6, <1>8
    <3>2. CASE y = x
      BY <3>2, <1>5, <1>12
    <3>3. CASE y \in comps[c] \ frontier
      BY <3>3, <2>1, <1>12
    <3> QED BY <3>1, <3>2, <3>3
  <2>4. \A k \in 1..(c - 1) : n \notin comps'[k]
    BY <2>1, <1>8
  <2>5. \A i \in 1..Len(order) : i > r => \E k \in 1..(c - 1) : order[i] \in comps'[k]
    BY <2>1, <1>8
  <2>6. \A y : transposed(y)' = transposed(y)
    BY <1>2 DEF transposed
  <2> QED BY <2>2, <2>3, <2>4, <2>5, <2>6, <1>2, <1>4, <1>8 DEF Grows
<1>19. \A k \in 1..(c - 1) : Exact(k)'
  <2>1. \A k \in 1..(c - 1) : k \in 1..c /\ k < c
    BY <1>4
  <2>2. \A k \in 1..(c - 1) : Exact(k)
    BY <2>1 DEF KInv, Collecting, c
  <2> QED BY <2>2, <1>2, <1>8 DEF Exact
<1>20. ASSUME frontier' = {}, NEW k, k = c PROVE Exact(k)'
  <2>1. \A m \in 1..(Len(comps') - 1) : Exact(m)'
    BY <1>8, <1>19
  <2>2. graph' = graph /\ order' = order
    BY <1>2
  <2>3. Exact(Len(comps))'
    BY <2>1, <2>2, <1>15, <1>18, <1>20, CollectedIsExact
  <2>4. Len(comps') = k
    BY <1>8, <1>20
  <2> QED BY <2>3, <2>4 DEF Exact
<1>21. Collecting'
  <2>1. r \in 1..Len(order')
    BY <1>2
  <2>2. \A k \in 1..c : k < c \/ frontier' = {} => Exact(k)'
    <3> SUFFICES ASSUME NEW k \in 1..c, k < c \/ frontier' = {} PROVE Exact(k)'
      OBVIOUS
    <3>1. CASE k = c
      <4>1. ~(c < c)
        BY <1>4
      <4>2. frontier' = {}
        BY <3>1, <4>1
      <4> QED BY <3>1, <4>2, <1>20
    <3>2. CASE k # c
      BY <3>2, <1>11, <1>19
    <3> QED BY <3>1, <3>2
  <2> QED BY <2>1, <2>2, <1>8, <1>18 DEF Collecting
<1> QED BY <1>10, <1>13, <1>15, <1>21 DEF KInv, FirstInv

-----------------------------------------------------------------------------

LEMMA SearchInitially == ASSUME KInit PROVE KInv
<1>1. KTypeOK
  BY CycleSearchConstants, FS_CardinalityType DEF KInit, KTypeOK
<1>2. Visits
  <2>1. Finished = {} /\ Visiting = {}
    BY DEF KInit, Finished, Visiting
  <2> QED BY <2>1, FS_EmptySet DEF KInit, Visits
<1>3. Paths /\ Tried /\ LastEnds
  BY DEF KInit, Paths, Tried, LastEnds
<1>4. Sweeping /\ Collecting
  BY DEF KInit, Sweeping, Collecting, assigned
<1> QED BY <1>1, <1>2, <1>3, <1>4 DEF KInv

\* The two sweeps of _strongly_connected_components, over any graph and with
\* the neighbours tried in any order: see LastEnds and Collecting.
THEOREM SearchInvariant == KSpec => []KInv
<1>1. KInit => KInv
  BY SearchInitially
<1>2. KInv /\ [KNext]_kvars => KInv'
  <2> SUFFICES ASSUME KInv, [KNext]_kvars PROVE KInv'
    OBVIOUS
  <2>1. CASE KNext
    BY <2>1, StartVisitKeeps, NextNeighbourKeeps, EndVisitKeeps, StartComponentKeeps, CollectKeeps DEF KNext
  <2>2. CASE UNCHANGED kvars
    <3>1. FirstInv'
      BY <2>2, FirstKept DEF kvars, FirstVars, FirstInv, KInv
    <3>2. KTypeOK' /\ assigned' = assigned
      BY <2>2 DEF kvars, KInv, KTypeOK, assigned
    <3>3. Sweeping'
      BY <2>2, <3>2 DEF kvars, KInv, Sweeping
    <3>4. Collecting'
      BY <2>2, <3>2 DEF kvars, KInv, Collecting, Exact, Grows, transposed
    <3> QED BY <3>1, <3>2, <3>3, <3>4 DEF KInv, FirstInv
  <2> QED BY <2>1, <2>2
<1> QED BY <1>1, <1>2, PTL DEF KSpec

\* What blocked_auto_resume_runner.py takes for a set of tickets that wait for
\* one another is exactly one: no more tickets, and no fewer.
THEOREM ComponentsAlwaysExact == KSpec => []ComponentsAreExact
<1>1. KInv => ComponentsAreExact
  <2> SUFFICES ASSUME KInv, NEW k \in 1..Len(comps), ~(k = Len(comps) /\ frontier # {}) PROVE Exact(k)
    BY DEF ComponentsAreExact, Exact
  <2>1. Len(comps) \in Nat
    BY DEF KInv, KTypeOK
  <2>2. k < Len(comps) \/ frontier = {}
    BY <2>1
  <2> QED BY <2>2 DEF KInv, Collecting
<1> QED BY <1>1, SearchInvariant, PTL

=============================================================================
