----------------------------- MODULE PassProofs -----------------------------
(***************************************************************************)
(* The periodic loops and what their passes file, for any number of        *)
(* passes, intervals, findings, overlapping runs and restarts.             *)
(*                                                                         *)
(* That the cadence is kept needs two facts the property does not name: a  *)
(* loop that sleeps sleeps long enough for every success on record         *)
(* (Rested), and the entries are in the order of their ages (Ordered), so  *)
(* that the last success is the youngest and the delay read from it covers *)
(* all of them.  That a run files nothing twice needs that what it looked  *)
(* up still holds when it acts on it (SerialOk).                           *)
(* The last two parts are about what a ticket is measured against: another *)
(* ticket that says the same (Dedup), and those it descends from           *)
(* (Retrospect).                                                           *)
(***************************************************************************)
EXTENDS PeriodicPasses, Proposals, Dedup, Retrospect, FiniteSetTheorems, SequenceTheorems, WellFoundedInduction, TLAPS

(***************************************************************************)
(* Numbers.                                                                *)
(***************************************************************************)

\* A set of natural numbers has a least element.
LEMMA LeastNumber ==
    ASSUME NEW T \in SUBSET Nat, T # {}
    PROVE  \E n \in T : \A m \in T : n <= m
<1> DEFINE Less == {s \in Nat \X Nat : s[1] < s[2]}
<1>1. IsWellFoundedOn(Less, Nat)
  BY NatLessThanWellFounded, Zenon DEF OpToRel
<1> HIDE DEF Less
<1>2. PICK n \in T : \A m \in T : <<m, n>> \notin Less
  BY <1>1, WFMin
<1>3. \A m \in T : ~(m < n)
  BY <1>2 DEF Less
<1> QED
  BY <1>3

\* A bounded set of natural numbers has a greatest element.
LEMMA GreatestNumber ==
    ASSUME NEW T \in SUBSET Nat, T # {}, NEW b \in Nat, \A n \in T : n <= b
    PROVE  \E n \in T : \A m \in T : m <= n
<1> DEFINE Distances == {b - n : n \in T}
<1>0. \A n \in T : b - n \in Nat
  OBVIOUS
<1>1. Distances \in SUBSET Nat /\ Distances # {}
  BY <1>0, Zenon
<1>2. PICK g \in Distances : \A h \in Distances : g <= h
  BY <1>1, LeastNumber
<1>3. PICK n \in T : g = b - n
  BY <1>2
<1>4. \A m \in T : b - m \in Distances
  OBVIOUS
<1>5. \A m \in T : m <= n
  <2> TAKE m \in T
  <2>1. b - n <= b - m
    BY <1>2, <1>3, <1>4
  <2> QED
    BY <2>1
<1> QED
  BY <1>5

\* A function on a finite set is bounded.
LEMMA BoundedOnFinite ==
    ASSUME NEW S, IsFiniteSet(S), NEW f \in [S -> Nat]
    PROVE  \E b \in Nat : \A x \in S : f[x] <= b
<1> DEFINE Bounded(U) == \E b \in Nat : \A x \in U : f[x] <= b
           Bad == {U \in SUBSET S : ~Bounded(U)}
<1>1. SUFFICES ASSUME Bad # {} PROVE FALSE
  OBVIOUS
<1>2. IsWellFoundedOn(StrictSubsetOrdering(S), SUBSET S)
  BY FS_StrictSubsetOrderingWellFounded, FS_FiniteSubsetsOfFinite
<1>3. PICK U \in Bad : \A V \in Bad : <<V, U>> \notin StrictSubsetOrdering(S)
  <2> HIDE DEF Bounded
  <2> QED
  BY <1>1, <1>2, WFMin, Zenon
<1>4. PICK x \in U : TRUE
  <2>1. U # {}
    <3>1. ~Bounded(U)
      OBVIOUS
    <3> QED
      BY <3>1
  <2> QED
    BY <2>1
<1>5. U \ {x} \notin Bad
  <2>1. <<U \ {x}, U>> \in StrictSubsetOrdering(S)
    BY <1>4, Zenon DEF StrictSubsetOrdering
  <2> QED
    BY <1>3, <2>1, Zenon
<1>6. PICK b \in Nat : \A y \in U \ {x} : f[y] <= b
  BY <1>5
<1>7. \E c \in Nat : \A y \in U : f[y] <= c
  <2>1. CASE f[x] <= b
    BY <1>6, <2>1
  <2>2. CASE ~(f[x] <= b)
    BY <1>4, <1>6, <2>2
  <2> QED
    BY <2>1, <2>2
<1> QED
  BY <1>7
(***************************************************************************)
(* The inductive invariant.                                                *)
(***************************************************************************)

\* The entries are in the order their runs started.
Ordered(es) == \A i, j \in DOMAIN es : i < j => es[j].age <= es[i].age

\* A loop that sleeps sleeps long enough for every success on record.
Rested ==
    \A p \in Passes \ Bespoke :
        loops[p].ver # "none" /\ ~loops[p].firing =>
            \A i \in Successes(registry["own"], p) : registry["own"][i].age + loops[p].wait >= Interval[p]

\* A loop that fires is there, and so is the thread of its pass.
Threaded == \A p \in Passes : loops[p].firing => loops[p].ver # "none" /\ threads[p] >= 1

\* Until a file is edited, each pass has its first version, and its threads
\* are those of its loop.
Unedited ==
    past.edits = 0 =>
        \A p \in Passes : /\ files[p] = "first"
                          /\ loops[p].ver \in {"none", "first"}
                          /\ threads[p] = IF loops[p].firing THEN 1 ELSE 0

PassInv ==
    /\ CTypeOK
    /\ Ordered(registry["own"])
    /\ Rested
    /\ Threaded
    /\ Unedited
    /\ ReportedOnce

(***************************************************************************)
(* The registry.                                                           *)
(***************************************************************************)

\* The longest interval is a number, and no interval is longer.
LEMMA LongestBounds == Longest \in Nat /\ \A p \in Passes : Interval[p] <= Longest
<1> DEFINE All == {0} \cup {Interval[p] : p \in Passes}
<1>1. All \in SUBSET Nat /\ All # {}
  BY PeriodicConstants
<1>2. PICK b \in Nat : \A p \in Passes : Interval[p] <= b
  <2>1. Interval \in [Passes -> Nat]
    BY PeriodicConstants
  <2> QED
    BY <2>1, BoundedOnFinite, PeriodicConstants
<1>3. \A n \in All : n <= b
  BY <1>2
<1>4. PICK m \in All : \A n \in All : n <= m
  <2> HIDE DEF All
  <2> QED
    BY <1>1, <1>3, GreatestNumber
<1>5. \E n \in All : \A p \in Passes : Interval[p] <= n
  BY <1>4
<1>6. Longest \in All /\ \A p \in Passes : Interval[p] <= Longest
  BY <1>5, Zenon DEF Longest
<1> QED
  BY <1>1, <1>6

\* A function on the places of a sequence is a sequence of the same length.
LEMMA SameLength ==
    ASSUME NEW S, NEW T, NEW es \in Seq(S), NEW f \in [DOMAIN es -> T]
    PROVE  f \in Seq(T) /\ Len(f) = Len(es) /\ DOMAIN f = DOMAIN es
<1>1. DOMAIN es = 1..Len(es) /\ Len(es) \in Nat
  BY LenProperties
<1>2. f \in Seq(T)
  BY <1>1, SeqDef
<1>3. DOMAIN f = 1..Len(f) /\ Len(f) \in Nat
  BY <1>2, LenProperties
<1> QED
  BY <1>1, <1>2, <1>3

\* The entries of a sequence have numbers for ages.
LEMMA AgesAreNumbers ==
    ASSUME NEW es \in Seq(RunEntry), NEW i \in DOMAIN es
    PROVE  es[i] \in RunEntry /\ es[i].age \in Nat
<1>1. es[i] \in RunEntry
  BY LenProperties, ElementOfSeq
<1> QED
  BY <1>1, LongestBounds DEF RunEntry

\* flush keeps a tail of the entries.
LEMMA FlushKeepsTail ==
    ASSUME NEW es \in Seq(RunEntry)
    PROVE  /\ flush(es) \in Seq(RunEntry)
           /\ Len(flush(es)) <= MaxEntries
           /\ \E k \in Nat : \A i \in DOMAIN flush(es) : i + k \in DOMAIN es /\ flush(es)[i] = es[i + k]
<1>1. Len(es) \in Nat /\ DOMAIN es = 1..Len(es) /\ \A i \in 1..Len(es) : es[i] \in RunEntry
  BY LenProperties, ElementOfSeq
<1>2. MaxEntries \in Nat /\ MaxEntries > 0
  BY PeriodicConstants
<1>3. CASE Len(es) <= MaxEntries
  <2>1. flush(es) = es
    BY <1>3 DEF flush
  <2>2. \A i \in DOMAIN es : i + 0 \in DOMAIN es /\ es[i] = es[i + 0]
    BY <1>1
  <2> QED
    BY <1>3, <2>1, <2>2
<1>4. CASE Len(es) > MaxEntries
  <2> DEFINE k == Len(es) - MaxEntries
  <2>1. k \in Nat /\ k + 1 \in Int /\ k + 1 <= Len(es)
    BY <1>1, <1>2, <1>4
  <2>2. flush(es) = SubSeq(es, k + 1, Len(es))
    BY <1>1, <1>2, <1>4 DEF flush
  <2>3. /\ SubSeq(es, k + 1, Len(es)) \in Seq(RunEntry)
        /\ Len(SubSeq(es, k + 1, Len(es))) = MaxEntries
        /\ \A i \in 1..MaxEntries : SubSeq(es, k + 1, Len(es))[i] = es[k + 1 + i - 1]
    BY <1>1, <1>2, <2>1, SubSeqProperties
  <2>4. DOMAIN flush(es) = 1..MaxEntries
    BY <2>2, <2>3, LenProperties
  <2>5. \A i \in 1..MaxEntries : i + k \in 1..Len(es) /\ k + 1 + i - 1 = i + k
    BY <1>1, <1>2, <1>4
  <2>6. \A i \in DOMAIN flush(es) : i + k \in DOMAIN es /\ flush(es)[i] = es[i + k]
    BY <1>1, <2>2, <2>3, <2>4, <2>5
  <2> QED
    BY <1>2, <2>1, <2>2, <2>3, <2>6
<1> QED
  BY <1>1, <1>2, <1>3, <1>4

\* Every success of p in one registry is one of another, as old.
NoNewSuccess(new, old, p) ==
    \A i \in Successes(new, p) : \E j \in Successes(old, p) : new[i].age = old[j].age

\* Starting a run adds no success and keeps the order.
LEMMA StartKeepsOrder ==
    ASSUME NEW es \in Seq(RunEntry), Ordered(es), NEW p \in Passes
    PROVE  /\ start(es, p) \in Seq(RunEntry) /\ Len(start(es, p)) <= MaxEntries
           /\ Ordered(start(es, p))
           /\ \A q \in Passes : NoNewSuccess(start(es, p), es, q)
<1> DEFINE e == [kind |-> p, status |-> "running", age |-> 0]
           more == Append(es, e)
<1>1. e \in RunEntry
  BY LongestBounds DEF RunEntry
<1>2. /\ more \in Seq(RunEntry) /\ Len(es) \in Nat /\ DOMAIN es = 1..Len(es)
      /\ DOMAIN more = 1..Len(es) + 1
      /\ more[Len(es) + 1] = e /\ \A i \in 1..Len(es) : more[i] = es[i]
  BY <1>1, LenProperties
<1>3. \A i \in 1..Len(es) : es[i].age \in Nat
  BY <1>2, AgesAreNumbers
<1>4. e.age = 0 /\ e.status = "running"
  OBVIOUS
<1> HIDE DEF e
<1>5. Ordered(more)
  <2> SUFFICES ASSUME NEW i \in 1..Len(es) + 1, NEW j \in 1..Len(es) + 1, i < j
               PROVE  more[j].age <= more[i].age
    BY <1>2 DEF Ordered
  <2>1. i \in 1..Len(es) /\ more[i] = es[i]
    BY <1>2
  <2>2. CASE j = Len(es) + 1
    BY <1>2, <1>3, <1>4, <2>1, <2>2
  <2>3. CASE j # Len(es) + 1
    <3>1. j \in 1..Len(es) /\ more[j] = es[j]
      BY <1>2, <2>3
    <3> QED
      BY <1>2, <2>1, <3>1 DEF Ordered
  <2> QED
    BY <2>2, <2>3
<1>6. \A q \in Passes : NoNewSuccess(more, es, q)
  <2> SUFFICES ASSUME NEW q \in Passes, NEW i \in Successes(more, q)
               PROVE  \E j \in Successes(es, q) : more[i].age = es[j].age
    BY DEF NoNewSuccess
  <2>1. i \in 1..Len(es) + 1 /\ more[i].kind = q /\ more[i].status = "ok"
    BY <1>2 DEF Successes
  <2>2. i # Len(es) + 1
    BY <1>2, <1>4, <2>1
  <2>3. i \in 1..Len(es) /\ more[i] = es[i]
    BY <1>2, <2>1, <2>2
  <2> QED
    BY <1>2, <2>1, <2>3 DEF Successes
<1>7. start(es, p) = flush(more)
  BY DEF start, e
<1> HIDE DEF more
<1>8. PICK k \in Nat : \A i \in DOMAIN flush(more) : i + k \in DOMAIN more /\ flush(more)[i] = more[i + k]
  BY <1>2, FlushKeepsTail
<1>9. DOMAIN flush(more) \in SUBSET Nat
  BY <1>2, FlushKeepsTail, LenProperties
<1>10. Ordered(flush(more))
  <2> SUFFICES ASSUME NEW i \in DOMAIN flush(more), NEW j \in DOMAIN flush(more), i < j
               PROVE  flush(more)[j].age <= flush(more)[i].age
    BY DEF Ordered
  <2>1. i + k < j + k
    BY <1>9
  <2> QED
    BY <1>5, <1>8, <2>1 DEF Ordered
<1>11. \A q \in Passes : NoNewSuccess(flush(more), es, q)
  <2> SUFFICES ASSUME NEW q \in Passes, NEW i \in Successes(flush(more), q)
               PROVE  \E j \in Successes(es, q) : flush(more)[i].age = es[j].age
    BY DEF NoNewSuccess
  <2>1. i + k \in Successes(more, q) /\ flush(more)[i] = more[i + k]
    BY <1>8 DEF Successes
  <2> QED
    BY <1>6, <2>1 DEF NoNewSuccess
<1> QED
  BY <1>2, <1>7, <1>10, <1>11, FlushKeepsTail

\* A registry whose entries keep their kinds and ages keeps its order, and has
\* a new success only of the passes whose entries become one.
LEMMA RewriteKeepsOrder ==
    ASSUME NEW es \in Seq(RunEntry), Len(es) <= MaxEntries, Ordered(es),
           NEW f \in [DOMAIN es -> RunEntry],
           \A i \in DOMAIN es : f[i].kind = es[i].kind /\ f[i].age = es[i].age
    PROVE  /\ f \in Seq(RunEntry) /\ Len(f) <= MaxEntries
           /\ Ordered(f)
           /\ \A q \in Passes :
                (\A i \in DOMAIN es : es[i].kind = q /\ f[i].status = "ok" => es[i].status = "ok")
                   => NoNewSuccess(f, es, q)
<1>1. f \in Seq(RunEntry) /\ Len(f) = Len(es) /\ DOMAIN f = DOMAIN es
  BY SameLength
<1>2. Ordered(f)
  BY <1>1 DEF Ordered
<1>3. ASSUME NEW q \in Passes,
             \A i \in DOMAIN es : es[i].kind = q /\ f[i].status = "ok" => es[i].status = "ok"
      PROVE  NoNewSuccess(f, es, q)
  BY <1>1, <1>3 DEF NoNewSuccess, Successes
<1> QED
  BY <1>1, <1>2, <1>3

\* finish ends the runs of p only.
LEMMA FinishKeepsOrder ==
    ASSUME NEW es \in Seq(RunEntry), Len(es) <= MaxEntries, Ordered(es), NEW p \in Passes,
           NEW s \in {"ok", "error"}
    PROVE  /\ finish(es, p, s) \in Seq(RunEntry) /\ Len(finish(es, p, s)) <= MaxEntries
           /\ Ordered(finish(es, p, s))
           /\ \A q \in Passes \ {p} : NoNewSuccess(finish(es, p, s), es, q)
<1> DEFINE f == finish(es, p, s)
<1>1. \A i \in DOMAIN es : es[i] \in RunEntry
  BY AgesAreNumbers
<1>2. f \in [DOMAIN es -> RunEntry]
  BY <1>1 DEF finish, RunEntry
<1>3. \A i \in DOMAIN es : f[i].kind = es[i].kind /\ f[i].age = es[i].age
  BY <1>1 DEF finish, RunEntry
<1>4. \A i \in DOMAIN es : es[i].kind # p => f[i] = es[i]
  BY DEF finish
<1> HIDE DEF f
<1>5. /\ f \in Seq(RunEntry) /\ Len(f) <= MaxEntries /\ Ordered(f)
      /\ \A q \in Passes \ {p} : NoNewSuccess(f, es, q)
  BY <1>2, <1>3, <1>4, RewriteKeepsOrder
<1> QED
  BY <1>5 DEF f

\* _load turns running entries into errors.
LEMMA LoadKeepsOrder ==
    ASSUME NEW es \in Seq(RunEntry), Len(es) <= MaxEntries, Ordered(es)
    PROVE  /\ _load(es) \in Seq(RunEntry) /\ Len(_load(es)) <= MaxEntries
           /\ Ordered(_load(es))
<1> DEFINE f == _load(es)
<1>1. \A i \in DOMAIN es : es[i] \in RunEntry
  BY AgesAreNumbers
<1>2. f \in [DOMAIN es -> RunEntry]
  BY <1>1 DEF _load, RunEntry
<1>3. \A i \in DOMAIN es : f[i].kind = es[i].kind /\ f[i].age = es[i].age
  BY <1>1 DEF _load, RunEntry
<1> HIDE DEF f
<1>4. f \in Seq(RunEntry) /\ Len(f) <= MaxEntries /\ Ordered(f)
  BY <1>2, <1>3, RewriteKeepsOrder
<1> QED
  BY <1>4 DEF f

\* The last success is the youngest, so the delay it leaves covers them all.
LEMMA DelayCovers ==
    ASSUME CTypeOK, Ordered(registry["own"]), NEW p \in Passes
    PROVE  /\ _initial_delay(p) \in 0..Longest
           /\ \A i \in Successes(registry["own"], p) :
                registry["own"][i].age + _initial_delay(p) >= Interval[p]
<1> DEFINE es == registry["own"]
           wins == Successes(es, p)
           m == most_recent(es, p)
<1>1. es \in Seq(RunEntry)
  BY DEF CTypeOK
<1>2. Longest \in Nat /\ Interval[p] \in Nat /\ Interval[p] <= Longest
  BY LongestBounds, PeriodicConstants
<1>3. Len(es) \in Nat /\ DOMAIN es = 1..Len(es)
  BY <1>1, LenProperties
<1>4. wins \in SUBSET Nat /\ wins \subseteq DOMAIN es /\ \A i \in wins : i <= Len(es)
  BY <1>3 DEF Successes
<1>5. CASE wins = {}
  BY <1>2, <1>5 DEF _initial_delay
<1>6. CASE wins # {}
  <2>1. m \in wins /\ \A j \in wins : j <= m
    <3>1. \E i \in wins : \A j \in wins : j <= i
      <4> HIDE DEF wins, es
      <4> QED
        BY <1>3, <1>4, <1>6, GreatestNumber
    <3> QED
      BY <3>1, Zenon DEF most_recent
  <2>2. \A i \in wins : es[i].age \in Nat
    BY <1>1, <1>4, AgesAreNumbers
  <2>3. \A i \in wins : es[m].age <= es[i].age
    <3> TAKE i \in wins
    <3>1. CASE i = m
      BY <2>2, <3>1
    <3>2. CASE i # m
      <4>1. i < m
        BY <1>4, <2>1, <3>2
      <4> QED
        BY <1>4, <2>1, <4>1 DEF Ordered
    <3> QED
      BY <3>1, <3>2
  <2>4. _initial_delay(p) = IF es[m].age >= Interval[p] THEN 0 ELSE Interval[p] - es[m].age
    BY <1>6 DEF _initial_delay
  <2> DEFINE age == es[m].age
             d == _initial_delay(p)
  <2>5. age \in Nat
    BY <2>1, <2>2
  <2> HIDE DEF age
  <2>6. d \in 0..Longest /\ age + d >= Interval[p]
    BY <1>2, <2>4, <2>5 DEF age
  <2> HIDE DEF d
  <2>7. \A i \in wins : es[i].age + d >= Interval[p]
    <3> TAKE i \in wins
    <3>1. es[i].age \in Nat /\ age <= es[i].age
      BY <2>2, <2>3 DEF age
    <3> QED
      BY <1>2, <2>5, <2>6, <3>1
  <2> QED
    BY <2>6, <2>7 DEF d
<1> QED
  BY <1>5, <1>6

(***************************************************************************)
(* The invariant holds.                                                    *)
(***************************************************************************)

\* The registry of a state with the right types.
LEMMA RegistryTyped ==
    ASSUME CTypeOK, NEW g \in {"own", "fallback"}
    PROVE  /\ g \in DOMAIN registry
           /\ registry[g] \in Seq(RunEntry) /\ Len(registry[g]) <= MaxEntries
           /\ \A i \in DOMAIN registry[g] : registry[g][i] \in RunEntry /\ registry[g][i].age \in Nat
<1>1. g \in DOMAIN registry /\ registry[g] \in Seq(RunEntry) /\ Len(registry[g]) <= MaxEntries
  BY DEF CTypeOK
<1> QED
  BY <1>1, AgesAreNumbers

\* A loop that rests long enough for the old registry does so for a new one
\* without new successes of its pass.
LEMMA StillRested ==
    ASSUME CTypeOK, NEW new, NEW p \in Passes, NEW w, NoNewSuccess(new, registry["own"], p),
           \A i \in Successes(registry["own"], p) : registry["own"][i].age + w >= Interval[p]
    PROVE  \A i \in Successes(new, p) : new[i].age + w >= Interval[p]
<1> TAKE i \in Successes(new, p)
<1>1. PICK j \in Successes(registry["own"], p) : new[i].age = registry["own"][j].age
  BY DEF NoNewSuccess
<1>2. registry["own"][j].age + w >= Interval[p]
  BY <1>1
<1> QED
  BY <1>1, <1>2, Zenon

LEMMA InitHolds == CInit => PassInv
<1> SUFFICES ASSUME CInit PROVE PassInv
  OBVIOUS
<1>1. MaxEntries \in Nat /\ Threshold \in Nat /\ MaxEdits \in Nat /\ MaxRestarts \in Nat
  BY PeriodicConstants
<1>2. NoLoop \in Loops
  BY LongestBounds DEF NoLoop, Loops
<1>3. files \in [Passes -> Versions] /\ loops \in [Passes -> Loops]
  BY <1>2 DEF CInit, Versions
<1>4. threads \in [Passes -> Nat] /\ notices \in [Passes -> Nat]
  BY DEF CInit
<1>5. DOMAIN registry = {"own", "fallback"} /\ \A g \in DOMAIN registry : registry[g] = <<>>
  BY DEF CInit
<1>6. <<>> \in Seq(RunEntry) /\ Len(<<>>) <= MaxEntries /\ DOMAIN <<>> = {}
  BY <1>1
<1>7. tracker \in [count : [Passes -> 0..Threshold], reported : SUBSET Passes]
  BY <1>1 DEF CInit
<1>8. past \in [edits : 0..MaxEdits, restarts : 0..MaxRestarts]
  BY <1>1 DEF CInit
<1>9. CTypeOK
  BY <1>3, <1>4, <1>5, <1>6, <1>7, <1>8 DEF CTypeOK
<1>10. Ordered(registry["own"]) /\ Rested
  BY <1>5, <1>6 DEF Ordered, Rested, Successes
<1>11. Threaded /\ Unedited /\ ReportedOnce
  BY DEF CInit, Threaded, Unedited, ReportedOnce, NoLoop
<1> QED
  BY <1>9, <1>10, <1>11 DEF PassInv

LEMMA EditKeeps ==
    ASSUME PassInv, NEW p \in Passes, Edit(p)
    PROVE  PassInv'
<1> USE DEF PassInv
<1>1. past.edits \in Nat /\ past' = [past EXCEPT !.edits = @ + 1] /\ past.edits < MaxEdits /\ MaxEdits \in Nat
  BY PeriodicConstants DEF CTypeOK, Edit
<1>2. past' \in [edits : 0..MaxEdits, restarts : 0..MaxRestarts] /\ past'.edits # 0
  <2>1. past \in [edits : 0..MaxEdits, restarts : 0..MaxRestarts]
    BY DEF CTypeOK
  <2> DEFINE n == past.edits + 1
  <2>2. n \in 0..MaxEdits /\ n # 0
    BY <1>1
  <2>3. past' = [past EXCEPT !.edits = n]
    BY <1>1
  <2> HIDE DEF n
  <2> QED
    BY <2>1, <2>2, <2>3
<1>3. files' \in [Passes -> Versions]
  BY DEF CTypeOK, Edit
<1>4. UNCHANGED <<loops, threads, registry, tracker, notices>>
  BY DEF Edit
<1>5. CTypeOK'
  BY <1>2, <1>3, <1>4 DEF CTypeOK
<1>6. Ordered(registry["own"])' /\ Rested' /\ Threaded' /\ ReportedOnce'
  BY <1>4 DEF Ordered, Rested, Threaded, ReportedOnce, Successes
<1>7. Unedited'
  BY <1>2 DEF Unedited
<1> QED
  BY <1>5, <1>6, <1>7

LEMMA FireKeeps ==
    ASSUME PassInv, NEW p \in Passes, Fire(p)
    PROVE  PassInv'
<1> USE DEF PassInv
<1> DEFINE g == _registry_for(p)
           new == start(registry[g], p)
<1>0. g \in {"own", "fallback"} /\ (g = "own" <=> p \notin Bespoke)
  BY DEF _registry_for
<1> HIDE DEF g
<1>1. registry' = [registry EXCEPT ![g] = new]
  BY DEF Fire, g
<1>2. /\ loops[p].ver # "none" /\ ~loops[p].firing
      /\ loops' = [loops EXCEPT ![p].firing = TRUE]
      /\ threads' = [threads EXCEPT ![p] = @ + 1]
      /\ UNCHANGED <<files, tracker, notices, past>>
  BY DEF Fire
<1>3. /\ DOMAIN registry = {"own", "fallback"} /\ loops \in [Passes -> Loops] /\ threads \in [Passes -> Nat]
      /\ \A h \in DOMAIN registry : registry[h] \in Seq(RunEntry) /\ Len(registry[h]) <= MaxEntries
  BY DEF CTypeOK
<1>4. g = "own" => Ordered(registry[g])
  OBVIOUS
<1>5. new \in Seq(RunEntry) /\ Len(new) <= MaxEntries
  \* start's types do not need the order.
  <2> DEFINE e == [kind |-> p, status |-> "running", age |-> 0]
  <2>1. e \in RunEntry
    BY LongestBounds DEF RunEntry
  <2>2. Append(registry[g], e) \in Seq(RunEntry)
    BY <1>0, <1>3, <2>1
  <2>3. new = flush(Append(registry[g], e))
    BY DEF start
  <2> QED
    BY <2>2, <2>3, FlushKeepsTail
<1>6. g = "own" => Ordered(new) /\ \A q \in Passes : NoNewSuccess(new, registry["own"], q)
  BY <1>0, <1>3, <1>4, StartKeepsOrder
<1> HIDE DEF new
<1>7. DOMAIN registry' = {"own", "fallback"} /\ \A h \in {"own", "fallback"} : registry'[h] = IF h = g THEN new ELSE registry[h]
  BY <1>1, <1>3
<1>8. loops' \in [Passes -> Loops]
  BY <1>2, <1>3 DEF Loops
<1>9. threads' \in [Passes -> Nat]
  BY <1>2, <1>3
<1>10. CTypeOK'
  BY <1>2, <1>3, <1>5, <1>7, <1>8, <1>9 DEF CTypeOK
<1>11. Ordered(registry["own"])'
  BY <1>0, <1>6, <1>7 DEF Ordered
<1>12. Rested'
  <2> SUFFICES ASSUME NEW q \in Passes \ Bespoke, loops'[q].ver # "none", ~loops'[q].firing
               PROVE  \A i \in Successes(registry'["own"], q) :
                         registry'["own"][i].age + loops'[q].wait >= Interval[q]
    BY DEF Rested, Successes
  <2>1. q # p /\ loops'[q] = loops[q]
    BY <1>2, <1>3 DEF Loops
  <2>2. \A i \in Successes(registry["own"], q) : registry["own"][i].age + loops[q].wait >= Interval[q]
    BY <2>1 DEF Rested
  <2>3. CASE g = "own"
    <3>1. registry'["own"] = new /\ NoNewSuccess(new, registry["own"], q)
      BY <1>6, <1>7, <2>3
    <3>2. \A i \in Successes(new, q) : new[i].age + loops[q].wait >= Interval[q]
      BY <2>2, <3>1, StillRested
    <3> QED
      BY <2>1, <3>1, <3>2
  <2>4. CASE g # "own"
    BY <1>7, <2>1, <2>2, <2>4
  <2> QED
    BY <2>3, <2>4
<1>13. Threaded'
  BY <1>2, <1>3 DEF Threaded, Loops
<1>14. Unedited'
  <2> SUFFICES ASSUME past.edits = 0, NEW q \in Passes
               PROVE  /\ files[q] = "first" /\ loops'[q].ver \in {"none", "first"}
                      /\ threads'[q] = IF loops'[q].firing THEN 1 ELSE 0
    BY <1>2 DEF Unedited
  <2>1. /\ files[q] = "first" /\ loops[q].ver \in {"none", "first"}
        /\ threads[q] = IF loops[q].firing THEN 1 ELSE 0
    BY DEF Unedited
  <2> QED
    BY <1>2, <1>3, <2>1 DEF Loops
<1>15. ReportedOnce'
  BY <1>2 DEF ReportedOnce
<1> QED
  BY <1>10, <1>11, <1>12, <1>13, <1>14, <1>15

LEMMA PassEndsKeeps ==
    ASSUME PassInv, NEW p \in Passes, PassEnds(p)
    PROVE  PassInv'
<1> USE DEF PassInv
<1> DEFINE g == _registry_for(p)
<1>0. g \in {"own", "fallback"} /\ (g = "own" <=> p \notin Bespoke)
  BY DEF _registry_for
<1>1. PICK s \in {"ok", "error"} : registry' = [registry EXCEPT ![g] = finish(@, p, s)]
  BY DEF PassEnds
<1> HIDE DEF g
<1> DEFINE new == finish(registry[g], p, s)
<1>2. /\ loops[p].firing
      /\ loops' = [loops EXCEPT ![p].firing = FALSE, ![p].wait = Interval[p]]
      /\ threads' = [threads EXCEPT ![p] = @ - 1]
      /\ UNCHANGED <<files, tracker, notices, past>>
  BY DEF PassEnds
<1>3. /\ DOMAIN registry = {"own", "fallback"} /\ loops \in [Passes -> Loops] /\ threads \in [Passes -> Nat]
      /\ \A h \in DOMAIN registry : registry[h] \in Seq(RunEntry) /\ Len(registry[h]) <= MaxEntries
  BY DEF CTypeOK
<1>4. Longest \in Nat /\ Interval[p] \in 0..Longest
  BY LongestBounds, PeriodicConstants
<1>5. new \in Seq(RunEntry) /\ Len(new) <= MaxEntries
  <2>1. \A i \in DOMAIN registry[g] : registry[g][i] \in RunEntry
    BY <1>0, RegistryTyped
  <2>2. new \in [DOMAIN registry[g] -> RunEntry]
    BY <2>1 DEF finish, RunEntry
  <2> HIDE DEF new
  <2> QED
    BY <1>0, <1>3, <2>2, SameLength
<1>6. g = "own" => Ordered(new) /\ \A q \in Passes \ {p} : NoNewSuccess(new, registry["own"], q)
  BY <1>0, <1>3, FinishKeepsOrder
<1> HIDE DEF new
<1>7. DOMAIN registry' = {"own", "fallback"} /\ \A h \in {"own", "fallback"} : registry'[h] = IF h = g THEN new ELSE registry[h]
  BY <1>1, <1>3 DEF new
<1>8. loops' \in [Passes -> Loops]
  BY <1>2, <1>3, <1>4 DEF Loops
<1>9. threads[p] >= 1
  BY <1>2 DEF Threaded
<1>10. threads' \in [Passes -> Nat]
  BY <1>2, <1>3, <1>9
<1>11. CTypeOK'
  BY <1>2, <1>3, <1>5, <1>7, <1>8, <1>10 DEF CTypeOK
<1>12. Ordered(registry["own"])'
  BY <1>0, <1>6, <1>7 DEF Ordered
<1>13. Rested'
  <2> SUFFICES ASSUME NEW q \in Passes \ Bespoke, loops'[q].ver # "none", ~loops'[q].firing
               PROVE  \A i \in Successes(registry'["own"], q) :
                         registry'["own"][i].age + loops'[q].wait >= Interval[q]
    BY DEF Rested, Successes
  <2>1. CASE q = p
    <3>1. loops'[q].wait = Interval[q] /\ Interval[q] \in Nat
      BY <1>2, <1>3, <1>4, <2>1 DEF Loops
    <3>2. \A i \in Successes(registry'["own"], q) : registry'["own"][i].age \in Nat
      <4>1. registry'["own"] \in Seq(RunEntry)
        BY <1>11 DEF CTypeOK
      <4> QED
        BY <4>1, AgesAreNumbers DEF Successes
    <3> QED
      BY <3>1, <3>2
  <2>2. CASE q # p
    <3>1. loops'[q] = loops[q]
      BY <1>2, <1>3, <2>2 DEF Loops
    <3>2. \A i \in Successes(registry["own"], q) : registry["own"][i].age + loops[q].wait >= Interval[q]
      BY <3>1 DEF Rested
    <3>3. CASE g = "own"
      <4>1. registry'["own"] = new /\ NoNewSuccess(new, registry["own"], q)
        BY <1>6, <1>7, <2>2, <3>3
      <4>2. \A i \in Successes(new, q) : new[i].age + loops[q].wait >= Interval[q]
        BY <3>2, <4>1, StillRested
      <4> QED
        BY <3>1, <4>1, <4>2
    <3>4. CASE g # "own"
      BY <1>7, <3>1, <3>2, <3>4
    <3> QED
      BY <3>3, <3>4
  <2> QED
    BY <2>1, <2>2
<1>14. Threaded'
  BY <1>2, <1>3 DEF Threaded, Loops
<1>15. Unedited'
  <2> SUFFICES ASSUME past.edits = 0, NEW q \in Passes
               PROVE  /\ files[q] = "first" /\ loops'[q].ver \in {"none", "first"}
                      /\ threads'[q] = IF loops'[q].firing THEN 1 ELSE 0
    BY <1>2 DEF Unedited
  <2>1. /\ files[q] = "first" /\ loops[q].ver \in {"none", "first"}
        /\ threads[q] = IF loops[q].firing THEN 1 ELSE 0
    BY DEF Unedited
  <2> QED
    BY <1>2, <1>3, <2>1 DEF Loops
<1>16. ReportedOnce'
  BY <1>2 DEF ReportedOnce
<1> QED
  BY <1>11, <1>12, <1>13, <1>14, <1>15, <1>16

LEMMA AbandonedPassEndsKeeps ==
    ASSUME PassInv, NEW p \in Passes, AbandonedPassEnds(p)
    PROVE  PassInv'
<1> USE DEF PassInv
<1>1. /\ threads[p] > IF loops[p].firing THEN 1 ELSE 0
      /\ threads' = [threads EXCEPT ![p] = @ - 1]
      /\ UNCHANGED <<files, loops, registry, tracker, notices, past>>
  BY DEF AbandonedPassEnds
<1>2. threads \in [Passes -> Nat]
  BY DEF CTypeOK
<1>3. threads' \in [Passes -> Nat] /\ \A q \in Passes : loops[q].firing /\ threads[q] >= 1 => threads'[q] >= 1
  BY <1>1, <1>2
<1>4. CTypeOK'
  BY <1>1, <1>3 DEF CTypeOK
<1>5. Ordered(registry["own"])' /\ Rested' /\ Threaded' /\ ReportedOnce'
  BY <1>1, <1>3 DEF Ordered, Rested, Threaded, ReportedOnce, Successes
<1>6. Unedited'
  BY <1>1 DEF Unedited
<1> QED
  BY <1>4, <1>5, <1>6

LEMMA SupervisorKeeps ==
    ASSUME PassInv, _periodic_supervisor
    PROVE  PassInv'
<1> USE DEF PassInv
<1> DEFINE Entry(g, i) == LET e == registry[g][i]
                          IN IF e.status = "running" /\ Unwanted(e.kind) THEN [e EXCEPT !.status = "left"] ELSE e
<1>1. /\ tracker' = observe
      /\ loops' = [p \in Passes |->
                    IF loops[p].ver = Desired(p) THEN loops[p]
                    ELSE [ver |-> Desired(p), firing |-> FALSE,
                          wait |-> IF Desired(p) = "none" THEN 0 ELSE _initial_delay(p)]]
      /\ registry' = [g \in DOMAIN registry |-> [i \in DOMAIN registry[g] |-> Entry(g, i)]]
      /\ UNCHANGED <<files, threads, past>>
  BY Zenon DEF _periodic_supervisor
<1>2. \A g \in {"own", "fallback"} : \A i \in DOMAIN registry[g] :
        /\ Entry(g, i) \in RunEntry
        /\ Entry(g, i).kind = registry[g][i].kind /\ Entry(g, i).age = registry[g][i].age
        /\ Entry(g, i).status = "ok" => registry[g][i].status = "ok"
  <2> TAKE g \in {"own", "fallback"}
  <2> TAKE i \in DOMAIN registry[g]
  <2>1. registry[g][i] \in RunEntry
    BY RegistryTyped
  <2> QED
    BY <2>1 DEF RunEntry
<1> HIDE DEF Entry
<1>3. /\ DOMAIN registry = {"own", "fallback"} /\ loops \in [Passes -> Loops]
      /\ \A h \in {"own", "fallback"} : registry[h] \in Seq(RunEntry) /\ Len(registry[h]) <= MaxEntries
  BY DEF CTypeOK
<1>4. /\ DOMAIN registry' = {"own", "fallback"}
      /\ \A g \in {"own", "fallback"} : registry'[g] = [i \in DOMAIN registry[g] |-> Entry(g, i)]
  BY <1>1, <1>3
<1>5. \A g \in {"own", "fallback"} : /\ registry'[g] \in [DOMAIN registry[g] -> RunEntry]
                                   /\ \A i \in DOMAIN registry[g] : registry'[g][i] = Entry(g, i)
  BY <1>2, <1>4
<1>6. \A g \in {"own", "fallback"} : registry'[g] \in Seq(RunEntry) /\ Len(registry'[g]) <= MaxEntries
  <2> TAKE g \in {"own", "fallback"}
  <2>1. registry'[g] \in Seq(RunEntry) /\ Len(registry'[g]) = Len(registry[g])
    BY <1>3, <1>5, SameLength
  <2> QED
    BY <1>3, <2>1
<1>7. Ordered(registry'["own"]) /\ \A q \in Passes : NoNewSuccess(registry'["own"], registry["own"], q)
  <2> DEFINE f == registry'["own"]
             es == registry["own"]
  <2>1. /\ es \in Seq(RunEntry) /\ Len(es) <= MaxEntries /\ Ordered(es) /\ f \in [DOMAIN es -> RunEntry]
        /\ \A i \in DOMAIN es : f[i].kind = es[i].kind /\ f[i].age = es[i].age
        /\ \A i \in DOMAIN es : f[i].status = "ok" => es[i].status = "ok"
    BY <1>2, <1>3, <1>5
  <2> HIDE DEF f, es
  <2>2. Ordered(f) /\ \A q \in Passes : NoNewSuccess(f, es, q)
    BY <2>1, RewriteKeepsOrder
  <2> QED
    BY <2>2 DEF f, es
<1>8. \A p \in Passes : Desired(p) \in {"none", "first", "second"} /\ _initial_delay(p) \in 0..Longest
  BY DelayCovers DEF Desired
<1>9. loops' \in [Passes -> Loops]
  <2> SUFFICES ASSUME NEW p \in Passes PROVE loops'[p] \in Loops
    BY <1>1
  <2>1. CASE loops[p].ver = Desired(p)
    BY <1>1, <1>3, <2>1
  <2>2. CASE loops[p].ver # Desired(p)
    <3> DEFINE w == IF Desired(p) = "none" THEN 0 ELSE _initial_delay(p)
    <3>1. w \in 0..Longest
      BY <1>8, LongestBounds
    <3>2. loops'[p] = [ver |-> Desired(p), firing |-> FALSE, wait |-> w]
      BY <1>1, <2>2
    <3> HIDE DEF w
    <3> QED
      BY <1>8, <3>1, <3>2 DEF Loops
  <2> QED
    BY <2>1, <2>2
<1>10. notices' \in [Passes -> Nat] /\ \A p \in Passes : notices'[p] <= 1
  <2>1. PICK made \in SUBSET (observe.reported \ tracker.reported) :
          notices' = [p \in Passes |-> IF p \in made THEN Notices(p) ELSE notices[p]]
    BY Zenon DEF _periodic_supervisor
  <2>2. \A p \in Passes : notices[p] \in Nat /\ notices[p] <= 1
    BY DEF CTypeOK, ReportedOnce
  <2>3. \A p \in Passes : Notices(p) \in Nat /\ Notices(p) <= 1
    BY <2>2 DEF Notices
  <2> QED
    BY <2>1, <2>2, <2>3
<1>11. tracker' \in [count : [Passes -> 0..Threshold], reported : SUBSET Passes]
  <2> DEFINE N(p) == IF files[p] # "dead" THEN 0
                     ELSE IF tracker.count[p] = Threshold THEN Threshold ELSE tracker.count[p] + 1
             n == [p \in Passes |-> N(p)]
             old == {p \in tracker.reported : files[p] = "dead"}
  <2>1. tracker.count \in [Passes -> 0..Threshold] /\ tracker.reported \in SUBSET Passes /\ Threshold \in Nat
    BY PeriodicConstants DEF CTypeOK
  <2>2. \A p \in Passes : tracker.count[p] \in 0..Threshold
    BY <2>1
  <2>3. \A p \in Passes : N(p) \in 0..Threshold
    BY <2>1, <2>2
  <2>4. n \in [Passes -> 0..Threshold]
    <3> HIDE DEF N
    <3> QED
      BY <2>3
  <2>5. old \cup {p \in Passes : n[p] = Threshold} \in SUBSET Passes
    BY <2>1
  <2>6. tracker' = [count |-> n, reported |-> old \cup {p \in Passes : n[p] = Threshold}]
    BY <1>1, Zenon DEF observe
  <2> HIDE DEF n, old
  <2> QED
    BY <2>4, <2>5, <2>6
<1>12. CTypeOK'
  BY <1>1, <1>4, <1>6, <1>9, <1>10, <1>11 DEF CTypeOK
<1>13. Ordered(registry["own"])'
  BY <1>7 DEF Ordered
<1>14. Rested'
  <2> SUFFICES ASSUME NEW q \in Passes \ Bespoke, loops'[q].ver # "none", ~loops'[q].firing
               PROVE  \A i \in Successes(registry'["own"], q) :
                         registry'["own"][i].age + loops'[q].wait >= Interval[q]
    BY DEF Rested, Successes
  <2>1. \A i \in Successes(registry["own"], q) : registry["own"][i].age + loops'[q].wait >= Interval[q]
    <3>1. CASE loops[q].ver = Desired(q)
      BY <1>1, <3>1 DEF Rested
    <3>2. CASE loops[q].ver # Desired(q)
      <4>1. loops'[q].ver = Desired(q) /\ loops'[q].wait = IF Desired(q) = "none" THEN 0 ELSE _initial_delay(q)
        BY <1>1, <3>2
      <4>2. loops'[q].wait = _initial_delay(q)
        BY <4>1
      <4>3. \A i \in Successes(registry["own"], q) : registry["own"][i].age + _initial_delay(q) >= Interval[q]
        BY DelayCovers
      <4> QED
        BY <4>2, <4>3, Zenon
    <3> QED
      BY <3>1, <3>2
  <2> QED
    BY <1>7, <2>1, StillRested
<1>15. Threaded'
  BY <1>1 DEF Threaded
<1>16. Unedited'
  <2> SUFFICES ASSUME past.edits = 0, NEW q \in Passes
               PROVE  /\ files[q] = "first" /\ loops'[q].ver \in {"none", "first"}
                      /\ threads[q] = IF loops'[q].firing THEN 1 ELSE 0
    BY <1>1 DEF Unedited
  <2>1. /\ files[q] = "first" /\ loops[q].ver \in {"none", "first"}
        /\ threads[q] = IF loops[q].firing THEN 1 ELSE 0
    BY DEF Unedited
  <2>2. Desired(q) = "first"
    BY <2>1 DEF Desired
  <2>3. CASE loops[q].ver = "first"
    BY <1>1, <2>1, <2>2, <2>3
  <2>4. CASE loops[q].ver = "none"
    <3>1. ~loops[q].firing
      BY <2>4 DEF Threaded
    <3> QED
      BY <1>1, <2>1, <2>2, <2>4, <3>1
  <2> QED
    BY <2>1, <2>3, <2>4
<1>17. ReportedOnce'
  BY <1>10 DEF ReportedOnce
<1> QED
  BY <1>12, <1>13, <1>14, <1>15, <1>16, <1>17

LEMMA TickKeeps ==
    ASSUME PassInv, CTick
    PROVE  PassInv'
<1> USE DEF PassInv
<1>1. /\ loops' = [p \in Passes |-> [loops[p] EXCEPT !.wait = IF @ = 0 THEN 0 ELSE @ - 1]]
      /\ registry' = [g \in DOMAIN registry |->
                        [i \in DOMAIN registry[g] |-> [registry[g][i] EXCEPT !.age = Older(@)]]]
      /\ UNCHANGED <<files, threads, tracker, notices, past>>
  BY DEF CTick
<1>2. /\ DOMAIN registry = {"own", "fallback"} /\ loops \in [Passes -> Loops]
      /\ \A h \in {"own", "fallback"} : registry[h] \in Seq(RunEntry) /\ Len(registry[h]) <= MaxEntries
  BY DEF CTypeOK
<1>3. Longest \in Nat /\ Interval \in [Passes -> Nat] /\ \A p \in Passes : Interval[p] <= Longest
  BY LongestBounds, PeriodicConstants
<1>4. \A n \in 0..Longest : Older(n) \in 0..Longest /\ Older(n) = IF n = Longest THEN n ELSE n + 1
  BY <1>3 DEF Older
<1>5. \A g \in {"own", "fallback"} : \A i \in DOMAIN registry[g] :
        registry[g][i] \in RunEntry /\ registry[g][i].age \in 0..Longest
  BY RegistryTyped DEF RunEntry
<1>6. \A g \in {"own", "fallback"} :
        registry'[g] = [i \in DOMAIN registry[g] |-> [registry[g][i] EXCEPT !.age = Older(@)]]
  BY <1>1, <1>2
<1>7. DOMAIN registry' = {"own", "fallback"}
  BY <1>1, <1>2
<1>8. \A g \in {"own", "fallback"} : \A i \in DOMAIN registry[g] :
        /\ registry'[g][i] \in RunEntry
        /\ registry'[g][i].kind = registry[g][i].kind /\ registry'[g][i].status = registry[g][i].status
        /\ registry'[g][i].age = Older(registry[g][i].age)
  <2> TAKE g \in {"own", "fallback"}
  <2> TAKE i \in DOMAIN registry[g]
  <2>1. registry'[g][i] = [registry[g][i] EXCEPT !.age = Older(@)]
    BY <1>6
  <2>2. registry[g][i] \in RunEntry /\ Older(registry[g][i].age) \in 0..Longest
    BY <1>4, <1>5
  <2> QED
    BY <2>1, <2>2 DEF RunEntry
<1>9. \A g \in {"own", "fallback"} : /\ registry'[g] \in Seq(RunEntry) /\ Len(registry'[g]) <= MaxEntries
                                   /\ DOMAIN registry'[g] = DOMAIN registry[g]
  <2> TAKE g \in {"own", "fallback"}
  <2>1. registry'[g] \in [DOMAIN registry[g] -> RunEntry]
    BY <1>6, <1>8
  <2>2. registry'[g] \in Seq(RunEntry) /\ Len(registry'[g]) = Len(registry[g]) /\ DOMAIN registry'[g] = DOMAIN registry[g]
    BY <1>2, <2>1, SameLength
  <2> QED
    BY <1>2, <2>2
<1>10. \A p \in Passes : /\ loops'[p] \in Loops /\ loops'[p].ver = loops[p].ver /\ loops'[p].firing = loops[p].firing
                         /\ loops'[p].wait = (IF loops[p].wait = 0 THEN 0 ELSE loops[p].wait - 1)
                         /\ loops[p].wait \in 0..Longest
  <2> TAKE p \in Passes
  <2> DEFINE w == IF loops[p].wait = 0 THEN 0 ELSE loops[p].wait - 1
  <2>1. loops[p] \in Loops /\ loops[p].wait \in 0..Longest
    BY <1>2 DEF Loops
  <2>2. w \in 0..Longest
    BY <1>3, <2>1
  <2>3. loops'[p] = [loops[p] EXCEPT !.wait = w]
    BY <1>1
  <2> HIDE DEF w
  <2>4. loops'[p] \in Loops /\ loops'[p].ver = loops[p].ver /\ loops'[p].firing = loops[p].firing /\ loops'[p].wait = w
    BY <2>1, <2>2, <2>3 DEF Loops
  <2> QED
    BY <2>1, <2>4 DEF w
<1>11. loops' \in [Passes -> Loops]
  BY <1>1, <1>10
<1>12. CTypeOK'
  BY <1>1, <1>7, <1>9, <1>11 DEF CTypeOK
<1>13. Ordered(registry["own"])'
  <2> SUFFICES ASSUME NEW i \in DOMAIN registry["own"], NEW j \in DOMAIN registry["own"], i < j
               PROVE  registry'["own"][j].age <= registry'["own"][i].age
    BY <1>9 DEF Ordered
  <2> DEFINE a == registry["own"][i].age
             b == registry["own"][j].age
  <2>1. b <= a
    BY DEF Ordered
  <2>2. a \in 0..Longest /\ b \in 0..Longest
    BY <1>5
  <2>3. registry'["own"][j].age = Older(b) /\ registry'["own"][i].age = Older(a)
    BY <1>8
  <2> HIDE DEF a, b
  <2> QED
    BY <1>3, <1>4, <2>1, <2>2, <2>3
<1>14. Rested'
  <2> SUFFICES ASSUME NEW q \in Passes \ Bespoke, loops'[q].ver # "none", ~loops'[q].firing,
                      NEW i \in Successes(registry'["own"], q)
               PROVE  registry'["own"][i].age + loops'[q].wait >= Interval[q]
    BY DEF Rested, Successes
  <2> DEFINE a == registry["own"][i].age
             w == loops[q].wait
  <2>1. i \in Successes(registry["own"], q) /\ i \in DOMAIN registry["own"]
    BY <1>8, <1>9 DEF Successes
  <2>2. a + w >= Interval[q]
    BY <1>10, <2>1 DEF Rested
  <2>3. a \in 0..Longest /\ w \in 0..Longest /\ Interval[q] \in Nat /\ Interval[q] <= Longest
    BY <1>3, <1>5, <1>10, <2>1
  <2>4. registry'["own"][i].age = Older(a) /\ loops'[q].wait = IF w = 0 THEN 0 ELSE w - 1
    BY <1>8, <1>10, <2>1
  <2> HIDE DEF a, w
  <2> QED
    BY <1>3, <1>4, <2>2, <2>3, <2>4
<1>15. Threaded' /\ Unedited'
  BY <1>1, <1>10 DEF Threaded, Unedited
<1>16. ReportedOnce'
  BY <1>1 DEF ReportedOnce
<1> QED
  BY <1>12, <1>13, <1>14, <1>15, <1>16

LEMMA RestartKeeps ==
    ASSUME PassInv, CRestart
    PROVE  PassInv'
<1> USE DEF PassInv
<1>1. PICK torn \in SUBSET DOMAIN registry :
        registry' = [g \in DOMAIN registry |-> IF g \in torn THEN <<>> ELSE _load(registry[g])]
  BY DEF CRestart
<1>2. /\ past.restarts < MaxRestarts /\ past' = [past EXCEPT !.restarts = @ + 1]
      /\ loops' = [p \in Passes |-> NoLoop] /\ threads' = [p \in Passes |-> 0]
      /\ tracker' = [count |-> [p \in Passes |-> 0], reported |-> {}]
      /\ UNCHANGED <<files, notices>>
  BY DEF CRestart
<1>3. /\ DOMAIN registry = {"own", "fallback"}
      /\ \A h \in {"own", "fallback"} : registry[h] \in Seq(RunEntry) /\ Len(registry[h]) <= MaxEntries
  BY DEF CTypeOK
<1>4. NoLoop \in Loops /\ NoLoop.ver = "none" /\ ~NoLoop.firing
  BY LongestBounds DEF NoLoop, Loops
<1>5. loops' \in [Passes -> Loops] /\ threads' \in [Passes -> Nat]
  BY <1>2, <1>4
<1>6. past' \in [edits : 0..MaxEdits, restarts : 0..MaxRestarts] /\ past'.edits = past.edits
  <2>1. past \in [edits : 0..MaxEdits, restarts : 0..MaxRestarts]
    BY DEF CTypeOK
  <2> DEFINE n == past.restarts + 1
  <2>2. n \in 0..MaxRestarts
    BY <1>2, <2>1, PeriodicConstants
  <2>3. past' = [past EXCEPT !.restarts = n]
    BY <1>2
  <2> HIDE DEF n
  <2> QED
    BY <2>1, <2>2, <2>3
<1>7. tracker' \in [count : [Passes -> 0..Threshold], reported : SUBSET Passes]
  BY <1>2, PeriodicConstants
<1>8. \A g \in {"own", "fallback"} : registry'[g] \in Seq(RunEntry) /\ Len(registry'[g]) <= MaxEntries
  <2> TAKE g \in {"own", "fallback"}
  <2>1. CASE g \in torn
    BY <1>1, <1>3, <2>1, PeriodicConstants
  <2>2. CASE g \notin torn
    <3>1. \A i \in DOMAIN registry[g] : registry[g][i] \in RunEntry
      BY RegistryTyped
    <3>2. _load(registry[g]) \in [DOMAIN registry[g] -> RunEntry]
      BY <3>1 DEF _load, RunEntry
    <3>3. _load(registry[g]) \in Seq(RunEntry) /\ Len(_load(registry[g])) = Len(registry[g])
      BY <1>3, <3>2, SameLength
    <3> QED
      BY <1>1, <1>3, <2>2, <3>3
  <2> QED
    BY <2>1, <2>2
<1>9. CTypeOK'
  <2>1. DOMAIN registry' = {"own", "fallback"}
    BY <1>1, <1>3
  <2> QED
    BY <1>2, <1>5, <1>6, <1>7, <1>8, <2>1 DEF CTypeOK
<1>10. Ordered(registry'["own"])
  <2>1. CASE "own" \in torn
    <3>1. registry'["own"] = <<>>
      BY <1>1, <1>3, <2>1
    <3> QED
      BY <3>1 DEF Ordered
  <2>2. CASE "own" \notin torn
    <3>1. registry'["own"] = _load(registry["own"])
      BY <1>1, <1>3, <2>2
    <3> QED
      BY <1>3, <3>1, LoadKeepsOrder
  <2> QED
    BY <2>1, <2>2
<1>11. Rested' /\ Threaded'
  BY <1>2, <1>4 DEF Rested, Threaded
<1>12. Unedited'
  BY <1>2, <1>4, <1>6 DEF Unedited
<1>13. ReportedOnce'
  BY <1>2 DEF ReportedOnce
<1> QED
  BY <1>9, <1>10, <1>11, <1>12, <1>13 DEF Ordered

LEMMA NextKeeps == PassInv /\ [CNext]_cvars => PassInv'
<1> SUFFICES ASSUME PassInv, [CNext]_cvars PROVE PassInv'
  OBVIOUS
<1>1. ASSUME NEW p \in Passes, Edit(p) PROVE PassInv'
  BY <1>1, EditKeeps
<1>2. ASSUME NEW p \in Passes, Fire(p) PROVE PassInv'
  BY <1>2, FireKeeps
<1>3. ASSUME NEW p \in Passes, PassEnds(p) PROVE PassInv'
  BY <1>3, PassEndsKeeps
<1>4. ASSUME NEW p \in Passes, AbandonedPassEnds(p) PROVE PassInv'
  BY <1>4, AbandonedPassEndsKeeps
<1>5. CASE _periodic_supervisor
  BY <1>5, SupervisorKeeps
<1>6. CASE CTick
  BY <1>6, TickKeeps
<1>7. CASE CRestart
  BY <1>7, RestartKeeps
<1>8. CASE UNCHANGED cvars
  BY <1>8 DEF cvars, PassInv, CTypeOK, Ordered, Rested, Threaded, Unedited, ReportedOnce, Successes
<1> QED
  BY <1>1, <1>2, <1>3, <1>4, <1>5, <1>6, <1>7, <1>8 DEF CNext

\* The inductive invariant of the supervisor and its loops: the sleeps cover
\* what the registry records, whatever is edited, cancelled or restarted.
THEOREM PassInvariant == CSpec => []PassInv
BY InitHolds, NextKeeps, PTL DEF CSpec

\* A loop fires only when its sleep is over.
LEMMA FiresRested ==
    ASSUME PassInv, [CNext]_cvars, NEW p \in Passes \ Bespoke, Starts(p), NEW i \in DOMAIN registry["own"],
           registry["own"][i].kind = p, registry["own"][i].status = "ok"
    PROVE  registry["own"][i].age >= Interval[p]
<1>1. loops \in [Passes -> Loops] /\ ~loops[p].firing /\ loops'[p].firing
  BY DEF PassInv, CTypeOK, Starts
<1>2. Fire(p)
  <2>1. ASSUME NEW q \in Passes, Fire(q) PROVE q = p
    BY <1>1, <2>1 DEF Fire, Loops
  <2>2. ASSUME NEW q \in Passes, PassEnds(q) PROVE FALSE
    BY <1>1, <2>2 DEF PassEnds, Loops
  <2>3. ASSUME NEW q \in Passes, Edit(q) \/ AbandonedPassEnds(q) PROVE FALSE
    BY <1>1, <2>3 DEF Edit, AbandonedPassEnds
  <2>4. ~_periodic_supervisor
    BY <1>1 DEF _periodic_supervisor
  <2>5. ~CTick
    BY <1>1 DEF CTick, Loops
  <2>6. ~CRestart
    BY <1>1 DEF CRestart, NoLoop
  <2>7. ~UNCHANGED cvars
    BY <1>1 DEF cvars
  <2> QED
    BY <2>1, <2>2, <2>3, <2>4, <2>5, <2>6, <2>7 DEF CNext
<1>3. loops[p].ver # "none" /\ loops[p].wait = 0
  BY <1>2 DEF Fire
<1>4. registry["own"][i].age + loops[p].wait >= Interval[p]
  BY <1>1, <1>3 DEF PassInv, Rested, Successes
<1>5. registry["own"][i].age \in Nat
  BY RegistryTyped DEF PassInv
<1> QED
  BY <1>3, <1>4, <1>5

\* The periodic loops: a pass is not started while a success of it younger than
\* its interval is on record, whatever restarts and replaced loops forget; while
\* its file stays as it is it does not run twice at once; and a dead file is
\* reported once.
THEOREM PassesAlwaysSound == CSpec => PassesAreSound
<1>1. PassInv => CTypeOK /\ RunsAlone /\ ReportedOnce
  <2> SUFFICES ASSUME PassInv PROVE RunsAlone
    BY DEF PassInv
  <2> SUFFICES ASSUME past.edits = 0, NEW p \in Passes PROVE threads[p] <= 1
    BY DEF RunsAlone
  <2>1. threads[p] = IF loops[p].firing THEN 1 ELSE 0
    BY DEF PassInv, Unedited
  <2> QED
    BY <2>1
<1>2. PassInv /\ [CNext]_cvars =>
        [\A p \in Passes \ Bespoke : Starts(p) =>
           \A i \in DOMAIN registry["own"] :
             LET e == registry["own"][i] IN e.kind = p /\ e.status = "ok" => e.age >= Interval[p]]_cvars
  BY FiresRested
<1> QED
  BY PassInvariant, <1>1, <1>2, PTL DEF CSpec, PassesAreSound, CadenceIsKept

(***************************************************************************)
(* What the passes file.                                                   *)
(***************************************************************************)

RunRec == [pc : QSteps, todo : Seq(Finding), filed : SUBSET (SUBSET Gaps), epic : 0..MaxCards, fresh : BOOLEAN]

\* An epic carries no id and has no parent, and only epics are deleted.
CardOk(c) ==
    /\ c.kind = "epic" => c.marks = {} /\ c.parent = 0
    /\ c.st = "deleted" => c.kind = "epic"

\* A run has a finding in hand while it works, knows its own epic, and has a
\* ticket for each id it calls filed.
RunOk(q) ==
    /\ q.pc \notin {"idle", "persist"} => q.todo # <<>>
    /\ q.fresh => q.epic \in DOMAIN cards /\ cards[q.epic].kind = "epic"
    /\ q.pc \in {"undo", "delete"} => q.fresh
    /\ \A x \in q.filed : \E i \in Shown : cards[i].kind = "draft" /\ cards[i].marks = x

\* What a run that is alone has looked up still holds when it acts on it.
SerialOk(q, f) ==
    /\ f = 0 /\ q.pc \in {"epic", "newepic", "makeepic", "file"} /\ Head(q.todo).marked =>
         _find_prior_gap(Head(q.todo).about) = {}
    /\ q.pc = "delete" => childless(q.epic)

FilingInv ==
    /\ QTypeOK /\ DOMAIN prun = Runs
    /\ \A i \in DOMAIN cards : CardOk(cards[i])
    /\ \A r \in Runs : RunOk(prun[r])
    /\ Alone => \A r \in Runs : SerialOk(prun[r], faults)
    /\ FiledOncePerGap
    /\ ParentsExist
    /\ LedgerIsTrue

\* The run that is alone is the only one.
LEMMA AloneIsOne ==
    ASSUME DOMAIN prun = Runs, Alone, NEW r \in Runs, NEW s \in Runs
    PROVE  r = s
<1>1. PICK x : Runs = {x}
  BY FS_Singleton, ProposalsConstants DEF Alone
<1> QED
  BY <1>1

LEMMA CardsTyped ==
    ASSUME QTypeOK
    PROVE  /\ DOMAIN cards = 1..Len(cards) /\ Len(cards) \in Nat /\ Len(cards) <= MaxCards
           /\ \A i \in DOMAIN cards : cards[i] \in Card
           /\ MaxCards \in Nat /\ Shown \subseteq 1..Len(cards)
<1>1. cards \in Seq(Card) /\ Len(cards) <= MaxCards
  BY DEF QTypeOK
<1>2. DOMAIN cards = 1..Len(cards) /\ Len(cards) \in Nat /\ \A i \in DOMAIN cards : cards[i] \in Card
  BY <1>1, LenProperties, ElementOfSeq
<1> QED
  BY <1>1, <1>2, ProposalsConstants DEF Shown

LEMMA RunsTyped ==
    ASSUME QTypeOK, DOMAIN prun = Runs, NEW r \in Runs
    PROVE  prun[r] \in RunRec
BY DEF QTypeOK, RunRec

\* A step of one run that leaves the board alone.
LEMMA QuietStep ==
    ASSUME FilingInv, NEW r \in Runs, NEW q \in RunRec, prun' = [prun EXCEPT ![r] = q],
           UNCHANGED <<cards, ledger>>, faults' = faults \/ Raises,
           RunOk(q), Alone => SerialOk(q, faults')
    PROVE  FilingInv'
<1> USE DEF FilingInv
<1>1. faults \in Nat /\ faults' \in 0..MaxFaults /\ (faults' = 0 => faults = 0)
  BY ProposalsConstants DEF QTypeOK, Raises
<1>2. DOMAIN prun' = Runs /\ \A s \in Runs : prun'[s] = IF s = r THEN q ELSE prun[s]
  OBVIOUS
<1>3. QTypeOK'
  BY <1>1, <1>2, RunsTyped DEF QTypeOK, RunRec
<1>4. \A i \in DOMAIN cards' : CardOk(cards'[i])
  OBVIOUS
<1>5. \A s \in Runs : RunOk(prun[s])' <=> RunOk(prun'[s])
  BY DEF RunOk, Shown
<1>6. \A s \in Runs : RunOk(prun'[s])
  BY <1>2
<1>7. Alone' <=> Alone
  BY <1>2 DEF Alone
<1>8. Alone' => \A s \in Runs : SerialOk(prun[s], faults)'
  <2> SUFFICES ASSUME Alone, NEW s \in Runs PROVE SerialOk(prun[s], faults)'
    BY <1>7
  <2>1. s = r /\ prun'[s] = q
    BY <1>2, AloneIsOne
  <2>2. SerialOk(q, faults')
    OBVIOUS
  <2> QED
    BY <2>1, <2>2 DEF SerialOk, _find_prior_gap, childless, Shown
<1>9. FiledOncePerGap'
  BY <1>1, <1>7 DEF FiledOncePerGap, Shown
<1>10. ParentsExist' /\ LedgerIsTrue'
  BY <1>7 DEF ParentsExist, LedgerIsTrue, Shown
<1> QED
  BY <1>2, <1>3, <1>4, <1>5, <1>6, <1>8, <1>9, <1>10

\* A change of the step alone.
LEMMA StepTyped ==
    ASSUME NEW q \in RunRec, NEW p \in QSteps
    PROVE  /\ [q EXCEPT !.pc = p] \in RunRec /\ [q EXCEPT !.pc = p].pc = p
           /\ [q EXCEPT !.pc = p].todo = q.todo /\ [q EXCEPT !.pc = p].filed = q.filed
           /\ [q EXCEPT !.pc = p].epic = q.epic /\ [q EXCEPT !.pc = p].fresh = q.fresh
BY DEF RunRec

\* Going on to the next finding.
Went(q, n) ==
    /\ n \in RunRec /\ n.filed = q.filed /\ n.pc \in {"persist", "look"}
    /\ (n.pc # "persist" => n.todo # <<>>) /\ ~n.fresh

LEMMA NextFindingWent ==
    ASSUME QTypeOK, DOMAIN prun = Runs, NEW r \in Runs, prun[r].todo # <<>>, NextFinding(r)
    PROVE  \E n : prun' = [prun EXCEPT ![r] = n] /\ Went(prun[r], n)
<1> DEFINE q == prun[r]
           p == IF Len(q.todo) = 1 THEN "persist" ELSE "look"
           rest == Tail(q.todo)
           n == [q EXCEPT !.todo = rest, !.epic = 0, !.fresh = FALSE, !.pc = p]
<1>1. q \in RunRec
  BY RunsTyped
<1>2. rest \in Seq(Finding) /\ p \in {"persist", "look"} /\ p \in QSteps /\ (p # "persist" => rest # <<>>)
  <2>1. q.todo \in Seq(Finding) /\ q.todo # <<>>
    BY <1>1 DEF RunRec
  <2>2. rest \in Seq(Finding) /\ Len(rest) = Len(q.todo) - 1 /\ Len(q.todo) \in Nat
    BY <2>1, HeadTailProperties, LenProperties
  <2>3. p # "persist" => Len(rest) # 0
    BY <2>1, <2>2, EmptySeq
  <2>4. rest = <<>> => Len(rest) = 0
    BY EmptySeq
  <2> QED
    BY <2>2, <2>3, <2>4 DEF QSteps
<1>3. prun' = [prun EXCEPT ![r] = n]
  BY DEF NextFinding
<1> HIDE DEF rest, p, q
<1>4. 0 \in 0..MaxCards
  BY ProposalsConstants
<1>5. n \in RunRec
  BY <1>1, <1>2, <1>4 DEF RunRec
<1>6. n.filed = q.filed /\ n.pc = p /\ n.todo = rest /\ ~n.fresh
  BY <1>1 DEF RunRec
<1> QED
  BY <1>2, <1>3, <1>5, <1>6 DEF Went, q

LEMMA WentIsQuiet ==
    ASSUME FilingInv, NEW r \in Runs, NEW n, prun' = [prun EXCEPT ![r] = n], Went(prun[r], n),
           UNCHANGED <<cards, ledger>>, faults' = faults \/ Raises
    PROVE  FilingInv'
<1>1. n \in RunRec /\ RunOk(prun[r])
  BY DEF Went, FilingInv
<1>2. RunOk(n)
  BY <1>1 DEF RunOk, Went
<1>3. SerialOk(n, faults')
  BY DEF SerialOk, Went
<1> QED
  BY <1>1, <1>2, <1>3, QuietStep

\* The step of a quiet move, where what a run alone looked up is still true.
LEMMA MoveIsQuiet ==
    ASSUME FilingInv, NEW r \in Runs, NEW p \in QSteps \ {"undo", "delete"}, QTo(r, p),
           UNCHANGED <<cards, ledger>>, faults' = faults \/ Raises,
           prun[r].pc \notin {"idle", "persist"},
           \/ p = "persist"
           \/ prun[r].pc \in {"epic", "newepic", "makeepic", "file"}
           \/ faults' = 0 /\ Head(prun[r].todo).marked => _find_prior_gap(Head(prun[r].todo).about) = {}
    PROVE  FilingInv'
<1> DEFINE n == [prun[r] EXCEPT !.pc = p]
<1>1. prun[r] \in RunRec /\ RunOk(prun[r])
  BY RunsTyped DEF FilingInv
<1>2. prun' = [prun EXCEPT ![r] = n]
  BY DEF QTo
<1>3. /\ n \in RunRec /\ n.pc = p /\ n.todo = prun[r].todo /\ n.filed = prun[r].filed
      /\ n.epic = prun[r].epic /\ n.fresh = prun[r].fresh
  BY <1>1, StepTyped
<1> HIDE DEF n
<1>4. RunOk(n)
  BY <1>1, <1>3 DEF RunOk
<1>5. faults' = 0 => faults = 0
  BY ProposalsConstants DEF FilingInv, QTypeOK, Raises
<1>6. Alone => SerialOk(n, faults')
  BY <1>3, <1>5 DEF SerialOk, FilingInv
<1> QED
  BY <1>2, <1>3, <1>4, <1>6, QuietStep

LEMMA QInitHolds == QInit => FilingInv
<1> SUFFICES ASSUME QInit PROVE FilingInv
  OBVIOUS
<1>1. cards = <<>> /\ ledger = {} /\ faults = 0 /\ prun = [r \in Runs |-> NoRun]
  BY DEF QInit
<1>2. NoRun \in RunRec /\ NoRun.pc = "idle" /\ ~NoRun.fresh /\ NoRun.filed = {}
  BY ProposalsConstants DEF NoRun, RunRec, QSteps
<1>3. cards \in Seq(Card) /\ Len(cards) = 0 /\ DOMAIN cards = {}
  BY <1>1
<1>4. QTypeOK
  BY <1>1, <1>2, <1>3, ProposalsConstants DEF QTypeOK, RunRec
<1>5. \A r \in Runs : RunOk(prun[r]) /\ SerialOk(prun[r], faults)
  BY <1>1, <1>2 DEF RunOk, SerialOk
<1>6. FiledOncePerGap /\ ParentsExist /\ LedgerIsTrue
  BY <1>1, <1>3 DEF FiledOncePerGap, ParentsExist, LedgerIsTrue, Shown
<1> QED
  BY <1>1, <1>3, <1>4, <1>5, <1>6 DEF FilingInv

\* What the agent reports, alone or joined to a rollup, are findings.
LEMMA CollapseTyped ==
    ASSUME NEW n \in Nat, NEW marked \in BOOLEAN, NEW names \in [1..n -> Gaps]
    PROVE  /\ collapse([i \in 1..n |-> [about |-> {names[i]}, marked |-> marked]]) \in Seq(Finding)
           /\ n # 0 => collapse([i \in 1..n |-> [about |-> {names[i]}, marked |-> marked]]) # <<>>
<1> DEFINE fs == [i \in 1..n |-> [about |-> {names[i]}, marked |-> marked]]
           whole == UNION {fs[i].about : i \in DOMAIN fs}
           all == \A i \in DOMAIN fs : fs[i].marked
           roll == [about |-> whole, marked |-> all]
<1>1. \A i \in 1..n : fs[i] \in Finding /\ fs[i].about \subseteq Gaps
  BY DEF Finding
<1>2. fs \in [1..n -> Finding]
  BY <1>1
<1>3. fs \in Seq(Finding) /\ DOMAIN fs = 1..n
  BY <1>2, SeqDef
<1>4. whole \in SUBSET Gaps
  BY <1>1, <1>3
<1>5. all \in BOOLEAN
  OBVIOUS
<1>6. collapse(fs) = IF Rollup /\ Len(fs) >= 2 THEN <<roll>> ELSE fs
  BY DEF collapse
<1> HIDE DEF fs, whole, all
<1>7. roll \in Finding
  BY <1>4, <1>5 DEF Finding
<1> HIDE DEF roll
<1>8. <<roll>> \in Seq(Finding) /\ <<roll>> # <<>>
  BY <1>7
<1>9. n # 0 => fs # <<>>
  BY <1>3
<1>10. collapse(fs) \in Seq(Finding) /\ (n # 0 => collapse(fs) # <<>>)
  BY <1>3, <1>6, <1>8, <1>9
<1> QED
  BY <1>10 DEF fs

LEMMA BeginKeeps == ASSUME FilingInv, NEW r \in Runs, Begin(r) PROVE FilingInv'
<1>1. PICK n \in 0..MaxPerRun, marked \in BOOLEAN : \E names \in [1..n -> Gaps] :
         LET fs == collapse([i \in 1..n |-> [about |-> {names[i]}, marked |-> marked]])
         IN prun' = [prun EXCEPT ![r] = [NoRun EXCEPT !.pc = IF n = 0 THEN "persist" ELSE "look", !.todo = fs]]
  BY DEF Begin
<1>2. PICK names \in [1..n -> Gaps] :
         LET fs == collapse([i \in 1..n |-> [about |-> {names[i]}, marked |-> marked]])
         IN prun' = [prun EXCEPT ![r] = [NoRun EXCEPT !.pc = IF n = 0 THEN "persist" ELSE "look", !.todo = fs]]
  BY <1>1
<1> DEFINE fs == collapse([i \in 1..n |-> [about |-> {names[i]}, marked |-> marked]])
           p == IF n = 0 THEN "persist" ELSE "look"
           q == [NoRun EXCEPT !.pc = p, !.todo = fs]
<1>3. fs \in Seq(Finding) /\ (n # 0 => fs # <<>>)
  BY CollapseTyped, ProposalsConstants
<1>4. prun' = [prun EXCEPT ![r] = q]
  BY <1>2
<1>5. p \in {"persist", "look"} /\ (p # "persist" => n # 0) /\ p \in QSteps
  BY DEF QSteps
<1> HIDE DEF fs, p
<1>6. q \in RunRec /\ q.pc = p /\ q.todo = fs /\ q.filed = {} /\ ~q.fresh
  <2>1. NoRun \in RunRec /\ ~NoRun.fresh /\ NoRun.filed = {}
    BY ProposalsConstants DEF NoRun, RunRec, QSteps
  <2> QED
    BY <1>3, <1>5, <2>1 DEF RunRec
<1> HIDE DEF q
<1>7. RunOk(q) /\ SerialOk(q, faults')
  BY <1>3, <1>5, <1>6 DEF RunOk, SerialOk
<1>8. UNCHANGED <<cards, ledger>> /\ faults' = faults
  BY DEF Begin
<1> QED
  BY <1>4, <1>6, <1>7, <1>8, QuietStep

\* A run that is at work has a finding in hand.
LEMMA AtWork ==
    ASSUME FilingInv, NEW r \in Runs, prun[r].pc \notin {"idle", "persist"}
    PROVE  prun[r] \in RunRec /\ prun[r].todo # <<>> /\ Head(prun[r].todo) \in Finding /\ RunOk(prun[r])
<1>1. prun[r] \in RunRec /\ prun[r].todo # <<>> /\ RunOk(prun[r])
  BY RunsTyped DEF FilingInv, RunOk
<1>2. prun[r].todo \in Seq(Finding)
  BY <1>1 DEF RunRec
<1> QED
  BY <1>1, <1>2, HeadTailProperties

LEMMA LookKeeps ==
    ASSUME FilingInv, NEW r \in Runs, Refiled(r) \/ Contradicted(r) \/ PassesChecks(r)
    PROVE  FilingInv'
<1>1. CASE Refiled(r) \/ Contradicted(r)
  <2>1. NextFinding(r) /\ UNCHANGED <<cards, ledger, faults>> /\ prun[r].pc = "look"
    BY <1>1 DEF Refiled, Contradicted
  <2>2. prun[r].todo # <<>>
    BY <2>1, AtWork
  <2>3. PICK n : prun' = [prun EXCEPT ![r] = n] /\ Went(prun[r], n)
    BY <2>1, <2>2, NextFindingWent DEF FilingInv
  <2> QED
    BY <2>1, <2>3, WentIsQuiet
<1>2. CASE PassesChecks(r)
  <2>1. /\ QTo(r, "epic") /\ UNCHANGED <<cards, ledger>> /\ prun[r].pc = "look"
        /\ (NotFiledBefore(r) /\ UNCHANGED faults) \/ Raises
    BY <1>2 DEF PassesChecks
  <2>2. faults' = 0 => NotFiledBefore(r)
    BY <2>1, ProposalsConstants DEF Raises, FilingInv, QTypeOK
  <2>3. faults' = 0 /\ Head(prun[r].todo).marked => _find_prior_gap(Head(prun[r].todo).about) = {}
    BY <2>2 DEF NotFiledBefore
  <2>4. "epic" \in QSteps \ {"undo", "delete"}
    BY DEF QSteps
  <2> QED
    BY <2>1, <2>3, <2>4, MoveIsQuiet
<1> QED
  BY <1>1, <1>2

\* Taking an epic that is on the board.
LEMMA TakeEpicKeeps ==
    ASSUME FilingInv, NEW r \in Runs, prun[r].pc \in {"epic", "newepic"}, NEW e \in open_epics, NEW fresh \in BOOLEAN,
           prun[r].fresh => fresh,
           prun' = [prun EXCEPT ![r] = [prun[r] EXCEPT !.epic = e, !.fresh = fresh, !.pc = "file"]],
           UNCHANGED <<cards, ledger, faults>>
    PROVE  FilingInv'
<1> DEFINE n == [prun[r] EXCEPT !.epic = e, !.fresh = fresh, !.pc = "file"]
<1>1. prun[r] \in RunRec /\ RunOk(prun[r])
  BY AtWork
<1>2. e \in DOMAIN cards /\ cards[e].kind = "epic" /\ e \in 0..MaxCards
  BY CardsTyped DEF open_epics, Shown, FilingInv
<1>3. n \in RunRec /\ n.pc = "file" /\ n.todo = prun[r].todo /\ n.filed = prun[r].filed /\ n.epic = e
  BY <1>1, <1>2 DEF RunRec, QSteps
<1> HIDE DEF n
<1>4. RunOk(n)
  BY <1>1, <1>2, <1>3 DEF RunOk
<1>5. Alone => SerialOk(n, faults')
  BY <1>3 DEF SerialOk, FilingInv
<1> QED
  BY <1>3, <1>4, <1>5, QuietStep DEF n

LEMMA FindEpicKeeps ==
    ASSUME FilingInv, NEW r \in Runs, FindEpic(r) \/ FindEpicAgain(r) \/ NoEpic(r)
    PROVE  FilingInv'
<1>1. prun[r].pc \in {"epic", "newepic", "makeepic"} /\ UNCHANGED <<cards, ledger>>
  BY DEF FindEpic, FindEpicAgain, NoEpic
<1>2. {"newepic", "makeepic", "file"} \subseteq QSteps \ {"undo", "delete"}
  BY DEF QSteps
<1>3. prun[r] \in RunRec
  BY <1>1, AtWork
<1>4. ASSUME NEW e \in open_epics, FindEpic(r),
             prun' = [prun EXCEPT ![r].epic = e, ![r].pc = "file"], UNCHANGED faults
      PROVE  FilingInv'
  <2>1. prun' = [prun EXCEPT ![r] = [prun[r] EXCEPT !.epic = e, !.fresh = prun[r].fresh, !.pc = "file"]]
    <3>1. [prun[r] EXCEPT !.epic = e, !.pc = "file"] = [prun[r] EXCEPT !.epic = e, !.fresh = prun[r].fresh, !.pc = "file"]
      BY <1>3 DEF RunRec
    <3> QED
      BY <1>4, <3>1
  <2>2. prun[r].fresh \in BOOLEAN /\ prun[r].pc = "epic"
    BY <1>3, <1>4 DEF RunRec, FindEpic
  <2> QED
    BY <1>1, <1>4, <2>1, <2>2, TakeEpicKeeps
<1>5. ASSUME NEW e \in open_epics, FindEpicAgain(r),
             prun' = [prun EXCEPT ![r].epic = e, ![r].fresh = TRUE, ![r].pc = "file"], UNCHANGED faults
      PROVE  FilingInv'
  <2>1. prun' = [prun EXCEPT ![r] = [prun[r] EXCEPT !.epic = e, !.fresh = TRUE, !.pc = "file"]]
    BY <1>5
  <2>2. prun[r].pc = "newepic"
    BY <1>5 DEF FindEpicAgain
  <2> QED
    BY <1>1, <1>5, <2>1, <2>2, TakeEpicKeeps
<1>6. ASSUME NEW p \in {"newepic", "makeepic", "file"}, QTo(r, p), faults' = faults \/ Raises
      PROVE  FilingInv'
  BY <1>1, <1>2, <1>6, MoveIsQuiet
<1> QED
  BY <1>4, <1>5, <1>6 DEF FindEpic, FindEpicAgain, NoEpic

LEMMA UndoKeeps ==
    ASSUME FilingInv, NEW r \in Runs, CreateFails(r) \/ LookForChildren(r)
    PROVE  FilingInv'
<1>1. /\ prun[r].pc \in {"file", "undo"} /\ UNCHANGED <<cards, ledger>>
      /\ faults' = faults \/ Raises
  BY DEF CreateFails, LookForChildren
<1>2. prun[r] \in RunRec /\ prun[r].todo # <<>> /\ RunOk(prun[r])
  BY <1>1, AtWork
<1>3. CASE NextFinding(r)
  <2>1. PICK n : prun' = [prun EXCEPT ![r] = n] /\ Went(prun[r], n)
    BY <1>2, <1>3, NextFindingWent DEF FilingInv
  <2> QED
    BY <1>1, <2>1, WentIsQuiet
<1>4. ASSUME NEW p \in {"undo", "delete"}, QTo(r, p), prun[r].fresh,
             p = "delete" => childless(prun[r].epic)
      PROVE  FilingInv'
  <2> DEFINE n == [prun[r] EXCEPT !.pc = p]
  <2>1. prun' = [prun EXCEPT ![r] = n]
    BY <1>4 DEF QTo
  <2>2. p \in QSteps
    BY DEF QSteps
  <2>3. /\ n \in RunRec /\ n.pc = p /\ n.todo = prun[r].todo /\ n.filed = prun[r].filed
        /\ n.epic = prun[r].epic /\ n.fresh = prun[r].fresh
    BY <1>2, <2>2, StepTyped
  <2> HIDE DEF n
  <2>4. RunOk(n) /\ SerialOk(n, faults')
    BY <1>2, <1>4, <2>3 DEF RunOk, SerialOk
  <2> QED
    BY <1>1, <2>1, <2>3, <2>4, QuietStep
<1>5. CASE CreateFails(r) /\ ~NextFinding(r)
  <2>1. prun[r].fresh /\ QTo(r, "undo")
    BY <1>5 DEF CreateFails
  <2> QED
    BY <1>4, <2>1
<1>6. CASE LookForChildren(r) /\ ~NextFinding(r)
  <2>1. prun[r].pc = "undo" /\ childless(prun[r].epic) /\ QTo(r, "delete")
    BY <1>6 DEF LookForChildren
  <2>2. prun[r].fresh
    BY <1>2, <2>1 DEF RunOk
  <2> QED
    BY <1>4, <2>1, <2>2
<1> QED
  BY <1>3, <1>5, <1>6

\* A step that adds a card: what was on the board stays as it was.
LEMMA AppendedCards ==
    ASSUME QTypeOK, Len(cards) < MaxCards, NEW c \in Card, c.st = "open", cards' = Append(cards, c)
    PROVE  /\ cards' \in Seq(Card) /\ Len(cards') = Len(cards) + 1 /\ Len(cards') <= MaxCards
           /\ DOMAIN cards' = DOMAIN cards \cup {Len(cards) + 1} /\ Len(cards) + 1 \notin DOMAIN cards
           /\ cards'[Len(cards) + 1] = c
           /\ \A i \in DOMAIN cards : cards'[i] = cards[i]
           /\ Shown' = Shown \cup {Len(cards) + 1} /\ Len(cards) + 1 \notin Shown
<1>1. cards \in Seq(Card) /\ MaxCards \in Nat
  BY ProposalsConstants DEF QTypeOK
<1>2. Len(cards) \in Nat /\ DOMAIN cards = 1..Len(cards)
  BY CardsTyped
<1>3. cards' \in Seq(Card) /\ Len(cards') = Len(cards) + 1 /\ DOMAIN cards' = 1..Len(cards) + 1
  BY <1>1, <1>2, LenProperties
<1>4. cards'[Len(cards) + 1] = c /\ \A i \in 1..Len(cards) : cards'[i] = cards[i]
  BY <1>1, <1>2
<1>5. 1..Len(cards) + 1 = 1..Len(cards) \cup {Len(cards) + 1} /\ Len(cards) + 1 \notin 1..Len(cards)
  BY <1>2
<1>6. Shown' = Shown \cup {Len(cards) + 1} /\ Len(cards) + 1 \notin Shown
  BY <1>2, <1>3, <1>4, <1>5 DEF Shown
<1> QED
  BY <1>1, <1>2, <1>3, <1>4, <1>5, <1>6

LEMMA CreateEpicKeeps ==
    ASSUME FilingInv, NEW r \in Runs, CreateEpic(r)
    PROVE  FilingInv'
<1> USE DEF FilingInv
<1> DEFINE c == [kind |-> "epic", marks |-> {}, about |-> {}, st |-> "open", parent |-> 0]
           k == Len(cards) + 1
           n == [prun[r] EXCEPT !.epic = k, !.fresh = TRUE, !.pc = "file"]
<1>1. /\ prun[r].pc = "makeepic" /\ Len(cards) < MaxCards /\ cards' = Append(cards, c)
      /\ prun' = [prun EXCEPT ![r] = n] /\ UNCHANGED <<ledger, faults>>
  BY DEF CreateEpic
<1>2. c \in Card /\ c.kind = "epic" /\ c.st = "open" /\ c.marks = {} /\ c.parent = 0
  BY ProposalsConstants DEF Card
<1> HIDE DEF c
<1>3. /\ cards' \in Seq(Card) /\ Len(cards') <= MaxCards
      /\ DOMAIN cards' = DOMAIN cards \cup {k} /\ k \notin DOMAIN cards /\ cards'[k] = c
      /\ \A i \in DOMAIN cards : cards'[i] = cards[i]
      /\ Shown' = Shown \cup {k} /\ k \notin Shown /\ Shown \subseteq DOMAIN cards
  BY <1>1, <1>2, AppendedCards DEF Shown
<1>4. k \in 0..MaxCards
  BY <1>1, CardsTyped
<1>5. prun[r] \in RunRec /\ RunOk(prun[r]) /\ prun[r].todo # <<>>
  BY <1>1, AtWork
<1>6. n \in RunRec /\ n.pc = "file" /\ n.todo = prun[r].todo /\ n.filed = prun[r].filed /\ n.epic = k
  BY <1>4, <1>5 DEF RunRec, QSteps
<1> HIDE DEF n, k
<1>7. DOMAIN prun' = Runs /\ \A s \in Runs : prun'[s] = IF s = r THEN n ELSE prun[s]
  BY <1>1
<1>8. QTypeOK'
  BY <1>1, <1>3, <1>6, <1>7, RunsTyped DEF QTypeOK, RunRec
<1>9. \A i \in DOMAIN cards' : CardOk(cards'[i])
  BY <1>2, <1>3 DEF CardOk
<1>10. \A s \in Runs : RunOk(prun[s])'
  <2> SUFFICES ASSUME NEW s \in Runs PROVE RunOk(prun[s])'
    OBVIOUS
  <2>1. RunOk(prun[s])
    OBVIOUS
  <2>2. \A x \in prun[s].filed : \E i \in Shown' : cards'[i].kind = "draft" /\ cards'[i].marks = x
    BY <1>3, <2>1 DEF RunOk
  <2>3. CASE s = r
    <3>1. prun'[s] = n
      BY <1>7, <2>3
    <3>2. k \in DOMAIN cards' /\ cards'[k].kind = "epic"
      BY <1>2, <1>3
    <3> QED
      BY <1>5, <1>6, <2>2, <2>3, <3>1, <3>2 DEF RunOk
  <2>4. CASE s # r
    BY <1>3, <1>7, <2>1, <2>2, <2>4 DEF RunOk
  <2> QED
    BY <2>3, <2>4
<1>11. Alone' <=> Alone
  BY <1>7 DEF Alone
<1>12. \A ids : _find_prior_gap(ids)' = _find_prior_gap(ids)
  BY <1>2, <1>3 DEF _find_prior_gap
<1>13. Alone' => \A s \in Runs : SerialOk(prun[s], faults)'
  <2> SUFFICES ASSUME Alone, NEW s \in Runs PROVE SerialOk(prun[s], faults)'
    BY <1>11
  <2>1. prun'[s] = n
    BY <1>7, AloneIsOne
  <2>2. SerialOk(prun[r], faults)
    OBVIOUS
  <2> QED
    BY <1>1, <1>6, <1>12, <2>1, <2>2 DEF SerialOk
<1>14. FiledOncePerGap'
  BY <1>1, <1>2, <1>3, <1>11 DEF FiledOncePerGap
<1>15. ParentsExist'
  <2> SUFFICES ASSUME Alone, NEW i \in Shown', cards'[i].parent # 0 PROVE cards'[i].parent \in Shown'
    BY <1>11 DEF ParentsExist
  <2>1. i \in Shown /\ cards'[i] = cards[i]
    BY <1>2, <1>3
  <2> QED
    BY <1>3, <2>1 DEF ParentsExist
<1>16. LedgerIsTrue'
  <2> SUFFICES ASSUME NEW g \in ledger PROVE \E i \in Shown' : cards'[i].marks = {g}
    BY <1>1 DEF LedgerIsTrue
  <2>1. PICK i \in Shown : cards[i].marks = {g}
    BY DEF LedgerIsTrue
  <2>2. i \in Shown' /\ cards'[i] = cards[i]
    BY <1>3
  <2> QED
    BY <2>1, <2>2
<1> QED
  BY <1>7, <1>8, <1>9, <1>10, <1>13, <1>14, <1>15, <1>16

LEMMA CreateDraftKeeps ==
    ASSUME FilingInv, NEW r \in Runs, CreateDraft(r)
    PROVE  FilingInv'
<1> USE DEF FilingInv
<1> DEFINE f == Head(prun[r].todo)
           e == prun[r].epic
           marks == IF f.marked THEN f.about ELSE {}
           c == [kind |-> "draft", marks |-> marks, about |-> f.about, st |-> "open", parent |-> e]
           k == Len(cards) + 1
           more == prun[r].filed \cup (IF f.marked THEN {f.about} ELSE {})
           p == IF Len(prun[r].todo) = 1 THEN "persist" ELSE "look"
           rest == Tail(prun[r].todo)
           n == [prun[r] EXCEPT !.filed = more, !.todo = rest, !.epic = 0, !.fresh = FALSE, !.pc = p]
<1>1. /\ prun[r].pc = "file" /\ Len(cards) < MaxCards /\ e \in Shown \cup {0}
      /\ cards' = Append(cards, c) /\ prun' = [prun EXCEPT ![r] = n] /\ UNCHANGED <<ledger, faults>>
  BY DEF CreateDraft
<1>2. prun[r] \in RunRec /\ RunOk(prun[r]) /\ prun[r].todo # <<>> /\ f \in Finding
  BY <1>1, AtWork
<1>3. prun[r].filed \in SUBSET (SUBSET Gaps) /\ e \in 0..MaxCards /\ prun[r].todo \in Seq(Finding)
  BY <1>2 DEF RunRec
<1>4. f.about \in SUBSET Gaps /\ f.marked \in BOOLEAN
  BY <1>2 DEF Finding
<1> HIDE DEF f, e
<1>5. marks \in SUBSET Gaps /\ more \in SUBSET (SUBSET Gaps)
  BY <1>3, <1>4
<1>6. p \in {"persist", "look"} /\ p \in QSteps /\ rest \in Seq(Finding) /\ (p # "persist" => rest # <<>>)
  <2>1. rest \in Seq(Finding) /\ Len(rest) = Len(prun[r].todo) - 1 /\ Len(prun[r].todo) \in Nat
    BY <1>2, <1>3, HeadTailProperties, LenProperties
  <2>2. rest = <<>> => Len(rest) = 0
    BY EmptySeq
  <2> QED
    BY <2>1, <2>2 DEF QSteps
<1>7. c \in Card /\ c.kind = "draft" /\ c.st = "open" /\ c.marks = marks /\ c.parent = e
  <2> HIDE DEF marks
  <2> QED
    BY <1>3, <1>4, <1>5 DEF Card
<1>8. n \in RunRec /\ n.pc = p /\ n.todo = rest /\ n.filed = more /\ ~n.fresh
  <2>1. 0 \in 0..MaxCards
    BY ProposalsConstants
  <2> HIDE DEF more, rest, p
  <2> QED
    BY <1>2, <1>5, <1>6, <2>1 DEF RunRec
<1> HIDE DEF c, n, p, rest
<1>9. /\ cards' \in Seq(Card) /\ Len(cards') <= MaxCards
      /\ DOMAIN cards' = DOMAIN cards \cup {k} /\ k \notin DOMAIN cards /\ cards'[k] = c
      /\ \A i \in DOMAIN cards : cards'[i] = cards[i]
      /\ Shown' = Shown \cup {k} /\ k \notin Shown /\ Shown \subseteq DOMAIN cards
  BY <1>1, <1>7, AppendedCards DEF Shown
<1> HIDE DEF k
<1>10. DOMAIN prun' = Runs /\ \A s \in Runs : prun'[s] = IF s = r THEN n ELSE prun[s]
  BY <1>1
<1>11. QTypeOK'
  BY <1>1, <1>8, <1>9, <1>10, RunsTyped DEF QTypeOK, RunRec
<1>12. \A i \in DOMAIN cards' : CardOk(cards'[i])
  BY <1>7, <1>9 DEF CardOk
<1>13. \A s \in Runs : RunOk(prun[s])'
  <2> SUFFICES ASSUME NEW s \in Runs PROVE RunOk(prun[s])'
    OBVIOUS
  <2>1. RunOk(prun[s])
    OBVIOUS
  <2>2. \A x \in prun[s].filed : \E i \in Shown' : cards'[i].kind = "draft" /\ cards'[i].marks = x
    BY <1>9, <2>1 DEF RunOk
  <2>3. CASE s = r
    <3>1. prun'[s] = n
      BY <1>10, <2>3
    <3>2. \A x \in more : \E i \in Shown' : cards'[i].kind = "draft" /\ cards'[i].marks = x
      <4> SUFFICES ASSUME NEW x \in more, x \notin prun[r].filed
                   PROVE  \E i \in Shown' : cards'[i].kind = "draft" /\ cards'[i].marks = x
        BY <2>2, <2>3
      <4>1. f.marked /\ x = f.about /\ x = marks
        OBVIOUS
      <4> QED
        BY <1>7, <1>9, <4>1
    <3> QED
      BY <1>6, <1>8, <3>1, <3>2 DEF RunOk
  <2>4. CASE s # r
    BY <1>9, <1>10, <2>1, <2>2, <2>4 DEF RunOk
  <2> QED
    BY <2>3, <2>4
<1>14. Alone' <=> Alone
  BY <1>10 DEF Alone
<1>15. Alone' => \A s \in Runs : SerialOk(prun[s], faults)'
  <2> SUFFICES ASSUME Alone, NEW s \in Runs PROVE SerialOk(prun[s], faults)'
    BY <1>14
  <2>1. prun'[s] = n
    BY <1>10, AloneIsOne
  <2> QED
    BY <1>6, <1>8, <2>1 DEF SerialOk
<1>16. FiledOncePerGap'
  <2> SUFFICES ASSUME Alone, faults = 0, NEW i \in Shown', NEW j \in Shown',
                      cards'[i].kind = "draft", cards'[i].marks # {}, cards'[i].marks = cards'[j].marks
               PROVE  i = j
    BY <1>1, <1>14 DEF FiledOncePerGap
  <2>1. f.marked => _find_prior_gap(f.about) = {}
    BY <1>1 DEF SerialOk, f
  <2>2. \A h \in Shown : marks # {} => cards[h].marks # marks
    <3> SUFFICES ASSUME NEW h \in Shown, marks # {}, cards[h].marks = marks PROVE FALSE
      OBVIOUS
    <3>1. f.marked /\ marks = f.about
      OBVIOUS
    <3>2. h \in DOMAIN cards /\ cards[h].kind # "epic"
      BY <1>9 DEF CardOk
    <3>3. cards[h].kind = "draft"
      BY <1>9, <3>2, CardsTyped DEF Card
    <3> QED
      BY <2>1, <3>1, <3>3 DEF _find_prior_gap
  <2>3. CASE i \in Shown /\ j \in Shown
    BY <1>9, <2>3 DEF FiledOncePerGap
  <2>4. CASE i = k /\ j = k
    BY <2>4
  <2>5. CASE i = k /\ j \in Shown
    BY <1>7, <1>9, <2>2, <2>5
  <2>6. CASE i \in Shown /\ j = k
    BY <1>7, <1>9, <2>2, <2>6
  <2> QED
    BY <1>9, <2>3, <2>4, <2>5, <2>6
<1>17. ParentsExist'
  <2> SUFFICES ASSUME Alone, NEW i \in Shown', cards'[i].parent # 0 PROVE cards'[i].parent \in Shown'
    BY <1>14 DEF ParentsExist
  <2>1. CASE i = k
    BY <1>1, <1>7, <1>9, <2>1
  <2>2. CASE i \in Shown
    BY <1>9, <2>2 DEF ParentsExist
  <2> QED
    BY <1>9, <2>1, <2>2
<1>18. LedgerIsTrue'
  <2> SUFFICES ASSUME NEW g \in ledger PROVE \E i \in Shown' : cards'[i].marks = {g}
    BY <1>1 DEF LedgerIsTrue
  <2>1. PICK i \in Shown : cards[i].marks = {g}
    BY DEF LedgerIsTrue
  <2>2. i \in Shown' /\ cards'[i] = cards[i]
    BY <1>9
  <2> QED
    BY <2>1, <2>2
<1> QED
  BY <1>10, <1>11, <1>12, <1>13, <1>15, <1>16, <1>17, <1>18

\* A step that changes the state of one card keeps everything else of the board.
LEMMA RestatedCards ==
    ASSUME QTypeOK, NEW e \in DOMAIN cards, NEW s \in {"closed", "deleted"},
           cards' = [cards EXCEPT ![e].st = s]
    PROVE  /\ cards' \in Seq(Card) /\ Len(cards') <= MaxCards /\ DOMAIN cards' = DOMAIN cards
           /\ cards'[e].st = s /\ \A i \in DOMAIN cards \ {e} : cards'[i] = cards[i]
           /\ \A i \in DOMAIN cards : /\ cards'[i].kind = cards[i].kind /\ cards'[i].marks = cards[i].marks
                                      /\ cards'[i].parent = cards[i].parent
           /\ Shown' = IF s = "deleted" THEN Shown \ {e} ELSE Shown \cup {e}
<1> DEFINE c == [cards[e] EXCEPT !.st = s]
<1>1. cards \in Seq(Card) /\ DOMAIN cards = 1..Len(cards) /\ cards[e] \in Card
  BY CardsTyped DEF QTypeOK
<1>2. /\ c \in Card /\ c.st = s /\ c.kind = cards[e].kind /\ c.marks = cards[e].marks
      /\ c.parent = cards[e].parent
  BY <1>1 DEF Card
<1>3. cards' = [cards EXCEPT ![e] = c]
  OBVIOUS
<1> HIDE DEF c
<1>4. /\ cards' \in Seq(Card) /\ Len(cards') = Len(cards)
      /\ \A j \in 1..Len(cards) : cards'[j] = IF j = e THEN c ELSE cards[j]
  BY <1>1, <1>2, <1>3, ExceptSeq
<1>5. DOMAIN cards' = DOMAIN cards
  BY <1>3
<1>6. Shown' = IF s = "deleted" THEN Shown \ {e} ELSE Shown \cup {e}
  BY <1>1, <1>2, <1>4, <1>5 DEF Shown
<1> QED
  BY <1>1, <1>2, <1>4, <1>5, <1>6 DEF QTypeOK

LEMMA DeleteEpicKeeps ==
    ASSUME FilingInv, NEW r \in Runs, DeleteEpic(r)
    PROVE  FilingInv'
<1> USE DEF FilingInv
<1> DEFINE e == prun[r].epic
<1>1. /\ prun[r].pc = "delete" /\ cards' = [cards EXCEPT ![e].st = "deleted"]
      /\ NextFinding(r) /\ UNCHANGED <<ledger, faults>>
  BY DEF DeleteEpic
<1>2. prun[r] \in RunRec /\ RunOk(prun[r]) /\ prun[r].todo # <<>>
  BY <1>1, AtWork
<1>3. e \in DOMAIN cards /\ cards[e].kind = "epic"
  BY <1>1, <1>2 DEF RunOk
<1>4. CardOk(cards[e]) /\ cards[e].marks = {}
  BY <1>3 DEF CardOk
<1>5. PICK n : prun' = [prun EXCEPT ![r] = n] /\ Went(prun[r], n)
  BY <1>1, <1>2, NextFindingWent
<1> HIDE DEF e
<1>6. /\ cards' \in Seq(Card) /\ Len(cards') <= MaxCards /\ DOMAIN cards' = DOMAIN cards
      /\ \A i \in DOMAIN cards \ {e} : cards'[i] = cards[i]
      /\ \A i \in DOMAIN cards : /\ cards'[i].kind = cards[i].kind /\ cards'[i].marks = cards[i].marks
                                 /\ cards'[i].parent = cards[i].parent
      /\ Shown' = Shown \ {e}
  BY <1>1, <1>3, RestatedCards
<1>7. DOMAIN prun' = Runs /\ \A s \in Runs : prun'[s] = IF s = r THEN n ELSE prun[s]
  BY <1>5
<1>8. n \in RunRec /\ n.filed = prun[r].filed /\ ~n.fresh /\ n.pc \in {"persist", "look"}
      /\ (n.pc # "persist" => n.todo # <<>>)
  BY <1>5 DEF Went
<1>9. QTypeOK'
  BY <1>1, <1>6, <1>7, <1>8, RunsTyped DEF QTypeOK, RunRec
<1>10. \A i \in DOMAIN cards' : CardOk(cards'[i])
  BY <1>3, <1>4, <1>6 DEF CardOk
<1>11. \A s \in Runs : RunOk(prun[s])'
  <2> SUFFICES ASSUME NEW s \in Runs PROVE RunOk(prun[s])'
    OBVIOUS
  <2>1. RunOk(prun[s])
    OBVIOUS
  <2>2. \A x \in prun[s].filed : \E i \in Shown' : cards'[i].kind = "draft" /\ cards'[i].marks = x
    <3> TAKE x \in prun[s].filed
    <3>1. PICK i \in Shown : cards[i].kind = "draft" /\ cards[i].marks = x
      BY <2>1 DEF RunOk
    <3>2. i # e /\ i \in DOMAIN cards
      BY <1>3, <3>1 DEF Shown
    <3> QED
      BY <1>6, <3>1, <3>2
  <2>3. CASE s = r
    BY <1>7, <1>8, <2>2, <2>3 DEF RunOk
  <2>4. CASE s # r
    BY <1>6, <1>7, <2>1, <2>2, <2>4 DEF RunOk
  <2> QED
    BY <2>3, <2>4
<1>12. Alone' <=> Alone
  BY <1>7 DEF Alone
<1>13. Alone' => \A s \in Runs : SerialOk(prun[s], faults)'
  <2> SUFFICES ASSUME Alone, NEW s \in Runs PROVE SerialOk(prun[s], faults)'
    BY <1>12
  <2>1. prun'[s] = n
    BY <1>7, AloneIsOne
  <2> QED
    BY <1>8, <2>1 DEF SerialOk
<1>14. FiledOncePerGap'
  BY <1>1, <1>6, <1>12 DEF FiledOncePerGap, Shown
<1>15. ParentsExist'
  <2>1. Alone => childless(e)
    BY <1>1 DEF SerialOk, e
  <2> QED
    BY <1>6, <1>12, <2>1 DEF ParentsExist, childless, Shown
<1>16. LedgerIsTrue'
  <2> SUFFICES ASSUME NEW g \in ledger PROVE \E i \in Shown' : cards'[i].marks = {g}
    BY <1>1 DEF LedgerIsTrue
  <2>1. PICK i \in Shown : cards[i].marks = {g}
    BY DEF LedgerIsTrue
  <2>2. i # e /\ i \in DOMAIN cards
    BY <1>4, <2>1 DEF Shown
  <2> QED
    BY <1>6, <2>1, <2>2
<1> QED
  BY <1>7, <1>9, <1>10, <1>11, <1>13, <1>14, <1>15, <1>16

LEMMA CardClosesKeeps ==
    ASSUME FilingInv, CardCloses
    PROVE  FilingInv'
<1> USE DEF FilingInv
<1>1. PICK e \in Shown : cards' = [cards EXCEPT ![e].st = "closed"]
  BY DEF CardCloses
<1>2. UNCHANGED <<ledger, prun, faults>>
  BY DEF CardCloses
<1>3. e \in DOMAIN cards
  BY DEF Shown
<1>4. /\ cards' \in Seq(Card) /\ Len(cards') <= MaxCards /\ DOMAIN cards' = DOMAIN cards
      /\ cards'[e].st = "closed" /\ \A i \in DOMAIN cards \ {e} : cards'[i] = cards[i]
      /\ \A i \in DOMAIN cards : /\ cards'[i].kind = cards[i].kind /\ cards'[i].marks = cards[i].marks
                                 /\ cards'[i].parent = cards[i].parent
      /\ Shown' = Shown
  <2>1. Shown' = Shown \cup {e}
    BY <1>1, <1>3, RestatedCards
  <2>2. Shown' = Shown
    BY <2>1
  <2> QED
    BY <1>1, <1>3, <2>2, RestatedCards
<1>5. QTypeOK'
  BY <1>2, <1>4 DEF QTypeOK
<1>6. \A i \in DOMAIN cards' : CardOk(cards'[i])
  BY <1>3, <1>4 DEF CardOk
<1>7. \A s \in Runs : RunOk(prun[s])'
  BY <1>2, <1>4 DEF RunOk, Shown
<1>9. \A s \in Runs : childless(prun[s].epic)' <=> childless(prun[s].epic)
  BY <1>2, <1>4 DEF childless, Shown
<1>10. Alone' => \A s \in Runs : SerialOk(prun[s], faults)'
  <2> SUFFICES ASSUME Alone, NEW s \in Runs PROVE SerialOk(prun[s], faults)'
    BY <1>2 DEF Alone
  <2>1. SerialOk(prun[s], faults)
    OBVIOUS
  <2>2. childless(prun[s].epic)' <=> childless(prun[s].epic)
    BY <1>9
  <2>3. _find_prior_gap(Head(prun[s].todo).about)' = _find_prior_gap(Head(prun[s].todo).about)
    BY <1>2, <1>4 DEF _find_prior_gap, Shown
  <2> QED
    BY <1>2, <2>1, <2>2, <2>3 DEF SerialOk
<1>11. FiledOncePerGap' /\ ParentsExist' /\ LedgerIsTrue'
  <2>1. Shown' = Shown /\ Shown \subseteq DOMAIN cards /\ (Alone' <=> Alone)
    BY <1>2, <1>4 DEF Shown, Alone
  <2>2. FiledOncePerGap'
    BY <1>2, <1>4, <2>1 DEF FiledOncePerGap
  <2>3. ParentsExist'
    BY <1>2, <1>4, <2>1 DEF ParentsExist
  <2>4. LedgerIsTrue'
    BY <1>2, <1>4, <2>1 DEF LedgerIsTrue
  <2> QED
    BY <2>2, <2>3, <2>4
<1> QED
  BY <1>2, <1>5, <1>6, <1>7, <1>10, <1>11

\* Ending a run, with whatever the agent wrote to its memory.
LEMMA PersistKeeps ==
    ASSUME FilingInv, NEW r \in Runs, Persist(r)
    PROVE  FilingInv'
<1> USE DEF FilingInv
<1>1. /\ prun' = [prun EXCEPT ![r] = NoRun] /\ UNCHANGED <<cards, faults>>
  BY DEF Persist
<1>2. RunOk(prun[r])
  OBVIOUS
<1>3. ledger' \subseteq Gaps /\ \A g \in ledger' : \E i \in Shown : cards[i].marks = {g}
  <2>1. CASE UNCHANGED ledger
    BY <2>1 DEF QTypeOK, LedgerIsTrue
  <2>2. ASSUME NEW mem \in SUBSET Gaps, ledger' = _strip_unverified_filed_annotations(mem, prun[r].filed)
        PROVE  ledger' \subseteq Gaps /\ \A g \in ledger' : \E i \in Shown : cards[i].marks = {g}
    BY <1>2, <2>2 DEF RunOk, _strip_unverified_filed_annotations
  <2> QED
    BY <2>1, <2>2 DEF Persist
<1>4. NoRun \in RunRec /\ NoRun.pc = "idle" /\ ~NoRun.fresh /\ NoRun.filed = {}
  BY ProposalsConstants DEF NoRun, RunRec, QSteps
<1>5. DOMAIN prun' = Runs /\ \A s \in Runs : prun'[s] = IF s = r THEN NoRun ELSE prun[s]
  BY <1>1
<1>6. QTypeOK'
  BY <1>1, <1>3, <1>4, <1>5, RunsTyped DEF QTypeOK, RunRec
<1>7. \A i \in DOMAIN cards' : CardOk(cards'[i])
  BY <1>1
<1>8. \A s \in Runs : RunOk(prun[s])'
  BY <1>1, <1>4, <1>5 DEF RunOk, Shown
<1>9. Alone' <=> Alone
  BY <1>5 DEF Alone
<1>10. Alone' => \A s \in Runs : SerialOk(prun[s], faults)'
  <2> SUFFICES ASSUME Alone, NEW s \in Runs PROVE SerialOk(prun[s], faults)'
    BY <1>9
  <2>1. prun'[s] = NoRun
    BY <1>5, AloneIsOne
  <2> QED
    BY <1>4, <2>1 DEF SerialOk
<1>11. FiledOncePerGap' /\ ParentsExist'
  BY <1>1, <1>9 DEF FiledOncePerGap, ParentsExist, Shown
<1>12. LedgerIsTrue'
  BY <1>1, <1>3 DEF LedgerIsTrue, Shown
<1> QED
  BY <1>5, <1>6, <1>7, <1>8, <1>10, <1>11, <1>12

LEMMA QCrashKeeps ==
    ASSUME FilingInv, QCrash
    PROVE  FilingInv'
<1> USE DEF FilingInv
<1>1. prun' = [r \in Runs |-> NoRun] /\ UNCHANGED <<cards, ledger, faults>>
  BY DEF QCrash
<1>2. NoRun \in RunRec /\ NoRun.pc = "idle" /\ ~NoRun.fresh /\ NoRun.filed = {}
  BY ProposalsConstants DEF NoRun, RunRec, QSteps
<1>3. QTypeOK'
  BY <1>1, <1>2 DEF QTypeOK, RunRec
<1>4. \A s \in Runs : RunOk(prun[s])' /\ SerialOk(prun[s], faults)'
  BY <1>1, <1>2 DEF RunOk, SerialOk
<1>5. Alone' <=> Alone
  BY <1>1 DEF Alone
<1>6. FiledOncePerGap' /\ ParentsExist' /\ LedgerIsTrue'
  BY <1>1, <1>5 DEF FiledOncePerGap, ParentsExist, LedgerIsTrue, Shown
<1> QED
  BY <1>1, <1>3, <1>4, <1>6

LEMMA QNextKeeps == FilingInv /\ [QNext]_qvars => FilingInv'
<1> SUFFICES ASSUME FilingInv, [QNext]_qvars PROVE FilingInv'
  OBVIOUS
<1>1. ASSUME NEW r \in Runs, PassRun(r) PROVE FilingInv'
  <2>1. CASE Begin(r)
    BY <2>1, BeginKeeps
  <2>2. CASE Refiled(r) \/ Contradicted(r) \/ PassesChecks(r)
    BY <2>2, LookKeeps
  <2>3. CASE FindEpic(r) \/ FindEpicAgain(r) \/ NoEpic(r)
    BY <2>3, FindEpicKeeps
  <2>4. CASE CreateEpic(r)
    BY <2>4, CreateEpicKeeps
  <2>5. CASE CreateDraft(r)
    BY <2>5, CreateDraftKeeps
  <2>6. CASE CreateFails(r) \/ LookForChildren(r)
    BY <2>6, UndoKeeps
  <2>7. CASE DeleteEpic(r)
    BY <2>7, DeleteEpicKeeps
  <2>8. CASE Persist(r)
    BY <2>8, PersistKeeps
  <2> QED
    BY <1>1, <2>1, <2>2, <2>3, <2>4, <2>5, <2>6, <2>7, <2>8 DEF PassRun
<1>2. CASE CardCloses
  BY <1>2, CardClosesKeeps
<1>3. CASE QCrash
  BY <1>3, QCrashKeeps
<1>4. CASE UNCHANGED qvars
  <2>1. UNCHANGED <<cards, ledger, prun, faults>>
    BY <1>4 DEF qvars
  <2>2. QTypeOK' /\ DOMAIN prun' = Runs /\ \A i \in DOMAIN cards' : CardOk(cards'[i])
    BY <2>1 DEF FilingInv, QTypeOK
  <2>3. \A r \in Runs : RunOk(prun[r])'
    BY <2>1 DEF FilingInv, RunOk, Shown
  <2>4. Alone' => \A r \in Runs : SerialOk(prun[r], faults)'
    BY <2>1 DEF FilingInv, SerialOk, Alone, _find_prior_gap, childless, Shown
  <2>5. FiledOncePerGap' /\ ParentsExist' /\ LedgerIsTrue'
    BY <2>1 DEF FilingInv, FiledOncePerGap, ParentsExist, LedgerIsTrue, Alone, Shown
  <2> QED
    BY <2>2, <2>3, <2>4, <2>5 DEF FilingInv
<1> QED
  BY <1>1, <1>2, <1>3, <1>4 DEF QNext

\* The inductive invariant of what the passes file: a run that is alone acts on
\* look-ups that still hold, and every id a run calls filed has its ticket.
THEOREM FilingInvariant == QSpec => []FilingInv
BY QInitHolds, QNextKeeps, PTL DEF QSpec

\* What a pass leaves behind: alone, and with a board that can be read, it files
\* no id twice wherever a run before it died, and taking back an epic leaves no
\* draft without a parent; and the memory calls filed only what has a ticket,
\* whatever the agent claims and however many runs overlap.
THEOREM ProposalsAlwaysSound == QSpec => []ProposalsAreSound
<1>1. FilingInv => ProposalsAreSound
  BY DEF FilingInv, ProposalsAreSound
<1> QED
  BY <1>1, FilingInvariant, PTL

(***************************************************************************)
(* Duplicates of one another.                                              *)
(***************************************************************************)

RowRec == [st : {"DRAFT", "READY", "DONE", "CLOSED", "ERRORED"}, progressed : BOOLEAN,
           closed : {"none", "dup", "delivered", "marked", "dropped"}, of : Drafts \cup {None},
           branch : {"none", "merged", "unmerged"}]

\* An accepted target is another ticket, and only a ticket that was still open
\* can be closed into it.
Accepted == \A t \in Drafts : pending[t] # t /\ (pending[t] # None => pending[t] \in Drafts)

DupInv == UTypeOK /\ Accepted /\ OneSurvives

\* A step that closes no duplicate makes no duplicate, and names no other target.
NoNewDuplicate ==
  \A t \in Drafts : row'[t].closed = "dup" => row[t].closed = "dup" /\ row'[t].of = row[t].of

LEMMA LostBefore == ASSUME NoNewDuplicate, raced' = raced, OneSurvives PROVE OneSurvives'
<1>1. \A S \in SUBSET Drafts : LostGroup(S)' => LostGroup(S)
  BY DEF LostGroup, NoNewDuplicate
<1> QED
  BY <1>1 DEF OneSurvives, sibling

\* The rest of the pipeline.
LEMMA BecomesKept ==
    ASSUME DupInv, NEW t \in Drafts, NEW r \in RowRec, Becomes(t, r), r.closed = row[t].closed \/ r.closed # "dup",
           r.of = row[t].of
    PROVE  DupInv'
<1>1. UTypeOK'
  BY DEF DupInv, UTypeOK, Becomes, RowRec
<1>2. Accepted'
  BY DEF DupInv, Accepted, Becomes
<1>3. NoNewDuplicate
  BY DEF NoNewDuplicate, Becomes, DupInv, UTypeOK
<1> QED
  BY <1>1, <1>2, <1>3, LostBefore DEF DupInv, Becomes

LEMMA JudgeKept == ASSUME DupInv, NEW t \in Drafts, Judge(t) PROVE DupInv'
<1>1. PICK c \in candidates(t) : pending' = [pending EXCEPT ![t] = c]
  BY DEF Judge
<1>2. c \in Drafts \ {t} /\ row' = row /\ raced' = raced
  BY <1>1 DEF candidates, Judge
<1>3. UTypeOK' /\ Accepted'
  BY <1>1, <1>2 DEF DupInv, UTypeOK, Accepted
<1>4. OneSurvives'
  BY <1>2 DEF DupInv, OneSurvives, LostGroup, sibling
<1> QED
  BY <1>3, <1>4 DEF DupInv

LEMMA CloseDuplicateKept == ASSUME DupInv, NEW t \in Drafts, CloseDuplicate(t) PROVE DupInv'
<1> DEFINE c == pending[t]
           r == [row[t] EXCEPT !.st = "DONE", !.closed = "dup", !.of = c, !.progressed = TRUE]
<1>1. c \in Drafts /\ c # t
  BY DEF CloseDuplicate, DupInv, Accepted
<1>2. row' = [row EXCEPT ![t] = r] /\ pending' = [pending EXCEPT ![t] = None]
  BY DEF CloseDuplicate
<1>3. r \in RowRec /\ r.closed = "dup" /\ r.of = c
  BY <1>1 DEF DupInv, UTypeOK, RowRec
<1> HIDE DEF c, r
<1>4. UTypeOK'
  <2>1. raced' \in BOOLEAN
    BY Zenon DEF CloseDuplicate, DupInv, UTypeOK
  <2>2. row' \in [Drafts -> RowRec] /\ pending' \in [Drafts -> Drafts \cup {None}]
    BY <1>2, <1>3 DEF DupInv, UTypeOK, RowRec
  <2> QED
    BY <2>1, <2>2 DEF UTypeOK, RowRec
<1>5. Accepted'
  BY <1>2, DedupConstants DEF DupInv, Accepted, UTypeOK, None
<1>6. OneSurvives'
  <2> SUFFICES ASSUME ~raced', NEW S \in SUBSET Drafts, LostGroup(S)'
               PROVE  \E x, y \in S : x # y /\ sibling(x, y)
    BY DEF OneSurvives, sibling
  <2>1. ~raced /\ _is_valid_dedup_target(t, c)
    BY DEF CloseDuplicate, c
  <2>2. CASE t \in S
    <3>1. c \in S
      BY <1>2, <1>3, <2>2 DEF LostGroup, DupInv, UTypeOK
    <3>2. row[c].closed = "dup"
      BY <1>1, <1>2, <3>1 DEF LostGroup, DupInv, UTypeOK
    <3>3. sibling(t, c)
      BY <2>1, <3>2 DEF _is_valid_dedup_target, closed_for_real
    <3> QED
      BY <1>1, <2>2, <3>1, <3>3
  <2>3. CASE t \notin S
    <3>1. LostGroup(S)
      BY <1>2, <2>3 DEF LostGroup, DupInv, UTypeOK
    <3> QED
      BY <2>1, <3>1 DEF DupInv, OneSurvives
  <2> QED
    BY <2>2, <2>3
<1> QED
  BY <1>4, <1>5, <1>6 DEF DupInv

LEMMA DedupStep == ASSUME DupInv, [UNext]_uvars PROVE DupInv'
<1>1. CASE UNCHANGED uvars
  BY <1>1 DEF uvars, DupInv, UTypeOK, Accepted, OneSurvives, LostGroup, sibling
<1>2. ASSUME NEW t \in Drafts,
             Refined(t) \/ Returned(t) \/ Implemented(t) \/ Delivered(t) \/ MarkedDone(t)
             \/ Dropped(t) \/ Fails(t) \/ Archived(t)
      PROVE  DupInv'
  <2>1. row[t] \in RowRec
    BY DEF DupInv, UTypeOK, RowRec
  <2>2. PICK r \in RowRec : Becomes(t, r) /\ r.of = row[t].of /\ (r.closed = row[t].closed \/ r.closed # "dup")
    <3>1. CASE Refined(t)
      <4> DEFINE q == [row[t] EXCEPT !.st = "READY", !.progressed = TRUE]
      <4>1. q \in RowRec /\ q.of = row[t].of /\ (q.closed = row[t].closed \/ q.closed # "dup")
        BY <2>1 DEF RowRec
      <4> QED
        BY <3>1, <4>1 DEF Refined
    <3>2. CASE Returned(t)
      <4> DEFINE q == [row[t] EXCEPT !.st = "DRAFT"]
      <4>1. q \in RowRec /\ q.of = row[t].of /\ (q.closed = row[t].closed \/ q.closed # "dup")
        BY <2>1 DEF RowRec
      <4> QED
        BY <3>2, <4>1 DEF Returned
    <3>3. CASE Implemented(t)
      <4> DEFINE q == [row[t] EXCEPT !.branch = "unmerged"]
      <4>1. q \in RowRec /\ q.of = row[t].of /\ (q.closed = row[t].closed \/ q.closed # "dup")
        BY <2>1 DEF RowRec
      <4> QED
        BY <3>3, <4>1 DEF Implemented
    <3>4. CASE Delivered(t)
      <4> DEFINE q == [row[t] EXCEPT !.st = "DONE", !.closed = "delivered", !.branch = "merged"]
      <4>1. q \in RowRec /\ q.of = row[t].of /\ (q.closed = row[t].closed \/ q.closed # "dup")
        BY <2>1 DEF RowRec
      <4> QED
        BY <3>4, <4>1 DEF Delivered
    <3>5. CASE MarkedDone(t)
      <4> DEFINE q == [row[t] EXCEPT !.st = "DONE", !.closed = "marked"]
      <4>1. q \in RowRec /\ q.of = row[t].of /\ (q.closed = row[t].closed \/ q.closed # "dup")
        BY <2>1 DEF RowRec
      <4> QED
        BY <3>5, <4>1 DEF MarkedDone
    <3>6. CASE Dropped(t)
      <4> DEFINE q == [row[t] EXCEPT !.st = "CLOSED", !.closed = "dropped"]
      <4>1. q \in RowRec /\ q.of = row[t].of /\ (q.closed = row[t].closed \/ q.closed # "dup")
        BY <2>1 DEF RowRec
      <4> QED
        BY <3>6, <4>1 DEF Dropped
    <3>7. CASE Fails(t)
      <4> DEFINE q == [row[t] EXCEPT !.st = "ERRORED"]
      <4>1. q \in RowRec /\ q.of = row[t].of /\ (q.closed = row[t].closed \/ q.closed # "dup")
        BY <2>1 DEF RowRec
      <4> QED
        BY <3>7, <4>1 DEF Fails
    <3>8. CASE Archived(t)
      <4> DEFINE q == [row[t] EXCEPT !.st = "CLOSED"]
      <4>1. q \in RowRec /\ q.of = row[t].of /\ (q.closed = row[t].closed \/ q.closed # "dup")
        BY <2>1 DEF RowRec
      <4> QED
        BY <3>8, <4>1 DEF Archived
    <3> QED
      BY <1>2, <3>1, <3>2, <3>3, <3>4, <3>5, <3>6, <3>7, <3>8
  <2> QED
    BY <2>2, BecomesKept
<1> QED
  BY <1>1, <1>2, JudgeKept, CloseDuplicateKept DEF UNext

\* The inductive invariant of closing duplicates.
THEOREM DedupInvariant == USpec => []DupInv
<1>1. UInit => DupInv
  <2> SUFFICES ASSUME UInit PROVE DupInv
    OBVIOUS
  <2>1. \A t \in Drafts : row[t].closed = "none" /\ pending[t] = None /\ t # None
    BY DedupConstants DEF UInit, None
  <2>2. UTypeOK
    BY DEF UInit, UTypeOK
  <2> QED
    BY <2>1, <2>2 DEF DupInv, Accepted, OneSurvives, LostGroup
<1> QED
  BY <1>1, DedupStep, PTL DEF USpec

\* For any tickets and epics, chains of duplicates end in a ticket that does
\* the work, however long they are and in whatever order drafts are judged and
\* closed, unless siblings are in them or a target changed in between.
THEOREM OneAlwaysSurvives == USpec => []OneSurvives
BY DedupInvariant, PTL DEF DupInv

(***************************************************************************)
(* What a retrospect learns and files.                                     *)
(***************************************************************************)

RetroRec == [pc : RSteps, t : Nat, file : Seq(Lessons), new : Seq(Lessons),
             left : 0..MaxDrafts, made : Nat, then : {"idle", "follow", "rule", "close"}]

Ticketed == tix \in Seq(Tix) /\ Len(tix) <= MaxTix
Remembered == memory \in Seq(Lessons) /\ Len(memory) <= MemoryCap

\* A run that is under way has its ticket, and one that links has made another.
RetroTyped(r, n) ==
  /\ r \in RetroRec
  /\ r.t <= n /\ r.made <= n
  /\ r.pc # "idle" => r.t # 0
  /\ r.pc = "write" /\ r.new # <<>> => r.file # <<>> /\ r.file[Len(r.file)] = r.new[Len(r.new)]

RetrosTyped == retro \in [Workers -> RetroRec] /\ \A w \in Workers : RetroTyped(retro[w], Len(tix))

LessonInv == Ticketed /\ Remembered /\ RetrosTyped /\ deaths \in 0..MaxDeaths

\* The tickets are a sequence of records.
LEMMA TicketsAre ==
    ASSUME Ticketed
    PROVE  /\ Len(tix) \in Nat /\ DOMAIN tix = 1..Len(tix) /\ tix = [i \in 1..Len(tix) |-> tix[i]]
           /\ \A i \in 1..Len(tix) : tix[i] \in Tix
BY DEF Ticketed

\* The cap keeps the end of the file.
LEMMA TailKeeps ==
    ASSUME NEW s \in Seq(Lessons), s # <<>>
    PROVE  /\ tail_keep(s) \in Seq(Lessons) /\ tail_keep(s) # <<>> /\ Len(tail_keep(s)) <= MemoryCap
           /\ tail_keep(s)[Len(tail_keep(s))] = s[Len(s)]
<1>0. MemoryCap \in Nat \ {0} /\ Len(s) \in Nat \ {0}
  BY RetrospectConstants, EmptySeq
<1>1. CASE Len(s) <= MemoryCap
  BY <1>0, <1>1 DEF tail_keep
<1>2. CASE ~(Len(s) <= MemoryCap)
  <2> DEFINE m == Len(s) - MemoryCap + 1
  <2>1. m \in 1..Len(s) /\ Len(s) - m + 1 = MemoryCap /\ m + MemoryCap - 1 = Len(s)
    BY <1>0, <1>2
  <2>2. tail_keep(s) = SubSeq(s, m, Len(s))
    BY <1>2 DEF tail_keep
  <2> HIDE DEF m
  <2>3. /\ SubSeq(s, m, Len(s)) \in Seq(Lessons) /\ Len(SubSeq(s, m, Len(s))) = MemoryCap
        /\ SubSeq(s, m, Len(s))[MemoryCap] = s[Len(s)]
    <3>1. \A i \in m..Len(s) : s[i] \in Lessons
      <4> TAKE i \in m..Len(s)
      <4>1. i \in 1..Len(s)
        BY <1>0, <2>1
      <4> QED
        BY <4>1
    <3>2. MemoryCap \in 1..(Len(s) - m + 1) /\ m <= Len(s) /\ m \in Int /\ Len(s) \in Int
      BY <1>0, <2>1
    <3>3. /\ SubSeq(s, m, Len(s)) \in Seq(Lessons) /\ Len(SubSeq(s, m, Len(s))) = Len(s) - m + 1
          /\ \A i \in 1..(Len(s) - m + 1) : SubSeq(s, m, Len(s))[i] = s[m + i - 1]
      BY <3>1, <3>2, SubSeqProperties
    <3> QED
      BY <1>0, <2>1, <3>2, <3>3
  <2>4. Len(<<>>) = 0 /\ MemoryCap # 0
    BY <1>0
  <2>5. SubSeq(s, m, Len(s)) # <<>>
    BY <2>3, <2>4, Zenon
  <2> QED
    BY <1>0, <2>2, <2>3, <2>5
<1> QED
  BY <1>1, <1>2

\* The tickets after a step, when it made none and let their parents be.
OnlyStates ==
  /\ DOMAIN tix' = DOMAIN tix
  /\ \A i \in DOMAIN tix : \E s \in TixStates, u \in BOOLEAN : tix'[i] = [tix[i] EXCEPT !.st = s, !.unmet = u]

LEMMA SameTickets ==
    ASSUME Ticketed, tix' = [i \in DOMAIN tix |-> tix'[i]], OnlyStates
    PROVE  Ticketed' /\ Len(tix') = Len(tix)
<1>1. \A i \in DOMAIN tix : tix'[i] \in Tix
  <2> TAKE i \in DOMAIN tix
  <2>1. PICK s \in TixStates, u \in BOOLEAN : tix'[i] = [tix[i] EXCEPT !.st = s, !.unmet = u]
    BY DEF OnlyStates
  <2>2. tix[i] \in Tix
    BY DEF Ticketed
  <2> QED
    BY <2>1, <2>2 DEF Tix
<1>2. Len(tix) \in Nat /\ DOMAIN tix = 1..Len(tix)
  BY DEF Ticketed
<1>3. tix' \in [1..Len(tix) -> Tix]
  BY <1>1, <1>2
<1>4. tix' \in Seq(Tix) /\ Len(tix') = Len(tix)
  BY <1>2, <1>3
<1> QED
  BY <1>4 DEF Ticketed

\* One run moves, and no ticket disappears.
LEMMA RunMoves ==
    ASSUME LessonInv, Ticketed', Len(tix) <= Len(tix'), Remembered', NEW w \in Workers, NEW r,
           Upd(w, r), RetroTyped(r, Len(tix')), deaths' = deaths
    PROVE  LessonInv'
<1>0. Len(tix) \in Nat /\ Len(tix') \in Nat
  BY DEF LessonInv, Ticketed
<1>1. retro' = [retro EXCEPT ![w] = r] /\ r \in RetroRec
  BY DEF Upd, RetroTyped
<1>2. retro' \in [Workers -> RetroRec]
  BY <1>1 DEF LessonInv, RetrosTyped
<1>3. ASSUME NEW v \in Workers PROVE RetroTyped(retro'[v], Len(tix'))
  <2>1. CASE v = w
    <3>1. retro'[v] = r
      BY <1>1, <2>1 DEF LessonInv, RetrosTyped
    <3> QED
      BY <3>1 DEF RetroTyped
  <2>2. CASE v # w
    <3>1. retro'[v] = retro[v]
      BY <1>1, <2>2 DEF LessonInv, RetrosTyped
    <3>2. RetroTyped(retro[v], Len(tix)) /\ retro[v].t \in Nat /\ retro[v].made \in Nat
      BY DEF LessonInv, RetrosTyped, RetroTyped, RetroRec
    <3>3. retro[v].t <= Len(tix') /\ retro[v].made <= Len(tix')
      BY <1>0, <3>2 DEF RetroTyped
    <3> QED
      BY <3>1, <3>2, <3>3 DEF RetroTyped
  <2> QED
    BY <2>1, <2>2
<1> QED
  BY <1>2, <1>3 DEF LessonInv, RetrosTyped

\* The run of a worker that has none.
LEMMA IdleRetro == ASSUME Ticketed PROVE RetroTyped(NoRetro, Len(tix))
<1>1. NoRetro \in RetroRec
  BY RetrospectConstants DEF NoRetro, RetroRec, RSteps
<1>2. Len(tix) \in Nat
  BY DEF Ticketed
<1> QED
  BY <1>1, <1>2 DEF RetroTyped, NoRetro

\* A run that only goes on to another step.
LEMMA GoesOn ==
    ASSUME LessonInv, NEW w \in Workers, retro[w].pc # "idle", NEW p \in RSteps \ {"write", "idle"},
           NEW l \in 0..MaxDrafts, NEW r, r = [retro[w] EXCEPT !.pc = p, !.left = l]
    PROVE  RetroTyped(r, Len(tix))
<1>1. retro[w] \in RetroRec /\ RetroTyped(retro[w], Len(tix))
  BY DEF LessonInv, RetrosTyped
<1>2. r \in RetroRec /\ r.t = retro[w].t /\ r.made = retro[w].made /\ r.pc = p
  BY <1>1 DEF RetroRec
<1> QED
  BY <1>1, <1>2 DEF RetroTyped

LEMMA MovesOn ==
    ASSUME LessonInv, NEW w \in Workers, retro[w].pc # "idle", NEW p \in RSteps \ {"write", "idle"},
           NEW l \in 0..MaxDrafts, Upd(w, [retro[w] EXCEPT !.pc = p, !.left = l]),
           Ticketed', Len(tix') = Len(tix), UNCHANGED <<memory, deaths>>
    PROVE  LessonInv'
<1> DEFINE r == [retro[w] EXCEPT !.pc = p, !.left = l]
<1>1. RetroTyped(r, Len(tix')) /\ Upd(w, r)
  BY GoesOn
<1>2. Remembered' /\ Len(tix) \in Nat
  BY DEF LessonInv, Remembered, Ticketed
<1> HIDE DEF r
<1> QED
  BY <1>1, <1>2, RunMoves

LEMMA TakeTyped == ASSUME LessonInv, NEW w \in Workers, Take(w) PROVE LessonInv'
<1>1. PICK t \in DOMAIN tix : Upd(w, [NoRetro EXCEPT !.pc = "gate", !.t = t])
  BY DEF Take
<1>2. t \in Nat \ {0} /\ t <= Len(tix) /\ Len(tix) \in Nat
  BY DEF LessonInv, Ticketed
<1> DEFINE r == [NoRetro EXCEPT !.pc = "gate", !.t = t]
<1>a. NoRetro \in RetroRec
  BY IdleRetro DEF LessonInv, RetroTyped
<1>3. r \in RetroRec /\ r.pc = "gate" /\ r.t = t /\ r.made = NoRetro.made /\ NoRetro.made = 0
  <2>1. NoRetro.made = 0
    BY DEF NoRetro
  <2> QED
    BY <1>2, <1>a, <2>1 DEF RetroRec, RSteps
<1> HIDE DEF r
<1>4. UNCHANGED <<tix, memory, deaths>>
  BY DEF Take
<1>5. RetroTyped(r, Len(tix'))
  BY <1>2, <1>3, <1>4 DEF RetroTyped
<1> QED
  BY <1>1, <1>2, <1>4, <1>5, RunMoves DEF r, LessonInv, Ticketed, Remembered

\* At most one ticket changes its state.
LEMMA OneState ==
    ASSUME Ticketed, NEW a, NEW s \in TixStates,
           tix' = tix \/ tix' = [tix EXCEPT ![a].st = s]
    PROVE  OnlyStates /\ Ticketed' /\ Len(tix') = Len(tix)
<1>1. Len(tix) \in Nat /\ DOMAIN tix = 1..Len(tix) /\ \A i \in DOMAIN tix : tix[i] \in Tix
  BY DEF Ticketed
<1>2. OnlyStates
  <2>1. DOMAIN tix' = DOMAIN tix
    OBVIOUS
  <2>2. ASSUME NEW i \in DOMAIN tix
        PROVE  \E q \in TixStates, u \in BOOLEAN : tix'[i] = [tix[i] EXCEPT !.st = q, !.unmet = u]
    <3>1. tix[i] = [tix[i] EXCEPT !.st = tix[i].st, !.unmet = tix[i].unmet] /\ tix[i].st \in TixStates /\ tix[i].unmet \in BOOLEAN
      BY <1>1 DEF Tix
    <3>2. [tix[i] EXCEPT !.st = s] = [tix[i] EXCEPT !.st = s, !.unmet = tix[i].unmet]
      BY <1>1 DEF Tix
    <3>3. tix'[i] = tix[i] \/ tix'[i] = [tix[i] EXCEPT !.st = s]
      OBVIOUS
    <3> QED
      BY <3>1, <3>2, <3>3
  <2> QED
    BY <2>1, <2>2 DEF OnlyStates
<1>3. tix' = [i \in DOMAIN tix |-> tix'[i]]
  BY DEF Ticketed
<1> QED
  BY <1>2, <1>3, SameTickets

\* So it is where the state changes only from some states.
LEMMA ChangesNothing == ASSUME Ticketed, NEW a PROVE [tix EXCEPT ![a].st = @] = tix
<1>1. \A i \in 1..Len(tix) : [tix[i] EXCEPT !.st = tix[i].st] = tix[i]
  BY TicketsAre DEF Tix
<1>3. [tix EXCEPT ![a].st = @] = [i \in DOMAIN tix |-> IF i = a THEN [tix[i] EXCEPT !.st = tix[i].st] ELSE tix[i]]
  OBVIOUS
<1> QED
  BY <1>1, <1>3, TicketsAre, Zenon

LEMMA EndsTyped == ASSUME LessonInv, NEW w \in Workers, NEW s \in TixStates, Ends(w, s) PROVE LessonInv'
<1> DEFINE t == retro[w].t
<1>1. tix' = [tix EXCEPT ![t].st = IF @ = "done" THEN s ELSE @]
  BY DEF Ends
<1>2. Len(tix) \in Nat /\ DOMAIN tix = 1..Len(tix) /\ \A i \in DOMAIN tix : tix[i] \in Tix
  BY DEF LessonInv, Ticketed
<1> HIDE DEF t
<1>3. tix' = tix \/ tix' = [tix EXCEPT ![t].st = s]
  <2>1. CASE tix[t].st = "done"
    BY <1>1, <2>1
  <2>2. CASE tix[t].st # "done"
    BY <1>1, <2>2, ChangesNothing DEF LessonInv
  <2> QED
    BY <2>1, <2>2
<1>4. Ticketed' /\ Len(tix') = Len(tix)
  BY <1>3, OneState DEF LessonInv
<1>5. RetroTyped(NoRetro, Len(tix'))
  BY <1>4, IdleRetro DEF LessonInv
<1> QED
  BY <1>2, <1>4, <1>5, RunMoves DEF Ends, LessonInv, Remembered

LEMMA MergeMemoryTyped == ASSUME LessonInv, NEW w \in Workers, MergeMemory(w) PROVE LessonInv'
<1>1. UNCHANGED <<tix, memory, deaths>> /\ retro[w].pc # "idle"
  BY DEF MergeMemory
<1>2. retro[w] \in RetroRec /\ RetroTyped(retro[w], Len(tix)) /\ memory \in Seq(Lessons)
  BY DEF LessonInv, RetrosTyped, Remembered
<1>3. ASSUME NEW f \in Seq(Lessons), NEW n \in Seq(Lessons), n # <<>> => f # <<>> /\ f[Len(f)] = n[Len(n)],
             Upd(w, [retro[w] EXCEPT !.pc = "write", !.file = f, !.new = n])
      PROVE  LessonInv'
  <2> DEFINE r == [retro[w] EXCEPT !.pc = "write", !.file = f, !.new = n]
  <2>1. /\ r \in RetroRec /\ r.t = retro[w].t /\ r.made = retro[w].made
        /\ r.pc = "write" /\ r.file = f /\ r.new = n
    BY <1>2 DEF RetroRec, RSteps
  <2> HIDE DEF r
  <2>2. RetroTyped(r, Len(tix))
    BY <1>1, <1>2, <1>3, <2>1 DEF RetroTyped
  <2> QED
    BY <1>1, <1>3, <2>2, RunMoves DEF r, LessonInv, Ticketed, Remembered
<1>4. CASE Upd(w, [retro[w] EXCEPT !.pc = "draft"])
  <2>1. [retro[w] EXCEPT !.pc = "draft"] = [retro[w] EXCEPT !.pc = "draft", !.left = retro[w].left]
    BY <1>2 DEF RetroRec
  <2>2. Ticketed' /\ Len(tix') = Len(tix)
    BY <1>1 DEF LessonInv, Ticketed
  <2>3. "draft" \in RSteps \ {"write", "idle"} /\ retro[w].left \in 0..MaxDrafts
    BY <1>2 DEF RetroRec, RSteps
  <2>4. Upd(w, [retro[w] EXCEPT !.pc = "draft", !.left = retro[w].left])
    BY <1>4, <2>1
  <2> QED
    BY <1>1, <2>2, <2>3, <2>4, MovesOn
<1>5. ASSUME NEW x \in Lessons, Upd(w, [retro[w] EXCEPT !.pc = "write", !.file = <<x>>, !.new = <<x>>])
      PROVE  LessonInv'
  <2>1. <<x>> \in Seq(Lessons) /\ <<x>> # <<>>
    OBVIOUS
  <2> QED
    BY <1>3, <1>5, <2>1
<1>6. ASSUME NEW x \in Lessons, Upd(w, [retro[w] EXCEPT !.pc = "write", !.file = Append(memory, x), !.new = <<x>>])
      PROVE  LessonInv'
  <2>1. Append(memory, x) \in Seq(Lessons) /\ Append(memory, x) # <<>> /\ <<x>> \in Seq(Lessons)
        /\ Append(memory, x)[Len(Append(memory, x))] = x /\ <<x>>[Len(<<x>>)] = x
    BY <1>2
  <2> QED
    BY <1>3, <1>6, <2>1
<1>7. ASSUME NEW i \in DOMAIN memory,
             Upd(w, [retro[w] EXCEPT !.pc = "write", !.new = <<>>,
                       !.file = SubSeq(memory, 1, i - 1) \o SubSeq(memory, i + 1, Len(memory))])
      PROVE  LessonInv'
  <2> DEFINE f == SubSeq(memory, 1, i - 1) \o SubSeq(memory, i + 1, Len(memory))
  <2>1. i \in 1..Len(memory) /\ Len(memory) \in Nat
    BY <1>2
  <2>2. \A j \in 1..(i - 1) : memory[j] \in Lessons
    BY <1>2, <2>1
  <2>3. \A j \in (i + 1)..Len(memory) : memory[j] \in Lessons
    BY <1>2, <2>1
  <2>4. SubSeq(memory, 1, i - 1) \in Seq(Lessons)
    BY <2>1, <2>2, SubSeqProperties
  <2>5. SubSeq(memory, i + 1, Len(memory)) \in Seq(Lessons)
    BY <2>1, <2>3, SubSeqProperties
  <2>6. f \in Seq(Lessons) /\ <<>> \in Seq(Lessons)
    BY <2>4, <2>5
  <2> HIDE DEF f
  <2>7. Upd(w, [retro[w] EXCEPT !.pc = "write", !.file = f, !.new = <<>>])
    BY <1>2, <1>7 DEF f, RetroRec
  <2> QED
    BY <1>3, <2>6, <2>7
<1> QED
  BY <1>4, <1>5, <1>6, <1>7 DEF MergeMemory

LEMMA WriteMemoryTyped == ASSUME LessonInv, NEW w \in Workers, WriteMemory(w) PROVE LessonInv'
<1>1. UNCHANGED <<tix, deaths>> /\ retro[w].pc = "write" /\ memory' = persist_memory(w)
  BY DEF WriteMemory
<1>2. retro[w] \in RetroRec /\ RetroTyped(retro[w], Len(tix))
  BY DEF LessonInv, RetrosTyped
<1>3. Remembered'
  <2>1. retro[w].file \in Seq(Lessons)
    BY <1>2 DEF RetroRec
  <2> QED
    BY <1>1, <2>1, TailKeeps DEF persist_memory, LessonInv, Remembered
<1> DEFINE r == [retro[w] EXCEPT !.pc = "draft", !.file = <<>>, !.new = <<>>]
<1>a. <<>> \in Seq(Lessons)
  OBVIOUS
<1>4. r \in RetroRec /\ r.t = retro[w].t /\ r.made = retro[w].made /\ r.pc = "draft"
  BY <1>2, <1>a DEF RetroRec, RSteps
<1>5. Upd(w, r)
  BY DEF WriteMemory
<1> HIDE DEF r
<1>6. RetroTyped(r, Len(tix))
  BY <1>1, <1>2, <1>4 DEF RetroTyped
<1> QED
  BY <1>1, <1>3, <1>5, <1>6, RunMoves DEF LessonInv, Ticketed

LEMMA CreateTyped ==
    ASSUME LessonInv, NEW w \in Workers, retro[w].pc # "idle", retro[w].left > 0, NEW x \in Titles,
           NEW b \in BOOLEAN, NEW n \in {"follow", "rule", "close"}, Create(w, x, b, n), memory' = memory, deaths' = deaths
    PROVE  LessonInv' /\ Len(tix') = Len(tix) + 1
<1>1. retro[w] \in RetroRec /\ RetroTyped(retro[w], Len(tix)) /\ Len(tix) \in Nat /\ tix \in Seq(Tix)
  BY DEF LessonInv, RetrosTyped, Ticketed
<1> DEFINE new == [title |-> x, source |-> "retrospect", st |-> "open", parent |-> 0, unmet |-> FALSE, rule |-> b]
           m == Len(tix) + 1
           l == retro[w].left - 1
           r == [retro[w] EXCEPT !.pc = "link", !.then = n, !.made = m, !.left = l]
<1>2. new \in Tix
  BY RetrospectConstants DEF Tix, TixStates
<1>3. tix' = Append(tix, new) /\ Upd(w, r) /\ Len(tix) < MaxTix
  BY DEF Create
<1> HIDE DEF new
<1>4. Ticketed' /\ Len(tix') = Len(tix) + 1
  BY <1>1, <1>2, <1>3, RetrospectConstants DEF Ticketed
<1>5. l \in 0..MaxDrafts /\ m \in Nat /\ m = Len(tix) + 1
  BY <1>1, RetrospectConstants DEF RetroRec
<1> HIDE DEF l, m
<1>6. r \in RetroRec /\ r.t = retro[w].t /\ r.made = m /\ r.pc = "link"
  BY <1>1, <1>5 DEF RetroRec, RSteps
<1> HIDE DEF r
<1>7. retro[w].t \in Nat /\ retro[w].t # 0
  BY <1>1 DEF RetroRec, RetroTyped
<1>8. RetroTyped(r, Len(tix'))
  BY <1>1, <1>4, <1>5, <1>6, <1>7 DEF RetroTyped
<1> QED
  BY <1>1, <1>3, <1>4, <1>8, RunMoves DEF LessonInv, Remembered

LEMMA set_parentTyped == ASSUME LessonInv, NEW w \in Workers, set_parent(w) PROVE LessonInv'
<1>1. retro[w] \in RetroRec /\ RetroTyped(retro[w], Len(tix)) /\ Len(tix) \in Nat /\ tix \in Seq(Tix)
      /\ Len(tix) <= MaxTix
  BY DEF LessonInv, RetrosTyped, Ticketed
<1> DEFINE m == retro[w].made
           t == retro[w].t
           r == [retro[w] EXCEPT !.pc = retro[w].then, !.made = 0]
<1>2. /\ tix' = [tix EXCEPT ![m].parent = t] /\ Upd(w, r) /\ UNCHANGED <<memory, deaths>>
      /\ retro[w].pc = "link"
  BY DEF set_parent
<1>3. t \in 0..MaxTix /\ m \in Nat
  BY <1>1, RetrospectConstants DEF RetroRec, RetroTyped
<1>4. r \in RetroRec /\ r.t = t /\ r.made = 0 /\ r.new = retro[w].new /\ r.file = retro[w].file
  BY <1>1 DEF RetroRec, RSteps
<1> HIDE DEF r, m, t
<1>5. Ticketed' /\ Len(tix') = Len(tix)
  <2>a. DOMAIN tix = 1..Len(tix) /\ \A i \in 1..Len(tix) : tix[i] \in Tix
    BY TicketsAre DEF LessonInv
  <2>b. \A i \in 1..Len(tix) : [tix[i] EXCEPT !.parent = t] \in Tix
    BY <1>3, <2>a DEF Tix
  <2>2. tix' \in [1..Len(tix) -> Tix]
    BY <1>2, <2>a, <2>b
  <2>3. tix' \in Seq(Tix) /\ Len(tix') = Len(tix)
    BY <1>1, <2>2
  <2> QED
    BY <1>1, <2>3 DEF Ticketed
<1>6. RetroTyped(r, Len(tix'))
  <2>1. r.t <= Len(tix') /\ r.made <= Len(tix')
    BY <1>1, <1>3, <1>4, <1>5 DEF RetroTyped, t
  <2>2. r.pc # "write" /\ (r.pc # "idle" => r.t # 0)
    BY <1>1, <1>2, <1>4 DEF RetroTyped, RetroRec, r, t
  <2> QED
    BY <1>4, <2>1, <2>2 DEF RetroTyped
<1> QED
  BY <1>1, <1>2, <1>5, <1>6, RunMoves DEF LessonInv, Remembered

LEMMA FollowUpTyped == ASSUME LessonInv, NEW w \in Workers, _maybe_spawn_follow_up(w) PROVE LessonInv'
<1>1. retro[w].pc = "follow" /\ UNCHANGED <<memory, deaths>>
  BY DEF _maybe_spawn_follow_up
<1>2. retro[w] \in RetroRec /\ Ticketed
  BY DEF LessonInv, RetrosTyped
<1>3. ASSUME Upd(w, [retro[w] EXCEPT !.pc = "rule"]), Ticketed', Len(tix') = Len(tix) PROVE LessonInv'
  <2>1. [retro[w] EXCEPT !.pc = "rule"] = [retro[w] EXCEPT !.pc = "rule", !.left = retro[w].left]
    BY <1>2 DEF RetroRec
  <2>2. "rule" \in RSteps \ {"write", "idle"} /\ retro[w].left \in 0..MaxDrafts
    BY <1>2 DEF RetroRec, RSteps
  <2>3. Upd(w, [retro[w] EXCEPT !.pc = "rule", !.left = retro[w].left])
    BY <1>3, <2>1
  <2> QED
    BY <1>1, <1>3, <2>2, <2>3, MovesOn
<1>4. CASE tix' = tix /\ Upd(w, [retro[w] EXCEPT !.pc = "rule"])
  BY <1>2, <1>3, <1>4 DEF Ticketed
<1>5. CASE /\ tix' = [tix EXCEPT ![_resolve_root(retro[w].t)].st =
                         IF @ \in {"open", "done"} THEN "human_issue_approval" ELSE @]
           /\ Upd(w, [retro[w] EXCEPT !.pc = "rule"])
  <2> DEFINE a == _resolve_root(retro[w].t)
  <2> HIDE DEF a
  <2>1. tix' = [tix EXCEPT ![a].st = IF @ \in {"open", "done"} THEN "human_issue_approval" ELSE @]
    BY <1>5 DEF a
  <2>2. tix' = tix \/ tix' = [tix EXCEPT ![a].st = "human_issue_approval"]
    <3>1. CASE tix[a].st \in {"open", "done"}
      BY <2>1, <3>1
    <3>2. CASE tix[a].st \notin {"open", "done"}
      BY <1>2, <2>1, <3>2, ChangesNothing
    <3> QED
      BY <3>1, <3>2
  <2>3. Ticketed' /\ Len(tix') = Len(tix)
    BY <1>2, <2>2, OneState DEF TixStates
  <2> QED
    BY <1>3, <1>5, <2>3
<1>6. ASSUME NEW x \in Titles, retro[w].left > 0, Create(w, x, FALSE, "rule") PROVE LessonInv'
  BY <1>1, <1>6, CreateTyped
<1> QED
  BY <1>4, <1>5, <1>6 DEF _maybe_spawn_follow_up

\* What the pipeline does to a ticket: a ticket that counts as open was open.
LEMMA PipelineTickets ==
    ASSUME LessonInv, Pipeline
    PROVE  /\ OnlyStates /\ Ticketed' /\ Len(tix') = Len(tix)
           /\ \A i \in 1..Len(tix) : tix'[i].st \notin {"done", "closed"} => tix[i].st \notin {"done", "closed"}
<1>1. Ticketed
  BY DEF LessonInv
<1>2. PICK i \in DOMAIN tix, s \in TixStates, u \in BOOLEAN :
          /\ tix' = [tix EXCEPT ![i].st = s, ![i].unmet = u]
          /\ tix[i].st \notin {"done", "closed"}
  <2>1. PICK i \in DOMAIN tix :
          \/ /\ tix[i].st = "open"
             /\ \E s \in {"done", "closed"}, u \in BOOLEAN :
                  tix' = [tix EXCEPT ![i].st = s, ![i].unmet = u]
          \/ tix[i].st \in {"blocked", "human_issue_approval"} /\ tix' = [tix EXCEPT ![i].st = "open"]
    BY DEF Pipeline
  <2>2. tix[i] \in Tix
    BY <1>1, TicketsAre
  <2>3. CASE tix[i].st = "open"
    BY <2>1, <2>3 DEF TixStates
  <2>4. CASE tix[i].st # "open"
    <3>1. [tix[i] EXCEPT !.st = "open"] = [tix[i] EXCEPT !.st = "open", !.unmet = tix[i].unmet]
          /\ tix[i].unmet \in BOOLEAN
      BY <2>2 DEF Tix
    <3>2. tix' = [tix EXCEPT ![i].st = "open"]
      BY <2>1, <2>4
    <3>3. tix' = [tix EXCEPT ![i] = [tix[i] EXCEPT !.st = "open"]]
      BY <3>2
    <3>4. tix' = [tix EXCEPT ![i] = [tix[i] EXCEPT !.st = "open", !.unmet = tix[i].unmet]]
      BY <3>1, <3>3
    <3>5. tix' = [tix EXCEPT ![i].st = "open", ![i].unmet = tix[i].unmet]
      BY <3>4
    <3> QED
      BY <2>1, <2>4, <3>1, <3>5 DEF TixStates
  <2> QED
    BY <2>3, <2>4
<1>3. \A j \in 1..Len(tix) : tix'[j] = IF j = i THEN [tix[j] EXCEPT !.st = s, !.unmet = u] ELSE tix[j]
  BY <1>1, <1>2, TicketsAre
<1>4. DOMAIN tix' = DOMAIN tix
  BY <1>2
<1>5. OnlyStates
  <2>1. ASSUME NEW j \in 1..Len(tix)
        PROVE  \E q \in TixStates, v \in BOOLEAN : tix'[j] = [tix[j] EXCEPT !.st = q, !.unmet = v]
    <3>1. tix[j] = [tix[j] EXCEPT !.st = tix[j].st, !.unmet = tix[j].unmet]
          /\ tix[j].st \in TixStates /\ tix[j].unmet \in BOOLEAN
      BY <1>1, TicketsAre DEF Tix
    <3> QED
      BY <1>3, <3>1
  <2> QED
    BY <1>1, <1>4, <2>1, TicketsAre DEF OnlyStates
<1>6. tix' = [j \in DOMAIN tix |-> tix'[j]]
  BY <1>2
<1> QED
  BY <1>1, <1>2, <1>3, <1>5, <1>6, SameTickets

LEMMA PipelineTyped == ASSUME LessonInv, Pipeline PROVE LessonInv'
<1>1. UNCHANGED <<memory, retro, deaths>>
  BY DEF Pipeline
<1>2. Ticketed' /\ Len(tix') = Len(tix)
  BY PipelineTickets
<1> QED
  BY <1>1, <1>2 DEF LessonInv, Remembered, RetrosTyped, RetroTyped

LEMMA DiesTyped == ASSUME LessonInv, Dies PROVE LessonInv'
<1>1. UNCHANGED <<tix, memory>> /\ retro' = [w \in Workers |-> NoRetro] /\ deaths' \in 0..MaxDeaths
  BY RetrospectConstants DEF LessonInv, Dies
<1>2. RetroTyped(NoRetro, Len(tix))
  BY IdleRetro DEF LessonInv
<1>3. NoRetro \in RetroRec
  BY <1>2 DEF RetroTyped
<1>4. RetrosTyped'
  BY <1>1, <1>2, <1>3 DEF RetrosTyped
<1> QED
  BY <1>1, <1>4 DEF LessonInv, Ticketed, Remembered

LEMMA LessonStep == ASSUME LessonInv, [RetroNext]_rvars PROVE LessonInv'
<1>1. CASE UNCHANGED rvars
  BY <1>1 DEF rvars, LessonInv, Ticketed, Remembered, RetrosTyped, RetroTyped
<1>2. ASSUME NEW w \in Workers, RetroRun(w) PROVE LessonInv'
  <2>0. retro[w] \in RetroRec /\ Ticketed
    BY DEF LessonInv, RetrosTyped
  <2>1. ASSUME NEW p \in RSteps \ {"write", "idle"}, Upd(w, [retro[w] EXCEPT !.pc = p]),
               retro[w].pc # "idle", UNCHANGED <<tix, memory, deaths>>
        PROVE  LessonInv'
    <3>1. [retro[w] EXCEPT !.pc = p] = [retro[w] EXCEPT !.pc = p, !.left = retro[w].left]
      BY <2>0 DEF RetroRec
    <3>2. retro[w].left \in 0..MaxDrafts
      BY <2>0 DEF RetroRec
    <3>3. Upd(w, [retro[w] EXCEPT !.pc = p, !.left = retro[w].left])
      BY <2>1, <3>1
    <3>4. Ticketed' /\ Len(tix') = Len(tix)
      BY <2>0, <2>1 DEF Ticketed
    <3> QED
      BY <2>1, <3>2, <3>3, <3>4, MovesOn
  <2>2. ASSUME Upd(w, NoRetro), UNCHANGED <<tix, memory, deaths>> PROVE LessonInv'
    BY <2>0, <2>2, IdleRetro, RunMoves, TicketsAre DEF LessonInv, Ticketed, Remembered
  <2>3. CASE Take(w)
    BY <2>3, TakeTyped
  <2>4. CASE Gate(w)
    BY <2>1, <2>4, EndsTyped DEF Gate, TixStates, RSteps
  <2>5. CASE AgentReturns(w)
    <3>1. MaxDrafts \in 0..MaxDrafts /\ "memory" \in RSteps \ {"write", "idle"}
      BY RetrospectConstants DEF RSteps
    <3>2. Ticketed' /\ Len(tix') = Len(tix) /\ UNCHANGED <<memory, deaths>>
      BY <2>0, <2>5 DEF AgentReturns, Ticketed
    <3> QED
      BY <2>5, <3>1, <3>2, MovesOn DEF AgentReturns
  <2>6. CASE AgentRaises(w)
    BY <2>2, <2>6, EndsTyped DEF AgentRaises, TixStates
  <2>7. CASE MergeMemory(w)
    BY <2>7, MergeMemoryTyped
  <2>8. CASE WriteMemory(w)
    BY <2>8, WriteMemoryTyped
  <2>9. CASE _maybe_spawn_draft(w)
    <3>1. ASSUME NEW x \in Titles, retro[w].left > 0, Create(w, x, FALSE, "follow") PROVE LessonInv'
      BY <2>9, <3>1, CreateTyped DEF _maybe_spawn_draft
    <3> QED
      BY <2>1, <2>9, <3>1 DEF _maybe_spawn_draft, RSteps
  <2>10. CASE _maybe_spawn_follow_up(w)
    BY <2>10, FollowUpTyped
  <2>11. CASE _maybe_spawn_agented_proposal_tickets(w)
    <3>1. ASSUME NEW x \in Titles, retro[w].left > 0, Create(w, x, TRUE, "close") PROVE LessonInv'
      BY <2>11, <3>1, CreateTyped DEF _maybe_spawn_agented_proposal_tickets
    <3> QED
      BY <2>1, <2>11, <3>1 DEF _maybe_spawn_agented_proposal_tickets, RSteps
  <2>12. CASE set_parent(w)
    BY <2>12, set_parentTyped
  <2>13. CASE Close(w)
    BY <2>13, EndsTyped DEF Close, TixStates
  <2> QED
    BY <1>2, <2>3, <2>4, <2>5, <2>6, <2>7, <2>8, <2>9, <2>10, <2>11, <2>12, <2>13 DEF RetroRun
<1> QED
  BY <1>1, <1>2, PipelineTyped, DiesTyped DEF RetroNext

LEMMA LessonStart == ASSUME RetroInit PROVE LessonInv /\ Len(tix) = 1 /\ tix[1].parent = 0
<1>1. PICK x \in Titles, s \in {"user", "retrospect"} :
        tix = <<[title |-> x, source |-> s, st |-> "open", parent |-> 0, unmet |-> FALSE, rule |-> FALSE]>>
  BY DEF RetroInit
<1> DEFINE first == [title |-> x, source |-> s, st |-> "open", parent |-> 0, unmet |-> FALSE, rule |-> FALSE]
<1>2. first \in Tix /\ first.parent = 0
  BY RetrospectConstants DEF Tix, TixStates
<1> HIDE DEF first
<1>3. tix = <<first>>
  BY <1>1 DEF first
<1>4. Ticketed /\ Len(tix) = 1 /\ tix[1].parent = 0
  BY <1>2, <1>3, RetrospectConstants DEF Ticketed
<1>5. memory = <<>> /\ deaths = 0 /\ retro = [w \in Workers |-> NoRetro]
  BY DEF RetroInit
<1>6. RetroTyped(NoRetro, Len(tix)) /\ NoRetro \in RetroRec
  BY <1>4, IdleRetro DEF RetroTyped
<1>7. RetrosTyped
  BY <1>5, <1>6 DEF RetrosTyped
<1>8. Remembered
  BY <1>5, RetrospectConstants DEF Remembered
<1> QED
  BY <1>4, <1>5, <1>7, <1>8, RetrospectConstants DEF LessonInv

\* The inductive invariant of the memory file and the runs.
THEOREM LessonInvariant == RetroSpec => []LessonInv
BY LessonStart, LessonStep, PTL DEF RetroSpec

\* Whatever the runs write into each other's memory file, a run's own newest
\* lesson is in the file it writes.
THEOREM NewestLessonIsAlwaysKept == RetroSpec => []NewestLessonIsKept
<1>1. LessonInv => NewestLessonIsKept
  <2> SUFFICES ASSUME LessonInv, NEW w \in Workers, retro[w].pc = "write", retro[w].new # <<>>
               PROVE  persist_memory(w)[Len(persist_memory(w))] = retro[w].new[Len(retro[w].new)]
    BY DEF NewestLessonIsKept
  <2>1. /\ retro[w].file \in Seq(Lessons) /\ retro[w].file # <<>>
        /\ retro[w].file[Len(retro[w].file)] = retro[w].new[Len(retro[w].new)]
    BY DEF LessonInv, RetrosTyped, RetroTyped, RetroRec
  <2> QED
    BY <2>1, TailKeeps DEF persist_memory
<1> QED
  BY <1>1, LessonInvariant, PTL

\* One retrospect of a board at a time.
OneRetrospect == \A v, w \in Workers : v = w

AncestorsExist == \A i \in 1..Len(tix) : tix[i].parent <= Len(tix)

\* A run that has made a follow-up or a rule: no generation above its ticket
\* states the criterion, and no open ticket has the title.
NotAbove(t, x) == \A a \in Above(t) : tix[a].source = "retrospect" /\ ~tix[a].rule => ~Similar(tix[a].title, x)

NoOther(m) ==
  \A i \in 1..Len(tix) : i # m /\ tix[i].st \notin {"done", "closed"}
                         => <<tix[i].title, tix[i].rule>> # <<tix[m].title, tix[m].rule>>

LinkSound ==
  \A w \in Workers :
    retro[w].pc = "link" =>
      /\ retro[w].made \in 1..Len(tix)
      /\ retro[w].then = "rule" => NotAbove(retro[w].t, tix[retro[w].made].title)
      /\ retro[w].then \in {"rule", "close"} => NoOther(retro[w].made)

RetroInv == LessonInv /\ AncestorsExist /\ LinkSound

LEMMA AboveExists ==
    ASSUME LessonInv, AncestorsExist, NEW t \in 1..Len(tix)
    PROVE  Above(t) \subseteq 1..Len(tix)
<1>1. \A i \in 1..Len(tix) : tix[i].parent \in Nat /\ tix[i].parent <= Len(tix)
  BY TicketsAre, RetrospectConstants DEF LessonInv, AncestorsExist, Tix
<1>2. \A i \in 1..Len(tix) : tix[i].parent # 0 => tix[i].parent \in 1..Len(tix)
  BY <1>1, TicketsAre DEF LessonInv
<1> QED
  BY <1>1, <1>2 DEF Above

\* A run that does not link and makes nothing.
LEMMA SameParents ==
    ASSUME LessonInv, OnlyStates, NEW i \in 1..Len(tix)
    PROVE  /\ tix'[i].parent = tix[i].parent /\ tix'[i].title = tix[i].title
           /\ tix'[i].source = tix[i].source /\ tix'[i].rule = tix[i].rule
<1>1. i \in DOMAIN tix /\ tix[i] \in Tix
  BY TicketsAre DEF LessonInv
<1>2. PICK s \in TixStates, u \in BOOLEAN : tix'[i] = [tix[i] EXCEPT !.st = s, !.unmet = u]
  BY <1>1 DEF OnlyStates
<1> QED
  BY <1>1, <1>2 DEF Tix

LEMMA NothingMade ==
    ASSUME OneRetrospect, RetroInv, LessonInv', OnlyStates, Len(tix') = Len(tix), NEW w \in Workers,
           retro'[w].pc # "link"
    PROVE  RetroInv'
<1>1. LinkSound'
  BY DEF OneRetrospect, LinkSound
<1>2. \A i \in 1..Len(tix) : tix'[i].parent = tix[i].parent
  BY SameParents DEF RetroInv
<1> QED
  BY <1>1, <1>2 DEF RetroInv, AncestorsExist

LEMMA SameOnly == ASSUME LessonInv, tix' = tix PROVE OnlyStates
<1>1. \A i \in 1..Len(tix) : tix[i] = [tix[i] EXCEPT !.st = tix[i].st, !.unmet = tix[i].unmet]
                              /\ tix[i].st \in TixStates /\ tix[i].unmet \in BOOLEAN
  BY TicketsAre DEF LessonInv, Tix
<1>2. DOMAIN tix = 1..Len(tix)
  BY TicketsAre DEF LessonInv
<1> QED
  BY <1>1, <1>2 DEF OnlyStates

LEMMA Updated ==
    ASSUME LessonInv, NEW w \in Workers, NEW r, Upd(w, r)
    PROVE  retro'[w] = r
BY DEF Upd, LessonInv, RetrosTyped

LEMMA EndsSound ==
    ASSUME OneRetrospect, RetroInv, NEW w \in Workers, NEW s \in TixStates, Ends(w, s)
    PROVE  RetroInv'
<1> DEFINE t == retro[w].t
<1>1. tix' = [tix EXCEPT ![t].st = IF @ = "done" THEN s ELSE @]
  BY DEF Ends
<1> HIDE DEF t
<1>2. tix' = tix \/ tix' = [tix EXCEPT ![t].st = s]
  <2>1. CASE tix[t].st = "done"
    BY <1>1, <2>1
  <2>2. CASE tix[t].st # "done"
    BY <1>1, <2>2, ChangesNothing DEF RetroInv, LessonInv
  <2> QED
    BY <2>1, <2>2
<1>3. OnlyStates /\ Len(tix') = Len(tix)
  BY <1>2, OneState DEF RetroInv, LessonInv
<1>4. retro'[w].pc = "idle"
  BY Updated DEF Ends, RetroInv, NoRetro
<1>5. LessonInv'
  BY EndsTyped DEF RetroInv
<1> QED
  BY <1>3, <1>4, <1>5, NothingMade

\* A run makes a ticket it may make.
LEMMA CreateSound ==
    ASSUME OneRetrospect, RetroInv, NEW w \in Workers, retro[w].pc # "idle", retro[w].left > 0, NEW x \in Titles,
           NEW b \in BOOLEAN, NEW n \in {"follow", "rule", "close"}, Create(w, x, b, n),
           memory' = memory, deaths' = deaths,
           n = "rule" => NotAbove(retro[w].t, x),
           n \in {"rule", "close"} => ~IsOpen(x, b)
    PROVE  RetroInv'
<1> DEFINE new == [title |-> x, source |-> "retrospect", st |-> "open", parent |-> 0, unmet |-> FALSE, rule |-> b]
<1>0. PICK m \in Nat : m = Len(tix) + 1
  BY TicketsAre DEF RetroInv, LessonInv
<1>1. LessonInv' /\ Len(tix') = m
  BY <1>0, CreateTyped DEF RetroInv
<1>2. tix' = Append(tix, new)
  BY DEF Create
<1>3. new.title = x /\ new.rule = b /\ new.parent = 0
  OBVIOUS
<1>4. retro[w] \in RetroRec /\ retro[w].t \in 1..Len(tix) /\ Len(tix) \in Nat
  BY TicketsAre DEF RetroInv, LessonInv, RetrosTyped, RetroTyped, RetroRec
<1> HIDE DEF new
<1>5. /\ \A i \in 1..Len(tix) : tix'[i] = tix[i]
      /\ tix'[m] = new
  BY <1>0, <1>2, <1>4 DEF RetroInv, LessonInv, Ticketed
<1>6. /\ retro'[w].t = retro[w].t /\ retro'[w].made = m
      /\ retro'[w].then = n
  <2> DEFINE r == [retro[w] EXCEPT !.pc = "link", !.then = n, !.made = Len(tix) + 1, !.left = @ - 1]
  <2>1. retro'[w] = r
    BY Updated DEF Create, RetroInv
  <2>2. r.t = retro[w].t /\ r.made = m /\ r.then = n
    BY <1>0, <1>4 DEF RetroRec
  <2> QED
    BY <2>1, <2>2
<1>7. m = Len(tix) + 1 /\ m \in 1..Len(tix')
  BY <1>0, <1>1, <1>4
<1>8. AncestorsExist'
  <2> SUFFICES ASSUME NEW i \in 1..Len(tix') PROVE tix'[i].parent <= Len(tix')
    BY DEF AncestorsExist
  <2>1. CASE i = m
    BY <1>1, <1>3, <1>4, <1>5, <1>7, <2>1
  <2>2. CASE i # m
    <3>1. i \in 1..Len(tix)
      BY <1>1, <1>4, <1>7, <2>2
    <3>2. tix[i].parent \in Nat /\ tix[i].parent <= Len(tix)
      BY <3>1, TicketsAre, RetrospectConstants DEF RetroInv, LessonInv, AncestorsExist, Tix
    <3> QED
      BY <1>1, <1>4, <1>5, <1>7, <3>1, <3>2
  <2> QED
    BY <2>1, <2>2
<1>9. n = "rule" => NotAbove(retro[w].t, x)'
  <2>1. Above(retro[w].t) \subseteq 1..Len(tix)
    BY <1>4, AboveExists DEF RetroInv
  <2>2. tix[retro[w].t].parent = 0 \/ tix[retro[w].t].parent \in 1..Len(tix)
    BY <1>4, TicketsAre, RetrospectConstants DEF RetroInv, LessonInv, AncestorsExist, Tix
  <2>3. Above(retro[w].t)' = Above(retro[w].t)
    BY <1>4, <1>5, <1>6, <2>2 DEF Above
  <2>4. \A a \in Above(retro[w].t) : tix'[a] = tix[a]
    BY <1>5, <2>1
  <2> QED
    BY <1>6, <2>3, <2>4 DEF NotAbove
<1>10. n \in {"rule", "close"} => NoOther(m)'
  <2> SUFFICES ASSUME n \in {"rule", "close"}, NEW i \in 1..Len(tix'), i # m,
                      tix'[i].st \notin {"done", "closed"}
               PROVE  <<tix'[i].title, tix'[i].rule>> # <<tix'[m].title, tix'[m].rule>>
    BY DEF NoOther
  <2>1. i \in 1..Len(tix) /\ tix'[i] = tix[i]
    BY <1>1, <1>4, <1>5, <1>7
  <2>2. i \in DOMAIN tix
    BY <2>1, TicketsAre DEF RetroInv, LessonInv
  <2>3. ~(tix[i].title = x /\ tix[i].rule = b)
    BY <2>1, <2>2 DEF IsOpen
  <2> QED
    BY <1>3, <1>5, <2>1, <2>3
<1>11. LinkSound'
  <2>1. \A v \in Workers : retro'[v] = retro'[w]
    BY DEF OneRetrospect
  <2>2. n = "rule" => NotAbove(retro[w].t, tix[retro[w].made].title)'
    BY <1>3, <1>5, <1>6, <1>9
  <2>3. n \in {"rule", "close"} => NoOther(retro[w].made)'
    BY <1>5, <1>6, <1>10 DEF NoOther
  <2> QED
    BY <1>6, <1>7, <2>1, <2>2, <2>3 DEF LinkSound
<1> QED
  BY <1>1, <1>8, <1>11 DEF RetroInv

LEMMA set_parentSound == ASSUME OneRetrospect, RetroInv, NEW w \in Workers, set_parent(w) PROVE RetroInv'
<1>1. LessonInv'
  BY set_parentTyped DEF RetroInv
<1>2. retro[w] \in RetroRec /\ retro[w].t \in Nat /\ retro[w].t <= Len(tix)
  BY DEF RetroInv, LessonInv, RetrosTyped, RetroTyped, RetroRec
<1>3. retro'[w].pc # "link"
  <2>1. retro'[w] = [retro[w] EXCEPT !.pc = retro[w].then, !.made = 0]
    BY Updated DEF set_parent, RetroInv
  <2> QED
    BY <1>2, <2>1 DEF RetroRec
<1>4. LinkSound'
  BY <1>3 DEF OneRetrospect, LinkSound
<1>5. tix' = [tix EXCEPT ![retro[w].made].parent = retro[w].t]
  BY DEF set_parent
<1>6. Len(tix') = Len(tix) /\ \A i \in 1..Len(tix) : tix'[i].parent \in {tix[i].parent, retro[w].t}
  <2>1. DOMAIN tix = 1..Len(tix) /\ Len(tix) \in Nat
    BY TicketsAre DEF RetroInv, LessonInv
  <2>2. DOMAIN tix' = 1..Len(tix') /\ Len(tix') \in Nat
    BY <1>1 DEF LessonInv, Ticketed
  <2>3. Len(tix') = Len(tix)
    BY <1>5, <2>1, <2>2
  <2>4. \A i \in 1..Len(tix) : tix[i] \in Tix
    BY TicketsAre DEF RetroInv, LessonInv
  <2>5. \A i \in 1..Len(tix) : tix'[i] = tix[i] \/ tix'[i] = [tix[i] EXCEPT !.parent = retro[w].t]
    BY <1>5, <2>1
  <2> QED
    BY <2>3, <2>4, <2>5 DEF Tix
<1>7. AncestorsExist'
  BY <1>2, <1>6 DEF RetroInv, AncestorsExist
<1> QED
  BY <1>1, <1>4, <1>7 DEF RetroInv

\* While a run links the ticket it has made, the pipeline moves others.
LEMMA PipelineSound == ASSUME RetroInv, Pipeline PROVE RetroInv'
<1>1. /\ LessonInv' /\ OnlyStates /\ Len(tix') = Len(tix) /\ retro' = retro
      /\ \A i \in 1..Len(tix) : tix'[i].st \notin {"done", "closed"} => tix[i].st \notin {"done", "closed"}
  BY PipelineTyped, PipelineTickets DEF RetroInv, Pipeline
<1>2. \A i \in 1..Len(tix) :
        /\ tix'[i].parent = tix[i].parent /\ tix'[i].title = tix[i].title
        /\ tix'[i].source = tix[i].source /\ tix'[i].rule = tix[i].rule
  BY <1>1, SameParents DEF RetroInv
<1>3. AncestorsExist'
  BY <1>1, <1>2 DEF RetroInv, AncestorsExist
<1>4. ASSUME NEW w \in Workers, retro[w].pc = "link"
      PROVE  /\ retro[w].then = "rule" => NotAbove(retro[w].t, tix[retro[w].made].title)'
             /\ retro[w].then \in {"rule", "close"} => NoOther(retro[w].made)'
             /\ retro[w].made \in 1..Len(tix)
  <2> DEFINE t == retro[w].t
             m == retro[w].made
  <2>1. t \in 1..Len(tix) /\ m \in 1..Len(tix)
    BY <1>4, TicketsAre DEF RetroInv, LessonInv, RetrosTyped, RetroTyped, RetroRec, LinkSound
  <2>2. Above(t) \subseteq 1..Len(tix)
    BY <2>1, AboveExists DEF RetroInv
  <2>3. tix[t].parent = 0 \/ tix[t].parent \in 1..Len(tix)
    BY <2>1, TicketsAre, RetrospectConstants DEF RetroInv, LessonInv, AncestorsExist, Tix
  <2>4. Above(t)' = Above(t)
    BY <1>1, <1>2, <2>1, <2>3 DEF Above
  <2>5. retro[w].then = "rule" => NotAbove(t, tix[m].title)
    BY <1>4 DEF RetroInv, LinkSound
  <2>6. retro[w].then \in {"rule", "close"} => NoOther(m)
    BY <1>4 DEF RetroInv, LinkSound
  <2>7. retro[w].then = "rule" => NotAbove(t, tix[m].title)'
    BY <1>1, <1>2, <2>1, <2>2, <2>4, <2>5 DEF NotAbove
  <2>8. retro[w].then \in {"rule", "close"} => NoOther(m)'
    BY <1>1, <1>2, <2>1, <2>6 DEF NoOther
  <2> QED
    BY <2>1, <2>7, <2>8
<1>5. LinkSound'
  BY <1>1, <1>4 DEF LinkSound
<1> QED
  BY <1>1, <1>3, <1>5 DEF RetroInv

LEMMA RetroStep == ASSUME OneRetrospect, RetroInv, [RetroNext]_rvars PROVE RetroInv'
<1>0. LessonInv /\ LessonInv'
  BY LessonStep DEF RetroInv
<1>1. CASE UNCHANGED rvars
  BY <1>1, <1>0 DEF rvars, RetroInv, AncestorsExist, LinkSound, NotAbove, NoOther, Above
<1>2. ASSUME NEW w \in Workers, RetroRun(w) PROVE RetroInv'
  <2>0. retro[w] \in RetroRec /\ Len(tix) \in Nat
    BY <1>0 DEF LessonInv, RetrosTyped, Ticketed
  <2>1. ASSUME NEW r \in RetroRec, Upd(w, r), r.pc # "link", tix' = tix PROVE RetroInv'
    <3>1. retro'[w].pc # "link" /\ OnlyStates /\ Len(tix') = Len(tix)
      BY <1>0, <2>1, Updated, SameOnly
    <3> QED
      BY <1>0, <3>1, NothingMade
  <2>2. ASSUME NEW p \in RSteps \ {"link"}, Upd(w, [retro[w] EXCEPT !.pc = p]), tix' = tix PROVE RetroInv'
    <3>1. [retro[w] EXCEPT !.pc = p] \in RetroRec /\ [retro[w] EXCEPT !.pc = p].pc # "link"
      BY <2>0 DEF RetroRec
    <3> QED
      BY <2>1, <2>2, <3>1
  <2>a. NoRetro \in RetroRec /\ NoRetro.pc # "link"
    BY <1>0, IdleRetro DEF LessonInv, RetroTyped, NoRetro
  <2>3. ASSUME retro'[w].pc # "link", tix' = tix PROVE RetroInv'
    BY <1>0, <2>3, SameOnly, NothingMade
  <2>4. CASE Take(w)
    <3>1. PICK t : Upd(w, [NoRetro EXCEPT !.pc = "gate", !.t = t])
      BY <2>4 DEF Take
    <3>2. retro'[w].pc = "gate"
      BY <1>0, <2>a, <3>1, Updated DEF RetroRec
    <3> QED
      BY <2>3, <2>4, <3>2 DEF Take
  <2>5. CASE Gate(w)
    BY <2>2, <2>5, EndsSound DEF Gate, TixStates, RSteps
  <2>6. CASE AgentReturns(w)
    <3>1. retro'[w] = [retro[w] EXCEPT !.pc = "memory", !.left = MaxDrafts]
      BY <1>0, <2>6, Updated DEF AgentReturns
    <3> QED
      BY <2>0, <2>3, <2>6, <3>1 DEF AgentReturns, RetroRec
  <2>7. CASE AgentRaises(w)
    BY <2>1, <2>7, <2>a, EndsSound DEF AgentRaises, TixStates
  <2>8. CASE MergeMemory(w)
    <3>1. \/ retro'[w] = [retro[w] EXCEPT !.pc = "draft"]
          \/ \E f, n : retro'[w] = [retro[w] EXCEPT !.pc = "write", !.file = f, !.new = n]
          \/ \E f : retro'[w] = [retro[w] EXCEPT !.pc = "write", !.new = <<>>, !.file = f]
      BY <1>0, <2>8, Updated DEF MergeMemory
    <3>2. retro'[w].pc \in {"draft", "write"}
      BY <2>0, <3>1 DEF RetroRec
    <3> QED
      BY <2>3, <2>8, <3>2 DEF MergeMemory
  <2>9. CASE WriteMemory(w)
    <3>1. retro'[w] = [retro[w] EXCEPT !.pc = "draft", !.file = <<>>, !.new = <<>>]
      BY <1>0, <2>9, Updated DEF WriteMemory
    <3> QED
      BY <2>0, <2>3, <2>9, <3>1 DEF WriteMemory, RetroRec
  <2>10. CASE _maybe_spawn_draft(w)
    <3>1. ASSUME NEW x \in Titles, retro[w].left > 0, Create(w, x, FALSE, "follow") PROVE RetroInv'
      BY <2>10, <3>1, CreateSound DEF _maybe_spawn_draft
    <3> QED
      BY <2>2, <2>10, <3>1 DEF _maybe_spawn_draft, RSteps
  <2>11. CASE _maybe_spawn_follow_up(w)
    <3>1. ASSUME NEW x \in Titles, retro[w].left > 0, ~_follow_up_chain_guard(retro[w].t, x), ~IsOpen(x, FALSE),
                 Create(w, x, FALSE, "rule")
          PROVE  RetroInv'
      <4>1. NotAbove(retro[w].t, x)
        BY <3>1 DEF NotAbove, _follow_up_chain_guard
      <4> QED
        BY <2>11, <3>1, <4>1, CreateSound DEF _maybe_spawn_follow_up
    <3>2. CASE Upd(w, [retro[w] EXCEPT !.pc = "rule"])
      <4>1. retro'[w] = [retro[w] EXCEPT !.pc = "rule"]
        BY <1>0, <3>2, Updated
      <4>2. retro'[w].pc = "rule"
        BY <2>0, <4>1 DEF RetroRec
      <4>3. CASE tix' = tix
        BY <2>3, <4>2, <4>3
      <4>4. CASE tix' = [tix EXCEPT ![_resolve_root(retro[w].t)].st =
                           IF @ \in {"open", "done"} THEN "human_issue_approval" ELSE @]
        <5> DEFINE a == _resolve_root(retro[w].t)
        <5>1. tix' = [tix EXCEPT ![a].st = IF @ \in {"open", "done"} THEN "human_issue_approval" ELSE @]
          BY <4>4
        <5> HIDE DEF a
        <5>2. tix' = tix \/ tix' = [tix EXCEPT ![a].st = "human_issue_approval"]
          <6>1. CASE tix[a].st \in {"open", "done"}
            BY <5>1, <6>1
          <6>2. CASE tix[a].st \notin {"open", "done"}
            BY <1>0, <5>1, <6>2, ChangesNothing DEF LessonInv
          <6> QED
            BY <6>1, <6>2
        <5>3. OnlyStates /\ Len(tix') = Len(tix)
          BY <1>0, <5>2, OneState DEF LessonInv, TixStates
        <5> QED
          BY <1>0, <4>2, <5>3, NothingMade
      <4>5. tix' = tix \/ tix' = [tix EXCEPT ![_resolve_root(retro[w].t)].st =
                                     IF @ \in {"open", "done"} THEN "human_issue_approval" ELSE @]
            \/ \E x \in Titles : retro[w].left > 0 /\ ~_follow_up_chain_guard(retro[w].t, x) /\ ~IsOpen(x, FALSE)
                                 /\ Create(w, x, FALSE, "rule")
        BY <2>11 DEF _maybe_spawn_follow_up
      <4> QED
        BY <3>1, <4>3, <4>4, <4>5
    <3> QED
      BY <2>11, <3>1, <3>2 DEF _maybe_spawn_follow_up
  <2>12. CASE _maybe_spawn_agented_proposal_tickets(w)
    <3>1. ASSUME NEW x \in Titles, retro[w].left > 0, ~IsOpen(x, TRUE), Create(w, x, TRUE, "close") PROVE RetroInv'
      BY <2>12, <3>1, CreateSound DEF _maybe_spawn_agented_proposal_tickets
    <3> QED
      BY <2>2, <2>12, <3>1 DEF _maybe_spawn_agented_proposal_tickets, RSteps
  <2>13. CASE set_parent(w)
    BY <2>13, set_parentSound
  <2>14. CASE Close(w)
    BY <2>14, EndsSound DEF Close, TixStates
  <2> QED
    BY <1>2, <2>4, <2>5, <2>6, <2>7, <2>8, <2>9, <2>10, <2>11, <2>12, <2>13, <2>14 DEF RetroRun
<1>3. CASE Dies
  <2>1. tix' = tix /\ \A w \in Workers : retro'[w] = NoRetro
    BY <1>3 DEF Dies
  <2>2. AncestorsExist'
    BY <2>1 DEF RetroInv, AncestorsExist
  <2>3. LinkSound'
    BY <2>1 DEF LinkSound, NoRetro
  <2> QED
    BY <1>0, <2>2, <2>3 DEF RetroInv
<1> QED
  BY <1>1, <1>2, <1>3, PipelineSound DEF RetroNext

\* The inductive invariant of what a retrospect files.
THEOREM RetrospectInvariant == ASSUME OneRetrospect PROVE RetroSpec => []RetroInv
<1>1. RetroInit => RetroInv
  <2> SUFFICES ASSUME RetroInit PROVE RetroInv
    OBVIOUS
  <2>1. LessonInv /\ Len(tix) = 1 /\ tix[1].parent = 0
    BY LessonStart
  <2>2. \A w \in Workers : retro[w].pc # "link"
    BY DEF RetroInit, NoRetro
  <2> QED
    BY <2>1, <2>2 DEF RetroInv, AncestorsExist, LinkSound
<1> QED
  BY <1>1, RetroStep, PTL DEF RetroSpec

\* With one retrospect at a time, no chain of follow-ups states a criterion a
\* third time, nothing is filed while an open ticket has its title, and the cap
\* forgets the oldest lesson first; also where a restart leaves a ticket unlinked.
THEOREM RetrospectsAreSound == ASSUME OneRetrospect PROVE RetroSpec => []RetrospectIsSound
<1>1. RetroInv /\ NewestLessonIsKept => RetrospectIsSound
  <2> SUFFICES ASSUME RetroInv, NewestLessonIsKept PROVE RetrospectIsSound
    OBVIOUS
  <2>1. TixTypeOK
    <3>1. ASSUME NEW w \in Workers
          PROVE  /\ retro[w].pc \in RSteps /\ retro[w].t \in 0..Len(tix)
                 /\ retro[w].left \in 0..MaxDrafts /\ retro[w].made \in 0..Len(tix)
      BY TicketsAre DEF RetroInv, LessonInv, RetrosTyped, RetroTyped, RetroRec
    <3> QED
      BY <3>1 DEF RetroInv, LessonInv, Ticketed, Remembered, TixTypeOK
  <2>2. CriterionComesBackOnce
    BY DEF RetroInv, LinkSound, NotAbove, CriterionComesBackOnce
  <2>3. OneOpenFollowUp
    <3>1. DOMAIN tix = 1..Len(tix)
      BY TicketsAre DEF RetroInv, LessonInv
    <3> QED
      BY <3>1 DEF RetroInv, LinkSound, NoOther, OneOpenFollowUp
  <2> QED
    BY <2>1, <2>2, <2>3 DEF RetrospectIsSound
<1> QED
  BY <1>1, RetrospectInvariant, NewestLessonIsAlwaysKept, PTL

=============================================================================
