-------------------------- MODULE ImplementProofs --------------------------
(***************************************************************************)
(* The budgets of the implement stage, for any limits, specs and summaries *)
(* and any number of kills and timeouts.  The limits are compared with     *)
(* numbers that the stage keeps in files, so the inductive invariant says  *)
(* how far a file may be from the history it stands for: what a run that   *)
(* is on its way, or that was killed, still owes the spawn counter         *)
(* (Account), and that the stall and zero-diff counts are never behind the *)
(* runs they count (Stalls, Zeros).                                        *)
(*                                                                         *)
(* The second half is the fix loop inside a run, for any tickets, files,   *)
(* limits and concurrency.  Its two safety properties speak of a run that  *)
(* has ended; the inductive invariant says where a pass may be when the    *)
(* branch is known to be in scope (InScope), and, with one stage at a      *)
(* time, that the counter all loops share is the one of the only loop that *)
(* runs (Alone, Owned).                                                    *)
(***************************************************************************)
EXTENDS ImplementBudget, ImplementLoop, FiniteSetTheorems, TLAPS

ArtType ==
  [count : 0..SpawnLimit, marker : {"none", "counted", "free"},
   exhaustedOn : Specs \cup {None}, exhausted : 0..2,
   md : {"none", "passed", "transient", "blocked"}, mdSpec : Specs \cup {None},
   mdSum : Summaries \cup {None}, mdStall : 0..StallLimit,
   ssSum : Summaries \cup {None}, ssStall : 0..StallLimit,
   zd : 0..ZeroLimit, asked : BOOLEAN, override : Specs \cup {None}]

RunType ==
  [pc : {"idle", "absorb", "unmark", "check", "count", "mark", "agent", "clear", "apply"},
   charged : BOOLEAN, dst : {"blocked", "awaiting", "ready", "later"}]

HistType ==
  [ran : Nat, sum : Summaries \cup {None}, same : Nat, zero : Nat,
   faults : 0..MaxFaults, extra : 0..MaxFaults, granted : BOOLEAN]

Types ==
  /\ ist \in {"ready", "blocked", "awaiting", "later"}
  /\ retry \in BOOLEAN /\ spec \in Specs /\ late \in BOOLEAN
  /\ art \in ArtType /\ run \in RunType /\ hist \in HistType
  /\ hist.extra <= hist.faults

\* A run belongs to a READY ticket; its marker is gone before a next run is
\* checked, and outlives a run only when it was killed or timed out.
Runs ==
  /\ ist # "ready" => run.pc = "idle"
  /\ ist = "later" => art.marker = "none"
  /\ run.pc \in {"check", "count", "mark", "apply"} => art.marker = "none"
  /\ run.pc \in {"agent", "clear"} =>
       art.marker = "none" \/ (art.marker = "counted" <=> run.charged)

\* A charged run that has not ended, or a marker that will be refunded.
Owes ==
  \/ run.pc \in {"mark", "agent", "clear"} /\ run.charged
  \/ run.pc \in {"idle", "absorb"} /\ art.marker = "counted"

Started == run.pc \in {"count", "mark", "agent"}

Account ==
  /\ hist.ran <= art.count + hist.extra
  /\ Owes => hist.ran + 1 <= art.count + hist.extra
  /\ run.pc = "count" => art.count < SpawnLimit

Stalls ==
  /\ art.md # "none" => art.mdSum = art.ssSum /\ art.mdStall = art.ssStall
  /\ hist.same > 0 => hist.sum = art.ssSum /\ hist.same <= art.ssStall + 1
  /\ Started => hist.same <= StallLimit

Zeros ==
  /\ hist.zero <= art.zd
  /\ Started => hist.zero < ZeroLimit

Grants ==
  /\ hist.granted =>
       /\ ist = "ready" /\ run.pc \in {"idle", "absorb", "unmark", "check"}
       /\ art.count < SpawnLimit /\ art.md = "none" /\ art.ssStall = 0
       /\ art.zd < ZeroLimit \/ art.asked
  /\ ist = "awaiting" /\ art.asked => art.count < SpawnLimit
  /\ run.pc \in {"clear", "apply"} /\ run.dst = "awaiting" => ~art.asked

BInv == Types /\ Runs /\ Account /\ Stalls /\ Zeros /\ Grants

-----------------------------------------------------------------------------
(* The operators on the artifact files. *)

LEMMA Limits ==
  /\ SpawnLimit \in Nat /\ SpawnLimit > 0 /\ StallLimit \in Nat /\ StallLimit > 0
  /\ ZeroLimit \in Nat /\ ZeroLimit > 0 /\ MaxFaults \in Nat
  BY ImplementBudgetConstants

LEMMA StallCountType ==
  ASSUME NEW a \in ArtType, NEW kind, NEW sum
  PROVE  stall_count(a, kind, sum) \in 0..StallLimit
<1> DEFINE old == IF a.md # "none" THEN a.mdStall ELSE a.ssStall
<1>1. old \in 0..StallLimit
  BY DEF ArtType
<1> HIDE DEF old
<1>2. Cap(old + 1, StallLimit) \in 0..StallLimit /\ 0 \in 0..StallLimit
  BY <1>1, Limits DEF Cap
<1>3. stall_count(a, kind, sum) \in {old, 0, Cap(old + 1, StallLimit)}
  BY DEF stall_count, old
<1> QED BY <1>1, <1>2, <1>3

LEMMA ZeroCountType ==
  ASSUME NEW a \in ArtType, NEW kind, NEW diff
  PROVE  zero_diff_count(a, kind, diff) \in 0..ZeroLimit
<1>1. a.zd \in 0..ZeroLimit
  BY DEF ArtType
<1>2. Cap(a.zd + 1, ZeroLimit) \in 0..ZeroLimit /\ 0 \in 0..ZeroLimit
  BY <1>1, Limits DEF Cap
<1>3. zero_diff_count(a, kind, diff) \in {a.zd, 0, Cap(a.zd + 1, ZeroLimit)}
  BY DEF zero_diff_count
<1> QED BY <1>1, <1>2, <1>3

\* The files a finished run leaves.
LEMMA Finalized ==
  ASSUME NEW a \in ArtType, NEW kind \in Kinds, NEW sum \in Summaries, NEW diff \in BOOLEAN,
         spec \in Specs
  PROVE  /\ finalize(a, kind, sum, diff) \in ArtType
         /\ finalize(a, kind, sum, diff).count = a.count
         /\ finalize(a, kind, sum, diff).marker = a.marker
         /\ finalize(a, kind, sum, diff).md # "none"
         /\ finalize(a, kind, sum, diff).mdSum = sum
         /\ finalize(a, kind, sum, diff).ssSum = sum
         /\ finalize(a, kind, sum, diff).mdStall = stall_count(a, kind, sum)
         /\ finalize(a, kind, sum, diff).ssStall = stall_count(a, kind, sum)
         /\ finalize(a, kind, sum, diff).zd = zero_diff_count(a, kind, diff)
         /\ finalize(a, kind, sum, diff).asked = (a.asked /\ kind = "transient")
<1> DEFINE md == CASE kind = "ok" -> "passed" [] kind = "transient" -> kind [] OTHER -> "blocked"
           mdSpec == IF kind \in {"ok", "failed"} THEN spec ELSE None
           stall == stall_count(a, kind, sum)
           zd == zero_diff_count(a, kind, diff)
           asked == a.asked /\ kind = "transient"
<1>1. md \in {"passed", "transient", "blocked"} /\ mdSpec \in Specs \cup {None}
  OBVIOUS
<1>2. stall \in 0..StallLimit /\ zd \in 0..ZeroLimit /\ asked \in BOOLEAN
  BY StallCountType, ZeroCountType
<1>3. finalize(a, kind, sum, diff) =
        [a EXCEPT !.md = md, !.mdSpec = mdSpec, !.mdSum = sum, !.mdStall = stall,
                  !.ssSum = sum, !.ssStall = stall, !.zd = zd, !.asked = a.asked /\ kind = "transient"]
  BY DEF finalize
<1> HIDE DEF md, mdSpec, stall, zd
<1>4. finalize(a, kind, sum, diff) \in ArtType
  BY <1>1, <1>2, <1>3 DEF ArtType
<1> QED BY <1>1, <1>3, <1>4 DEF ArtType, md, stall, zd

\* The files a resume leaves.
LEMMA Cleared ==
  ASSUME NEW a \in ArtType, NEW note \in BOOLEAN
  PROVE  /\ cleared(a, note) \in ArtType
         /\ cleared(a, note).count = a.count /\ cleared(a, note).marker = a.marker
         /\ cleared(a, note).zd = a.zd /\ cleared(a, note).asked = a.asked
         /\ cleared(a, note).md = "none"
         /\ cleared(a, note).ssSum = (IF a.md # "none" THEN a.mdSum ELSE a.ssSum)
         /\ cleared(a, note).ssStall =
               (IF note THEN 0 ELSE IF a.md # "none" THEN a.mdStall ELSE a.ssStall)
<1>1. stall_state(a, note) \in 0..StallLimit /\ 0 \in 0..StallLimit
  BY ImplementBudgetConstants DEF stall_state, ArtType
<1>2. cleared(a, note) \in ArtType
  <2> DEFINE ssSum == IF a.md # "none" THEN a.mdSum ELSE a.ssSum
             override == IF a.md # "none" /\ a.mdSpec # None THEN a.mdSpec ELSE a.override
  <2>1. ssSum \in Summaries \cup {None} /\ override \in Specs \cup {None}
    BY DEF ArtType
  <2>2. cleared(a, note) =
          [a EXCEPT !.ssSum = ssSum, !.ssStall = stall_state(a, note), !.override = override,
                    !.md = "none", !.mdSpec = None, !.mdSum = None, !.mdStall = 0]
    BY DEF cleared, ArtType
  <2> HIDE DEF ssSum, override
  <2> QED BY <1>1, <2>1, <2>2 DEF ArtType
<1> QED BY <1>2 DEF cleared, stall_state, ArtType

-----------------------------------------------------------------------------
(* The steps.  Most of them write one file field or move the run on.       *)

\* The driver's choice after a run that raised or timed out.
LEMMA RetryChoice ==
  ASSUME Types, Runs, run.pc = "agent", RetryOrBlock
  PROVE  ist' \in {"ready", "blocked"} /\ retry' \in BOOLEAN
  BY DEF RetryOrBlock, Types, Runs

LEMMA GoesTo ==
  ASSUME Types, NEW p \in {"absorb", "unmark", "check", "count", "mark", "agent", "clear", "apply"},
         Goes(p)
  PROVE  run' \in RunType /\ run'.pc = p /\ run'.charged = run.charged /\ run'.dst = run.dst
  BY DEF Types, Goes, RunType

LEMMA IdleType == Idle \in RunType /\ Idle.pc = "idle"
  BY DEF Idle, RunType

LEMMA StartsStep == ASSUME BInv, Starts PROVE BInv'
<1> USE DEF BInv
<1>1. /\ run' \in RunType /\ run'.charged = run.charged
      /\ run'.pc = IF art.marker = "none" THEN "check" ELSE "absorb"
  BY DEF Starts, Goes, Types, RunType
<1>2. /\ ist = "ready" /\ run.pc = "idle"
      /\ ist' = ist /\ retry' = retry /\ spec' = spec /\ art' = art /\ late' = late /\ hist' = hist
  BY DEF Starts
<1>3. Types'
  BY <1>1, <1>2 DEF Types
<1>4. Runs' /\ Account'
  BY <1>1, <1>2 DEF Runs, Account, Owes
<1>5. Stalls' /\ Zeros' /\ Grants'
  BY <1>1, <1>2 DEF Stalls, Zeros, Grants, Started
<1> QED BY <1>3, <1>4, <1>5

LEMMA RefundStep == ASSUME BInv, Refund PROVE BInv'
<1> USE DEF BInv
<1> DEFINE n == IF art.marker = "counted" /\ art.count > 0 THEN art.count - 1 ELSE art.count
<1>1. /\ run' \in RunType /\ run'.pc = "unmark" /\ run.pc = "absorb"
      /\ ist' = ist /\ retry' = retry /\ spec' = spec /\ late' = late /\ hist' = hist
  BY GoesTo DEF Refund
<1>2. n \in 0..SpawnLimit /\ n <= art.count /\ art.count <= n + 1
  BY Limits DEF Types, ArtType
<1>3. art' = [art EXCEPT !.count = n]
  BY DEF Refund, Types, ArtType
<1>4. n = art.count \/ (art.marker = "counted" /\ art.count = n + 1)
  BY Limits DEF Types, ArtType
<1> HIDE DEF n
<1>5. /\ art' \in ArtType /\ art'.count = n /\ art'.marker = art.marker /\ art'.md = art.md
      /\ art'.mdSum = art.mdSum /\ art'.ssSum = art.ssSum /\ art'.mdStall = art.mdStall
      /\ art'.ssStall = art.ssStall /\ art'.zd = art.zd /\ art'.asked = art.asked
  BY <1>2, <1>3 DEF Types, ArtType
<1>6. Types'
  BY <1>1, <1>5 DEF Types
<1>7. Runs'
  BY <1>1, <1>5 DEF Runs
<1>8. Account'
  BY <1>1, <1>2, <1>4, <1>5 DEF Account, Owes, Types, ArtType, HistType
<1>9. Stalls' /\ Zeros'
  BY <1>1, <1>5 DEF Stalls, Zeros, Started
<1>10. Grants'
  BY <1>1, <1>2, <1>5, Limits DEF Grants, Types, ArtType
<1> QED BY <1>6, <1>7, <1>8, <1>9, <1>10

\* The file fields the budgets do not read may change.
SameFiles(a, b) ==
  /\ a.count = b.count /\ a.marker = b.marker /\ a.md = b.md /\ a.mdSum = b.mdSum
  /\ a.mdStall = b.mdStall /\ a.ssSum = b.ssSum /\ a.ssStall = b.ssStall
  /\ a.zd = b.zd /\ a.asked = b.asked

\* A step that only takes back the grant.
LEMMA Ungranted ==
  ASSUME Types, hist' = [hist EXCEPT !.granted = FALSE]
  PROVE  /\ hist' \in HistType /\ hist'.granted = FALSE /\ hist'.extra = hist.extra
         /\ hist'.ran = hist.ran /\ hist'.sum = hist.sum /\ hist'.same = hist.same
         /\ hist'.zero = hist.zero /\ hist'.faults = hist.faults
  BY DEF Types, HistType

\* What each verdict means.
LEMMA Verdicts ==
  ASSUME Types, Stalls
  PROVE  /\ Verdict(art) = "zero_diff" => art.count < SpawnLimit
         /\ Verdict(art) = "pass" =>
              /\ art.count < SpawnLimit /\ art.ssStall < StallLimit
              /\ art.zd < ZeroLimit \/ art.asked
         /\ (/\ art.count < SpawnLimit /\ art.md = "none" /\ art.ssStall < StallLimit
             /\ art.zd < ZeroLimit \/ art.asked) => Verdict(art) = "pass"
<1>1. /\ art.count \in Nat /\ art.mdStall \in Nat /\ art.ssStall \in Nat /\ art.zd \in Nat
  BY DEF Types, ArtType
<1>2. StallCount(art) = art.ssStall
  BY <1>1 DEF StallCount, Stalls
<1>3. /\ (art.count >= SpawnLimit) <=> ~(art.count < SpawnLimit)
      /\ (StallCount(art) >= StallLimit) <=> ~(art.ssStall < StallLimit)
      /\ (art.zd >= ZeroLimit) <=> ~(art.zd < ZeroLimit)
  BY <1>1, <1>2, Limits
<1> DEFINE s == art.count >= SpawnLimit
           u == art.md = "blocked" /\ art.override # spec /\ art.mdSpec = spec
           t == StallCount(art) >= StallLimit
           z == art.zd >= ZeroLimit /\ ~art.asked
<1>4. /\ Verdict(art) = "zero_diff" => ~s
      /\ Verdict(art) = "pass" => ~s /\ ~t /\ ~z
      /\ ~s /\ ~u /\ ~t /\ ~z => Verdict(art) = "pass"
  <2>1. Verdict(art) = IF s THEN "spawns" ELSE IF u THEN "unchanged" ELSE IF t THEN "stalled"
                    ELSE IF z THEN "zero_diff" ELSE "pass"
    BY DEF Verdict
  <2> HIDE DEF s, u, t, z
  <2> QED BY <2>1
<1> QED BY <1>3, <1>4

LEMMA UnmarkStep == ASSUME BInv, Unmark PROVE BInv'
<1> USE DEF BInv
<1>1. /\ run' \in RunType /\ run'.pc = "check" /\ run.pc = "unmark" /\ hist' = hist
      /\ ist' = ist /\ retry' = retry /\ spec' = spec /\ late' = late
  BY GoesTo DEF Unmark
<1>2. /\ art' \in ArtType /\ art'.marker = "none" /\ art'.count = art.count /\ art'.md = art.md
      /\ art'.mdSum = art.mdSum /\ art'.ssSum = art.ssSum /\ art'.mdStall = art.mdStall
      /\ art'.ssStall = art.ssStall /\ art'.zd = art.zd /\ art'.asked = art.asked
  BY DEF Unmark, Types, ArtType
<1>3. Types'
  BY <1>1, <1>2 DEF Types
<1>4. Runs' /\ Account'
  BY <1>1, <1>2 DEF Runs, Account, Owes
<1>5. Stalls' /\ Zeros' /\ Grants'
  BY <1>1, <1>2 DEF Stalls, Zeros, Grants, Started
<1> QED BY <1>3, <1>4, <1>5

LEMMA ExhaustedStep == ASSUME BInv, Exhausted PROVE BInv'
<1> USE DEF BInv
<1>1. /\ run.pc = "check" /\ run' = Idle /\ ist' = "blocked" /\ retry' = FALSE
      /\ spec' = spec /\ late' = late /\ hist' = [hist EXCEPT !.granted = FALSE]
  BY DEF Exhausted
<1>2. art' \in ArtType /\ SameFiles(art', art)
  <2> DEFINE n == IF art.exhaustedOn = spec THEN Cap(art.exhausted + 1, 2) ELSE 1
  <2>1. n \in 0..2
    BY DEF Types, ArtType, Cap
  <2>2. art' = [art EXCEPT !.exhausted = n, !.exhaustedOn = spec]
    BY DEF Exhausted
  <2> HIDE DEF n
  <2> QED BY <2>1, <2>2 DEF Types, ArtType, SameFiles
<1>3. Types'
  BY <1>1, <1>2, IdleType, Ungranted DEF Types
<1>4. Runs' /\ Account'
  BY <1>1, <1>2, IdleType, Ungranted DEF Runs, Account, Owes, SameFiles
<1>5. Stalls' /\ Zeros' /\ Grants'
  BY <1>1, <1>2, IdleType, Ungranted DEF Stalls, Zeros, Grants, Started, SameFiles
<1> QED BY <1>3, <1>4, <1>5

LEMMA RefusedStep == ASSUME BInv, Refused PROVE BInv'
<1> USE DEF BInv
<1>1. /\ run.pc = "check" /\ run' = Idle /\ ist' = "blocked" /\ retry' = FALSE
      /\ spec' = spec /\ late' = late /\ art' = art /\ hist' = [hist EXCEPT !.granted = FALSE]
  BY DEF Refused
<1>2. Types'
  BY <1>1, IdleType, Ungranted DEF Types
<1>3. Runs' /\ Account'
  BY <1>1, IdleType, Ungranted DEF Runs, Account, Owes
<1>4. Stalls' /\ Zeros' /\ Grants'
  BY <1>1, IdleType, Ungranted DEF Stalls, Zeros, Grants, Started
<1> QED BY <1>2, <1>3, <1>4

LEMMA AskOperatorStep == ASSUME BInv, AskOperator PROVE BInv'
<1> USE DEF BInv
<1>1. /\ run.pc = "check" /\ run' = Idle /\ ist' = "awaiting" /\ retry' = FALSE
      /\ spec' = spec /\ late' = late /\ hist' = [hist EXCEPT !.granted = FALSE]
      /\ art' = [art EXCEPT !.asked = TRUE]
  BY DEF AskOperator
<1>2. /\ art' \in ArtType /\ art'.marker = art.marker /\ art'.count = art.count /\ art'.md = art.md
      /\ art'.mdSum = art.mdSum /\ art'.ssSum = art.ssSum /\ art'.mdStall = art.mdStall
      /\ art'.ssStall = art.ssStall /\ art'.zd = art.zd /\ art'.asked = TRUE
  BY <1>1 DEF Types, ArtType
<1>3. art.count < SpawnLimit
  BY Verdicts DEF AskOperator
<1>4. Types'
  BY <1>1, <1>2, <1>3, IdleType, Ungranted DEF Types
<1>5. Runs' /\ Account'
  BY <1>1, <1>2, <1>3, IdleType, Ungranted DEF Runs, Account, Owes
<1>6. Stalls' /\ Zeros' /\ Grants'
  BY <1>1, <1>2, <1>3, IdleType, Ungranted DEF Stalls, Zeros, Grants, Started
<1> QED BY <1>4, <1>5, <1>6

LEMMA AllowedStep == ASSUME BInv, Allowed PROVE BInv'
<1> USE DEF BInv
<1>1. /\ run' \in RunType /\ run'.pc = "count" /\ run.pc = "check"
      /\ ist' = ist /\ retry' = retry /\ spec' = spec /\ late' = late
  BY GoesTo DEF Allowed
<1>2. /\ art.count < SpawnLimit /\ art.ssStall < StallLimit
      /\ art.zd >= ZeroLimit \/ art.zd < ZeroLimit
  BY Verdicts, Limits DEF Allowed, Types, ArtType
<1>3. /\ art' \in ArtType /\ art'.count = art.count /\ art'.marker = art.marker
      /\ art'.md = art.md /\ art'.mdSum = art.mdSum /\ art'.ssSum = art.ssSum
      /\ art'.mdStall = art.mdStall /\ art'.ssStall = art.ssStall
      /\ art'.zd = (IF art.zd >= ZeroLimit THEN 0 ELSE art.zd)
  <2>1. CASE art.zd >= ZeroLimit
    <3>1. art' = [art EXCEPT !.zd = 0, !.asked = FALSE] /\ 0 \in 0..ZeroLimit
      BY <2>1, Limits DEF Allowed
    <3> QED BY <2>1, <3>1 DEF Types, ArtType
  <2>2. CASE ~(art.zd >= ZeroLimit)
    BY <2>2 DEF Allowed, Types
  <2> QED BY <2>1, <2>2
<1>4. /\ hist' \in HistType /\ hist'.ran = hist.ran /\ hist'.extra = hist.extra /\ hist'.granted = FALSE
      /\ hist'.same = hist.same /\ hist'.sum = hist.sum /\ hist'.faults = hist.faults
      /\ hist'.zero = IF art.zd >= ZeroLimit THEN 0 ELSE hist.zero
  BY DEF Allowed, Types, HistType
<1>5. Types'
  BY <1>1, <1>2, <1>3, <1>4 DEF Types
<1>6. Runs' /\ Account'
  BY <1>1, <1>2, <1>3, <1>4 DEF Runs, Account, Owes
<1>7. Stalls'
  BY <1>1, <1>2, <1>3, <1>4, Limits DEF Stalls, Started, Types, ArtType, HistType
<1>8. Zeros'
  BY <1>1, <1>2, <1>3, <1>4, Limits DEF Zeros, Started, Types, ArtType, HistType
<1>9. Grants'
  BY <1>1, <1>2, <1>3, <1>4 DEF Grants, Runs
<1> QED BY <1>5, <1>6, <1>7, <1>8, <1>9

LEMMA CountSpawnStep == ASSUME BInv, CountSpawn PROVE BInv'
<1> USE DEF BInv
<1>1. /\ run' \in RunType /\ run'.pc = "mark" /\ run.pc = "count" /\ run'.charged = ~retry
      /\ ist' = ist /\ retry' = retry /\ spec' = spec /\ late' = late /\ hist' = hist
  BY DEF CountSpawn, Types, RunType
<1>2. (IF retry THEN art.count ELSE art.count + 1) \in 0..SpawnLimit
  BY <1>1, Limits DEF Account, Types, ArtType
<1>3. art' = [art EXCEPT !.count = IF retry THEN art.count ELSE art.count + 1]
  BY DEF CountSpawn, Types, ArtType
<1>4. /\ art' \in ArtType /\ art'.count = (IF retry THEN art.count ELSE art.count + 1)
      /\ art'.marker = art.marker /\ art'.md = art.md /\ art'.mdSum = art.mdSum
      /\ art'.ssSum = art.ssSum /\ art'.mdStall = art.mdStall /\ art'.ssStall = art.ssStall
      /\ art'.zd = art.zd /\ art'.asked = art.asked
  BY <1>2, <1>3 DEF Types, ArtType
<1>5. Types'
  BY <1>1, <1>2, <1>3, <1>4 DEF Types
<1>6. Runs'
  BY <1>1, <1>2, <1>3, <1>4 DEF Runs
<1>7. retry \in BOOLEAN /\ art.count \in Nat /\ hist.ran \in Nat /\ hist.extra \in Nat
  BY <1>1, <1>2, <1>3, <1>4, Limits DEF Types, ArtType, HistType
<1>8. Account'
  <2>1. hist.ran <= art.count + hist.extra
    BY DEF Account
  <2>2. Owes' => run'.charged
    BY <1>1 DEF Owes
  <2>3. hist.ran <= art'.count + hist.extra /\ (~retry => hist.ran + 1 <= art'.count + hist.extra)
    BY <1>4, <1>7, <2>1
  <2> QED BY <1>1, <2>2, <2>3 DEF Account
<1>9. Stalls' /\ Zeros'
  BY <1>1, <1>2, <1>3, <1>4 DEF Stalls, Zeros, Started
<1>10. Grants'
  BY <1>1, <1>2, <1>3, <1>4 DEF Grants, Runs
<1> QED BY <1>5, <1>6, <1>7, <1>8, <1>9, <1>10

LEMMA MarkSpawnStep == ASSUME BInv, MarkSpawn PROVE BInv'
<1> USE DEF BInv
<1>1. /\ run' \in RunType /\ run'.pc = "agent" /\ run.pc = "mark" /\ run'.charged = run.charged
      /\ ist' = ist /\ retry' = retry /\ spec' = spec /\ late' = late /\ hist' = hist
  BY GoesTo DEF MarkSpawn
<1>2. /\ art' \in ArtType /\ art'.count = art.count
      /\ art'.marker = (IF run.charged THEN "counted" ELSE "free") /\ art'.md = art.md
      /\ art'.mdSum = art.mdSum /\ art'.ssSum = art.ssSum /\ art'.mdStall = art.mdStall
      /\ art'.ssStall = art.ssStall /\ art'.zd = art.zd /\ art'.asked = art.asked
  BY DEF MarkSpawn, Types, ArtType
<1>3. Types'
  BY <1>1, <1>2 DEF Types
<1>4. Runs' /\ Account'
  BY <1>1, <1>2 DEF Runs, Account, Owes
<1>5. Stalls' /\ Zeros'
  BY <1>1, <1>2 DEF Stalls, Zeros, Started
<1>6. Grants'
  BY <1>1, <1>2 DEF Grants, Runs
<1> QED BY <1>3, <1>4, <1>5, <1>6

\* What a recorded result makes of the files and of the history: a count is
\* never behind the runs it counts.
LEMMA Recorded ==
  ASSUME BInv, NEW kind \in Kinds, NEW sum \in Summaries, NEW diff \in BOOLEAN,
         hist.same <= StallLimit, hist.zero < ZeroLimit
  PROVE  /\ Observed(kind, sum, diff) \in HistType
         /\ Observed(kind, sum, diff).ran = hist.ran
         /\ Observed(kind, sum, diff).extra = hist.extra
         /\ Observed(kind, sum, diff).faults = hist.faults
         /\ Observed(kind, sum, diff).granted = FALSE
         /\ Observed(kind, sum, diff).zero <= zero_diff_count(art, kind, diff)
         /\ Observed(kind, sum, diff).same > 0 =>
              /\ Observed(kind, sum, diff).sum = sum
              /\ Observed(kind, sum, diff).same <= stall_count(art, kind, sum) + 1
<1> USE DEF BInv
<1> DEFINE h == Observed(kind, sum, diff)
           fails == kind \in {"failed", "unspecific"}
           again == fails /\ hist.same > 0 /\ hist.sum = sum
           same == IF again THEN Cap(hist.same + 1, StallLimit + 2) ELSE IF fails THEN 1 ELSE 0
           zero == IF kind = "transient" THEN hist.zero ELSE IF diff THEN 0 ELSE Cap(hist.zero + 1, ZeroLimit + 1)
<1>1. hist.same \in Nat /\ hist.zero \in Nat /\ art.ssStall \in 0..StallLimit /\ art.zd \in 0..ZeroLimit
  BY DEF Types, HistType, ArtType
<1>2. same \in Nat /\ zero \in Nat /\ (again => same = hist.same + 1)
  BY <1>1, Limits DEF Cap
<1>3. h = [hist EXCEPT !.sum = IF fails THEN sum ELSE None, !.same = same, !.zero = zero, !.granted = FALSE]
  BY DEF Observed
<1>4. /\ h \in HistType /\ h.ran = hist.ran /\ h.extra = hist.extra /\ h.faults = hist.faults
      /\ h.granted = FALSE /\ h.same = same /\ h.zero = zero /\ (fails => h.sum = sum)
  <2> HIDE DEF same, zero
  <2> QED BY <1>2, <1>3 DEF Types, HistType
<1>5. zero <= zero_diff_count(art, kind, diff)
  BY <1>1, Limits DEF Cap, zero_diff_count, Zeros
<1>6. ASSUME again PROVE same <= stall_count(art, kind, sum) + 1
  <2>1. /\ hist.sum = art.ssSum /\ hist.same <= art.ssStall + 1
        /\ (art.md # "none" => art.mdSum = art.ssSum /\ art.mdStall = art.ssStall)
    BY <1>6, <1>1 DEF Stalls
  <2>2. stall_count(art, kind, sum) = Cap(art.ssStall + 1, StallLimit)
    BY <1>6, <2>1 DEF stall_count
  <2> QED BY <1>1, <1>2, <1>6, <2>1, <2>2, Limits DEF Cap
<1>7. same > 0 => fails /\ same <= stall_count(art, kind, sum) + 1
  <2>1. stall_count(art, kind, sum) \in 0..StallLimit
    BY StallCountType DEF Types
  <2>2. CASE again
    BY <1>6, <2>2
  <2>3. CASE ~again
    BY <2>1, <2>3, Limits
  <2> QED BY <2>2, <2>3
<1> HIDE DEF h, same, zero, fails
<1>8. /\ h \in HistType /\ h.ran = hist.ran /\ h.extra = hist.extra /\ h.faults = hist.faults
      /\ h.granted = FALSE /\ h.zero <= zero_diff_count(art, kind, diff)
      /\ h.same > 0 => h.sum = sum /\ h.same <= stall_count(art, kind, sum) + 1
  BY <1>4, <1>5, <1>7
<1> QED BY <1>8 DEF h

LEMMA AgentEndsStep == ASSUME BInv, AgentEnds PROVE BInv'
<1> USE DEF BInv
<1>0. PICK kind \in Kinds, sum \in Summaries, diff \in BOOLEAN :
        /\ art' = finalize(art, kind, sum, diff) /\ hist' = Observed(kind, sum, diff)
        /\ \E dst \in Destinations(kind) : run' = [run EXCEPT !.pc = "clear", !.dst = dst]
  BY DEF AgentEnds
<1>1. PICK dst \in Destinations(kind) : run' = [run EXCEPT !.pc = "clear", !.dst = dst]
  BY <1>0
<1>2. run.pc = "agent" /\ ist' = ist /\ retry' = retry /\ spec' = spec /\ late' = late
  BY DEF AgentEnds
<1>3. dst \in {"blocked", "awaiting", "ready", "later"} /\ (dst = "awaiting" => kind = "failed")
  BY DEF Destinations
<1>4. run' \in RunType /\ run'.pc = "clear" /\ run'.dst = dst /\ run'.charged = run.charged
  BY <1>1, <1>3 DEF Types, RunType
<1>5. /\ art' \in ArtType /\ art'.count = art.count /\ art'.marker = art.marker /\ art'.md # "none"
      /\ art'.mdSum = sum /\ art'.ssSum = sum /\ art'.mdStall = stall_count(art, kind, sum)
      /\ art'.ssStall = stall_count(art, kind, sum) /\ art'.zd = zero_diff_count(art, kind, diff)
      /\ art'.asked = (art.asked /\ kind = "transient")
  BY <1>0, Finalized DEF Types
<1>6. hist.same <= StallLimit /\ hist.zero < ZeroLimit
  BY <1>2 DEF Stalls, Zeros, Started
<1>7. /\ hist' \in HistType /\ hist'.ran = hist.ran /\ hist'.extra = hist.extra
      /\ hist'.faults = hist.faults /\ hist'.granted = FALSE /\ hist'.zero <= art'.zd
      /\ hist'.same > 0 => hist'.sum = sum /\ hist'.same <= art'.ssStall + 1
  <2> DEFINE h == Observed(kind, sum, diff)
  <2>1. /\ h \in HistType /\ h.ran = hist.ran /\ h.extra = hist.extra
        /\ h.faults = hist.faults /\ h.granted = FALSE /\ h.zero <= zero_diff_count(art, kind, diff)
        /\ h.same > 0 => h.sum = sum /\ h.same <= stall_count(art, kind, sum) + 1
    BY <1>6, Recorded
  <2> HIDE DEF h
  <2>2. hist' = h
    BY <1>0 DEF h
  <2> QED BY <1>5, <2>1, <2>2
<1>8. Types'
  BY <1>2, <1>4, <1>5, <1>7 DEF Types
<1>9. Runs'
  BY <1>2, <1>4, <1>5 DEF Runs
<1>10. Account'
  BY <1>2, <1>4, <1>5, <1>7 DEF Account, Owes
<1>11. Stalls' /\ Zeros'
  BY <1>4, <1>5, <1>7 DEF Stalls, Zeros, Started
<1>12. Grants'
  BY <1>2, <1>3, <1>4, <1>5, <1>7 DEF Grants, Runs
<1> QED BY <1>8, <1>9, <1>10, <1>11, <1>12

LEMMA EndsUnrecordedStep == ASSUME BInv, EndsUnrecorded PROVE BInv'
<1> USE DEF BInv
<1>0. PICK dst \in {"blocked", "ready", "later"} : run' = [run EXCEPT !.pc = "clear", !.dst = dst]
  BY DEF EndsUnrecorded
<1>1. /\ run.pc = "agent" /\ hist' = [hist EXCEPT !.granted = FALSE]
      /\ ist' = ist /\ retry' = retry /\ spec' = spec /\ art' = art /\ late' = late
  BY DEF EndsUnrecorded
<1>2. run' \in RunType /\ run'.pc = "clear" /\ run'.dst = dst /\ run'.charged = run.charged
  BY <1>0 DEF Types, RunType
<1>3. Types'
  BY <1>1, <1>2, Ungranted DEF Types
<1>4. Runs' /\ Account'
  BY <1>1, <1>2, Ungranted DEF Runs, Account, Owes
<1>5. Stalls' /\ Zeros'
  BY <1>1, <1>2, Ungranted DEF Stalls, Zeros, Started
<1>6. Grants'
  BY <1>1, <1>2, Ungranted DEF Grants, Runs
<1> QED BY <1>3, <1>4, <1>5, <1>6

\* A run that ends is counted once it was charged.
LEMMA Ended ==
  ASSUME Types, hist' = [hist EXCEPT !.ran = IF run.charged THEN @ + 1 ELSE @]
  PROVE  /\ hist' \in HistType /\ hist'.granted = hist.granted /\ hist'.extra = hist.extra
         /\ hist'.ran = (IF run.charged THEN hist.ran + 1 ELSE hist.ran)
         /\ hist'.sum = hist.sum /\ hist'.same = hist.same /\ hist'.zero = hist.zero
         /\ hist'.faults = hist.faults
<1> DEFINE n == IF run.charged THEN hist.ran + 1 ELSE hist.ran
<1>1. n \in Nat
  BY DEF Types, HistType
<1>2. hist' = [hist EXCEPT !.ran = n]
  BY DEF Types, HistType
<1>3. /\ hist' \in HistType /\ hist'.granted = hist.granted /\ hist'.extra = hist.extra
      /\ hist'.ran = n /\ hist'.sum = hist.sum /\ hist'.same = hist.same /\ hist'.zero = hist.zero
      /\ hist'.faults = hist.faults
  <2> HIDE DEF n
  <2> QED BY <1>1, <1>2 DEF Types, HistType
<1> QED BY <1>3

\* The marker goes, and nothing else of the files.
LEMMA Unmarked ==
  ASSUME Types, art' = [art EXCEPT !.marker = "none"]
  PROVE  /\ art' \in ArtType /\ art'.marker = "none" /\ art'.count = art.count /\ art'.md = art.md
         /\ art'.mdSum = art.mdSum /\ art'.ssSum = art.ssSum /\ art'.mdStall = art.mdStall
         /\ art'.ssStall = art.ssStall /\ art'.zd = art.zd /\ art'.asked = art.asked
  BY DEF Types, ArtType

LEMMA ClearMarkerStep == ASSUME BInv, ClearMarker PROVE BInv'
<1> USE DEF BInv
<1>1. /\ run' \in RunType /\ run'.pc = "apply" /\ run.pc = "clear" /\ run'.charged = run.charged
      /\ run'.dst = run.dst
      /\ ist' = ist /\ retry' = retry /\ spec' = spec /\ late' = late
  BY GoesTo DEF ClearMarker
<1>2. /\ art' = [art EXCEPT !.marker = "none"]
      /\ hist' = [hist EXCEPT !.ran = IF run.charged THEN @ + 1 ELSE @]
  BY DEF ClearMarker
<1>3. Types'
  BY <1>1, <1>2, Ended, Unmarked DEF Types
<1>4. Runs'
  BY <1>1, <1>2, Unmarked DEF Runs
<1>5. Account'
  <2>1. hist'.ran <= art.count + hist.extra
    BY <1>1, <1>2, Ended DEF Account, Owes
  <2> QED BY <1>1, <1>2, <2>1, Ended, Unmarked DEF Account, Owes
<1>6. Stalls' /\ Zeros'
  BY <1>1, <1>2, Ended, Unmarked DEF Stalls, Zeros, Started
<1>7. Grants'
  BY <1>1, <1>2, Ended, Unmarked DEF Grants
<1> QED BY <1>3, <1>4, <1>5, <1>6, <1>7

LEMMA RaisesTransientStep == ASSUME BInv, RaisesTransient PROVE BInv'
<1> USE DEF BInv
<1>1. /\ run.pc = "agent" /\ run' = Idle /\ spec' = spec /\ late' = late
      /\ art' = [art EXCEPT !.marker = "none"]
      /\ hist' = [hist EXCEPT !.ran = IF run.charged THEN @ + 1 ELSE @]
      /\ ist' \in {"ready", "blocked"} /\ retry' \in BOOLEAN
  BY RetryChoice DEF RaisesTransient
<1>2. Types'
  BY <1>1, Ended, Unmarked, IdleType DEF Types
<1>3. Runs'
  BY <1>1, Unmarked, IdleType DEF Runs
<1>4. Account'
  <2>1. hist'.ran <= art.count + hist.extra
    BY <1>1, Ended DEF Account, Owes
  <2> QED BY <1>1, <2>1, Ended, Unmarked, IdleType DEF Account, Owes
<1>5. Stalls' /\ Zeros'
  BY <1>1, Ended, Unmarked, IdleType DEF Stalls, Zeros, Started
<1>6. Grants'
  BY <1>1, Ended, Unmarked, IdleType DEF Grants
<1> QED BY <1>2, <1>3, <1>4, <1>5, <1>6

LEMMA AppliesStep == ASSUME BInv, Applies PROVE BInv'
<1> USE DEF BInv
<1>1. /\ run.pc = "apply" /\ run' = Idle /\ ist' = run.dst /\ retry' = FALSE
      /\ spec' = spec /\ late' = late
      /\ run.dst \in {"blocked", "awaiting", "ready", "later"}
  BY DEF Applies, Types, RunType
<1>2. CASE run.dst = "later"
  <2>1. /\ art' \in ArtType /\ art'.count = 0 /\ art'.marker = art.marker /\ art'.md = art.md
        /\ art'.mdSum = art.mdSum /\ art'.ssSum = art.ssSum /\ art'.mdStall = art.mdStall
        /\ art'.ssStall = art.ssStall /\ art'.zd = art.zd /\ art'.asked = art.asked
    <3>1. 0 \in 0..SpawnLimit /\ 0 \in 0..2
      BY Limits
    <3>2. art' = [art EXCEPT !.count = 0, !.exhausted = 0, !.exhaustedOn = None]
      BY <1>2 DEF Applies
    <3> QED BY <3>1, <3>2 DEF Types, ArtType
  <2>2. /\ hist' \in HistType /\ hist'.ran = 0 /\ hist'.extra = hist.extra /\ hist'.sum = hist.sum
        /\ hist'.same = hist.same /\ hist'.zero = hist.zero /\ hist'.faults = hist.faults
        /\ hist'.granted = hist.granted
    BY <1>2 DEF Applies, Types, HistType
  <2>3. Types'
    BY <1>1, <2>1, <2>2, IdleType DEF Types
  <2>4. Runs'
    BY <1>1, <2>1, IdleType DEF Runs
  <2>5. art.marker = "none" /\ hist.extra \in Nat
    BY <1>1, Limits DEF Runs, Types, HistType
  <2>6. Account'
    BY <1>1, <2>1, <2>2, <2>5, IdleType DEF Account, Owes
  <2>7. Stalls' /\ Zeros'
    BY <1>1, <2>1, <2>2, IdleType DEF Stalls, Zeros, Started
  <2>8. Grants'
    BY <1>1, <1>2, <2>1, <2>2, IdleType DEF Grants
  <2> QED BY <2>3, <2>4, <2>6, <2>7, <2>8
<1>3. CASE run.dst # "later"
  <2>1. art' = art /\ hist' = hist
    BY <1>3 DEF Applies
  <2>2. Types'
    BY <1>1, <2>1, IdleType DEF Types
  <2>3. Runs' /\ Account'
    BY <1>1, <1>3, <2>1, IdleType DEF Runs, Account, Owes
  <2>4. Stalls' /\ Zeros' /\ Grants'
    BY <1>1, <2>1, IdleType DEF Stalls, Zeros, Started, Grants
  <2> QED BY <2>2, <2>3, <2>4
<1> QED BY <1>2, <1>3

LEMMA TimesOutStep == ASSUME BInv, TimesOut PROVE BInv'
<1> USE DEF BInv
<1> DEFINE n == IF run.charged THEN hist.ran + 1 ELSE hist.ran
<1>1. /\ run.pc = "agent" /\ run' = Idle /\ spec' = spec /\ late' = TRUE /\ art' = art
      /\ ist' \in {"ready", "blocked"} /\ retry' \in BOOLEAN
  BY RetryChoice DEF TimesOut
<1>2. /\ n \in Nat /\ hist.ran \in Nat /\ hist.faults + 1 \in 0..MaxFaults
      /\ hist.extra + 1 \in 0..MaxFaults /\ hist.extra + 1 <= hist.faults + 1
  BY Limits DEF TimesOut, Types, HistType
<1>3. hist' = [hist EXCEPT !.faults = hist.faults + 1, !.extra = hist.extra + 1, !.ran = n]
  BY DEF TimesOut, Types, HistType
<1>4. /\ hist' \in HistType /\ hist'.granted = hist.granted /\ hist'.extra = hist.extra + 1
      /\ hist'.ran = n /\ hist'.sum = hist.sum /\ hist'.same = hist.same /\ hist'.zero = hist.zero
      /\ hist'.faults = hist.faults + 1
  <2> HIDE DEF n
  <2> QED BY <1>2, <1>3 DEF Types, HistType
<1>5. Types'
  BY <1>1, <1>2, <1>4, IdleType DEF Types
<1>6. Runs'
  BY <1>1, IdleType DEF Runs
<1>7. Account'
  <2>1. art.count \in Nat /\ hist.extra \in Nat
    BY Limits DEF Types, ArtType, HistType
  <2>2. n <= art.count + hist.extra
    BY <1>1 DEF Account, Owes
  <2>3. n + 1 <= art.count + (hist.extra + 1) /\ n <= art.count + (hist.extra + 1)
    <3> HIDE DEF n
    <3> QED BY <1>2, <2>1, <2>2
  <2> HIDE DEF n
  <2> QED BY <1>1, <1>4, <2>3, IdleType DEF Account
<1>8. Stalls' /\ Zeros'
  BY <1>1, <1>4, IdleType DEF Stalls, Zeros, Started
<1>9. Grants'
  BY <1>1, <1>4, IdleType DEF Grants
<1> QED BY <1>5, <1>6, <1>7, <1>8, <1>9

LEMMA LateEndsStep == ASSUME BInv, LateEnds PROVE BInv'
<1> USE DEF BInv
<1>0. PICK kind \in Kinds, sum \in Summaries, diff \in BOOLEAN :
        /\ art' = [finalize(art, kind, sum, diff) EXCEPT !.marker = "none"]
        /\ hist' = [hist EXCEPT !.granted = FALSE, !.same = 0,
                                !.zero = IF kind # "transient" /\ diff THEN 0 ELSE @]
  BY DEF LateEnds
<1> DEFINE f == finalize(art, kind, sum, diff)
           zero == IF kind # "transient" /\ diff THEN 0 ELSE hist.zero
<1>1. ist' = ist /\ retry' = retry /\ spec' = spec /\ run' = run /\ late' = FALSE
  BY DEF LateEnds
<1>2. /\ f \in ArtType /\ f.count = art.count /\ f.md # "none" /\ f.mdSum = sum /\ f.ssSum = sum
      /\ f.mdStall = stall_count(art, kind, sum) /\ f.ssStall = stall_count(art, kind, sum)
      /\ f.zd = zero_diff_count(art, kind, diff) /\ f.asked = (art.asked /\ kind = "transient")
  BY Finalized DEF Types
<1>3. art' = [f EXCEPT !.marker = "none"]
  BY <1>0
<1> HIDE DEF f
<1>4. /\ art' \in ArtType /\ art'.marker = "none" /\ art'.count = art.count /\ art'.md # "none"
      /\ art'.mdSum = sum /\ art'.ssSum = sum /\ art'.mdStall = art'.ssStall
      /\ art'.zd = zero_diff_count(art, kind, diff) /\ art'.asked = (art.asked /\ kind = "transient")
  BY <1>2, <1>3 DEF ArtType
<1>5. /\ hist.zero \in Nat /\ hist.ran \in Nat /\ hist.extra \in Nat /\ art.zd \in 0..ZeroLimit
      /\ zero \in Nat /\ zero <= hist.zero
  BY Limits DEF Types, HistType, ArtType
<1>6. hist' = [hist EXCEPT !.granted = FALSE, !.same = 0, !.zero = zero]
  BY <1>0 DEF Types, HistType
<1>7. /\ hist' \in HistType /\ hist'.granted = FALSE /\ hist'.extra = hist.extra
      /\ hist'.ran = hist.ran /\ hist'.same = 0 /\ hist'.zero = zero /\ hist'.faults = hist.faults
  <2> HIDE DEF zero
  <2> QED BY <1>5, <1>6 DEF Types, HistType
<1>8. zero <= zero_diff_count(art, kind, diff)
  BY <1>5, Limits DEF zero_diff_count, Cap, Zeros
<1>9. Types'
  BY <1>1, <1>4, <1>7 DEF Types
<1>10. Runs'
  BY <1>1, <1>4 DEF Runs
<1>11. Account'
  BY <1>1, <1>4, <1>7 DEF Account, Owes
<1>12. Stalls'
  BY <1>1, <1>4, <1>7, Limits DEF Stalls, Started
<1>13. Zeros'
  <2>1. hist'.zero <= art'.zd
    <3> HIDE DEF zero
    <3> QED BY <1>4, <1>7, <1>8
  <2>2. Started' => hist'.zero < ZeroLimit
    <3>1. Started' => hist.zero < ZeroLimit
      BY <1>1 DEF Started, Zeros
    <3> HIDE DEF zero
    <3> QED BY <1>5, <1>7, <3>1, Limits
  <2> QED BY <2>1, <2>2 DEF Zeros
<1>14. Grants'
  BY <1>1, <1>4, <1>7 DEF Grants
<1> QED BY <1>9, <1>10, <1>11, <1>12, <1>13, <1>14

LEMMA CrashStep == ASSUME BInv, Crash PROVE BInv'
<1> USE DEF BInv
<1> DEFINE x == IF run.pc = "unmark" THEN hist.extra + 1 ELSE hist.extra
<1>1. /\ run' = Idle /\ late' = FALSE /\ ist' = ist /\ retry' = retry /\ spec' = spec /\ art' = art
  BY DEF Crash
<1>2. /\ hist.faults + 1 \in 0..MaxFaults /\ x \in 0..MaxFaults /\ x <= hist.faults + 1
      /\ hist.extra <= x /\ hist.ran \in Nat /\ hist.extra \in Nat /\ art.count \in Nat
  BY Limits DEF Crash, Types, HistType, ArtType
<1>3. hist' = [hist EXCEPT !.faults = hist.faults + 1, !.extra = x]
  BY DEF Crash, Types, HistType
<1>4. /\ hist' \in HistType /\ hist'.granted = hist.granted /\ hist'.extra = x
      /\ hist'.ran = hist.ran /\ hist'.sum = hist.sum /\ hist'.same = hist.same
      /\ hist'.zero = hist.zero /\ hist'.faults = hist.faults + 1
  <2> HIDE DEF x
  <2> QED BY <1>2, <1>3 DEF Types, HistType
<1>5. Types'
  <2> HIDE DEF x
  <2> QED BY <1>1, <1>2, <1>4, IdleType DEF Types
<1>6. Runs'
  BY <1>1, IdleType DEF Runs
<1>7. Account'
  <2>1. hist.ran <= art.count + x
    <3> HIDE DEF x
    <3> QED BY <1>2 DEF Account
  <2>2. art.marker = "counted" => hist.ran + 1 <= art.count + x
    <3>1. CASE run.pc = "unmark"
      BY <1>2, <3>1 DEF Account
    <3>2. CASE run.pc # "unmark"
      BY <3>2 DEF Account, Owes, Runs, Types, RunType
    <3> QED BY <3>1, <3>2
  <2> HIDE DEF x
  <2> QED BY <1>1, <1>4, <2>1, <2>2, IdleType DEF Account, Owes
<1>8. Stalls' /\ Zeros'
  BY <1>1, <1>4, IdleType DEF Stalls, Zeros, Started
<1>9. Grants'
  BY <1>1, <1>4, IdleType DEF Grants
<1> QED BY <1>5, <1>6, <1>7, <1>8, <1>9

\* Something new was said: the failures before it no longer count.
LEMMA Heard ==
  ASSUME Types, NEW note \in BOOLEAN
  PROVE  /\ NewInput(note) \in HistType /\ NewInput(note).same = (IF note THEN 0 ELSE hist.same)
         /\ NewInput(note).ran = hist.ran /\ NewInput(note).extra = hist.extra
         /\ NewInput(note).faults = hist.faults /\ NewInput(note).sum = hist.sum
         /\ NewInput(note).zero = hist.zero /\ NewInput(note).granted = hist.granted
<1> DEFINE n == IF note THEN 0 ELSE hist.same
<1>1. n \in Nat
  BY DEF Types, HistType
<1>2. NewInput(note) = [hist EXCEPT !.same = n]
  BY DEF NewInput, Types, HistType
<1>3. /\ NewInput(note) \in HistType /\ NewInput(note).same = n
      /\ NewInput(note).ran = hist.ran /\ NewInput(note).extra = hist.extra
      /\ NewInput(note).faults = hist.faults /\ NewInput(note).sum = hist.sum
      /\ NewInput(note).zero = hist.zero /\ NewInput(note).granted = hist.granted
  <2> HIDE DEF n
  <2> QED BY <1>1, <1>2 DEF Types, HistType
<1> QED BY <1>3

\* What every way back to READY leaves of the files and of the history.
Resumed(note) ==
  /\ ist' = "ready" /\ run' = run /\ run.pc = "idle" /\ art' \in ArtType /\ hist' \in HistType
  /\ art'.md = "none" /\ art'.ssSum = (IF art.md # "none" THEN art.mdSum ELSE art.ssSum)
  /\ art'.ssStall = (IF note THEN 0 ELSE IF art.md # "none" THEN art.mdStall ELSE art.ssStall)
  /\ hist'.same = (IF note THEN 0 ELSE hist.same) /\ hist'.sum = hist.sum

LEMMA ResumedStalls ==
  ASSUME BInv, NEW note \in BOOLEAN, Resumed(note)
  PROVE  Stalls'
<1>1. art'.ssSum = art.ssSum /\ art'.ssStall = (IF note THEN 0 ELSE art.ssStall)
  BY DEF Resumed, BInv, Stalls
<1>2. CASE note
  <2>1. hist'.same = 0 /\ art'.md = "none" /\ run'.pc = "idle"
    BY <1>2 DEF Resumed
  <2> QED BY <2>1, Limits DEF Stalls, Started
<1>3. CASE ~note
  <2>1. hist'.same = hist.same /\ hist'.sum = hist.sum /\ art'.md = "none" /\ run'.pc = "idle"
    BY <1>3 DEF Resumed
  <2> QED BY <1>1, <1>3, <2>1 DEF Stalls, Started, BInv
<1> QED BY <1>2, <1>3

LEMMA ResumeBlockedStep ==
  ASSUME BInv, NEW note \in BOOLEAN, resume_blocked(note)
  PROVE  BInv'
<1> USE DEF BInv
<1> DEFINE reset == /\ art.count >= SpawnLimit
                    /\ ~(art.exhausted >= 2 /\ art.exhaustedOn = spec /\ ~note)
           zero == art.zd >= ZeroLimit
           c == cleared(art, note)
           count == IF reset THEN 0 ELSE art.count
           marker == IF reset THEN "none" ELSE art.marker
           zd == IF zero THEN 0 ELSE art.zd
           asked == art.asked /\ ~zero
           h == NewInput(note)
           ran == IF reset THEN 0 ELSE hist.ran
           extra == IF reset THEN 0 ELSE hist.extra
           hzero == IF zero THEN 0 ELSE hist.zero
<1>1. /\ ist = "blocked" /\ run.pc = "idle" /\ ist' = "ready" /\ retry' = FALSE
      /\ spec' = spec /\ run' = run /\ late' = late
  BY DEF resume_blocked
<1>2. /\ c \in ArtType /\ c.count = art.count /\ c.marker = art.marker /\ c.zd = art.zd
      /\ c.asked = art.asked /\ c.md = "none"
      /\ c.ssSum = (IF art.md # "none" THEN art.mdSum ELSE art.ssSum)
      /\ c.ssStall = (IF note THEN 0 ELSE IF art.md # "none" THEN art.mdStall ELSE art.ssStall)
  BY Cleared DEF Types
<1>3. /\ h \in HistType /\ h.same = (IF note THEN 0 ELSE hist.same) /\ h.ran = hist.ran
      /\ h.extra = hist.extra /\ h.faults = hist.faults /\ h.sum = hist.sum
      /\ h.zero = hist.zero
  BY Heard
<1>4. /\ art' = [c EXCEPT !.count = IF reset THEN 0 ELSE @, !.marker = IF reset THEN "none" ELSE @,
                          !.zd = IF zero THEN 0 ELSE @, !.asked = @ /\ ~zero]
      /\ hist' = [h EXCEPT !.ran = IF reset THEN 0 ELSE @, !.extra = IF reset THEN 0 ELSE @,
                           !.zero = IF zero THEN 0 ELSE @, !.granted = note]
  BY DEF resume_blocked
<1>5. /\ art.count \in 0..SpawnLimit /\ art.zd \in 0..ZeroLimit /\ art.asked \in BOOLEAN
      /\ art.marker \in {"none", "counted", "free"}
      /\ hist.ran \in Nat /\ hist.extra \in 0..MaxFaults /\ hist.zero \in Nat
      /\ hist.extra <= hist.faults /\ hist.faults \in 0..MaxFaults
  BY DEF Types, ArtType, HistType
<1> HIDE DEF c, h
<1>6. /\ art' = [c EXCEPT !.count = count, !.marker = marker, !.zd = zd, !.asked = asked]
      /\ hist' = [h EXCEPT !.ran = ran, !.extra = extra, !.zero = hzero, !.granted = note]
  BY <1>2, <1>3, <1>4 DEF ArtType, HistType
<1>7. /\ count \in 0..SpawnLimit /\ marker \in {"none", "counted", "free"} /\ zd \in 0..ZeroLimit
      /\ asked \in BOOLEAN /\ ran \in Nat /\ extra \in 0..MaxFaults /\ extra <= hist.faults
      /\ hzero \in Nat /\ hzero <= zd
  BY <1>5, Limits DEF Zeros
<1>8. /\ ran <= count + extra
      /\ marker = "counted" => ran + 1 <= count + extra
  BY <1>1, <1>5 DEF Account, Owes
<1>9. note => count < SpawnLimit /\ zd < ZeroLimit
  BY <1>5, Limits
<1> HIDE DEF count, marker, zd, asked, ran, extra, hzero
<1>10. /\ art' \in ArtType /\ art'.count = count /\ art'.marker = marker /\ art'.zd = zd
       /\ art'.asked = asked /\ art'.md = "none" /\ art'.ssSum = c.ssSum /\ art'.ssStall = c.ssStall
  BY <1>2, <1>6, <1>7 DEF ArtType
<1>11. /\ hist' \in HistType /\ hist'.ran = ran /\ hist'.extra = extra /\ hist'.zero = hzero
       /\ hist'.granted = note /\ hist'.same = h.same /\ hist'.sum = hist.sum
       /\ hist'.faults = hist.faults
  BY <1>3, <1>6, <1>7 DEF HistType
<1>12. Types'
  BY <1>1, <1>7, <1>10, <1>11 DEF Types
<1>13. Runs'
  BY <1>1 DEF Runs
<1>14. Account'
  BY <1>1, <1>8, <1>10, <1>11 DEF Account, Owes
<1>15. Stalls'
  <2>1. Resumed(note)
    BY <1>1, <1>2, <1>3, <1>10, <1>11 DEF Resumed
  <2> QED BY <2>1, ResumedStalls
<1>16. Zeros'
  BY <1>1, <1>7, <1>10, <1>11 DEF Zeros, Started
<1>17. Grants'
  BY <1>1, <1>2, <1>9, <1>10, <1>11 DEF Grants
<1> QED BY <1>12, <1>13, <1>14, <1>15, <1>16, <1>17

LEMMA MoveToReadyStep ==
  ASSUME BInv, NEW note \in BOOLEAN, MoveToReady(note)
  PROVE  BInv'
<1> USE DEF BInv
<1>1. /\ ist \in {"blocked", "awaiting"} /\ run.pc = "idle" /\ ist' = "ready" /\ retry' = retry
      /\ spec' = spec /\ run' = run /\ late' = late
      /\ art' = cleared(art, note) /\ hist' = NewInput(note)
  BY DEF MoveToReady
<1>2. /\ art' \in ArtType /\ art'.count = art.count /\ art'.marker = art.marker
      /\ art'.zd = art.zd /\ art'.asked = art.asked /\ art'.md = "none"
      /\ art'.ssSum = (IF art.md # "none" THEN art.mdSum ELSE art.ssSum)
      /\ art'.ssStall = (IF note THEN 0 ELSE IF art.md # "none" THEN art.mdStall ELSE art.ssStall)
  BY <1>1, Cleared DEF Types
<1>3. /\ hist' \in HistType /\ hist'.same = (IF note THEN 0 ELSE hist.same)
      /\ hist'.ran = hist.ran /\ hist'.extra = hist.extra /\ hist'.faults = hist.faults
      /\ hist'.sum = hist.sum /\ hist'.zero = hist.zero /\ hist'.granted = hist.granted
  BY <1>1, Heard
<1>4. Types'
  BY <1>1, <1>2, <1>3 DEF Types
<1>5. Runs' /\ Account'
  BY <1>1, <1>2, <1>3 DEF Runs, Account, Owes
<1>6. Stalls'
  BY <1>1, <1>2, <1>3, ResumedStalls DEF Resumed
<1>7. Zeros' /\ Grants'
  BY <1>1, <1>2, <1>3 DEF Zeros, Started, Grants
<1> QED BY <1>4, <1>5, <1>6, <1>7

LEMMA AnsweredStep == ASSUME BInv, Answered PROVE BInv'
<1> USE DEF BInv
<1> DEFINE h == NewInput(TRUE)
<1>1. /\ ist = "awaiting" /\ run.pc = "idle" /\ ist' = "ready" /\ retry' = retry
      /\ spec' = spec /\ run' = run /\ late' = late
      /\ art' = cleared(art, TRUE) /\ hist' = [h EXCEPT !.granted = art.asked]
  BY DEF Answered
<1>2. /\ art' \in ArtType /\ art'.count = art.count /\ art'.marker = art.marker
      /\ art'.zd = art.zd /\ art'.asked = art.asked /\ art'.md = "none"
      /\ art'.ssSum = (IF art.md # "none" THEN art.mdSum ELSE art.ssSum) /\ art'.ssStall = 0
  BY <1>1, Cleared DEF Types
<1>3. /\ h \in HistType /\ h.same = 0 /\ h.ran = hist.ran /\ h.extra = hist.extra
      /\ h.faults = hist.faults /\ h.sum = hist.sum /\ h.zero = hist.zero
  BY Heard
<1> HIDE DEF h
<1>4. /\ hist' \in HistType /\ hist'.same = 0 /\ hist'.ran = hist.ran /\ hist'.extra = hist.extra
      /\ hist'.faults = hist.faults /\ hist'.sum = hist.sum /\ hist'.zero = hist.zero
      /\ hist'.granted = art.asked
  BY <1>1, <1>3 DEF HistType, Types, ArtType
<1>5. Types'
  BY <1>1, <1>2, <1>4 DEF Types
<1>6. Runs' /\ Account'
  BY <1>1, <1>2, <1>4 DEF Runs, Account, Owes
<1>7. Stalls'
  <2>1. hist'.same = 0 /\ art'.md = "none" /\ run'.pc = "idle"
    BY <1>1, <1>2, <1>4
  <2> QED BY <2>1, Limits DEF Stalls, Started
<1>8. Zeros' /\ Grants'
  BY <1>1, <1>2, <1>4 DEF Zeros, Started, Grants
<1> QED BY <1>5, <1>6, <1>7, <1>8

LEMMA RequestChangesStep == ASSUME BInv, request_changes PROVE BInv'
<1> USE DEF BInv
<1> DEFINE h == NewInput(TRUE)
           c == cleared(art, TRUE)
<1>1. /\ ist = "later" /\ ist' = "ready" /\ retry' = retry
      /\ spec' = spec /\ run' = run /\ late' = late
      /\ art' = [c EXCEPT !.count = 0, !.exhausted = 0, !.exhaustedOn = None]
      /\ hist' = [h EXCEPT !.ran = 0]
  BY DEF request_changes
<1>2. run.pc = "idle" /\ art.marker = "none"
  BY <1>1 DEF Runs
<1>3. /\ c \in ArtType /\ c.marker = art.marker /\ c.zd = art.zd /\ c.asked = art.asked
      /\ c.md = "none" /\ c.ssStall = 0 /\ 0 \in 0..SpawnLimit /\ 0 \in 0..2
  <2>1. 0 \in 0..SpawnLimit /\ 0 \in 0..2
    BY Limits
  <2>2. art \in ArtType /\ TRUE \in BOOLEAN
    BY DEF Types
  <2> QED BY <2>1, <2>2, Cleared
<1>4. /\ h \in HistType /\ h.same = 0 /\ h.extra = hist.extra /\ h.faults = hist.faults
      /\ h.zero = hist.zero /\ h.granted = hist.granted
  BY Heard
<1> HIDE DEF c, h
<1>5. /\ art' \in ArtType /\ art'.count = 0 /\ art'.marker = "none" /\ art'.zd = art.zd
      /\ art'.asked = art.asked /\ art'.md = "none" /\ art'.ssStall = 0
  BY <1>1, <1>2, <1>3 DEF ArtType
<1>6. /\ hist' \in HistType /\ hist'.ran = 0 /\ hist'.same = 0 /\ hist'.extra = hist.extra
      /\ hist'.faults = hist.faults /\ hist'.zero = hist.zero /\ hist'.granted = hist.granted
  BY <1>1, <1>4 DEF HistType
<1>7. Types'
  BY <1>1, <1>5, <1>6 DEF Types
<1>8. Runs'
  BY <1>1, <1>2 DEF Runs
<1>9. Account'
  <2>1. hist.extra \in Nat
    BY Limits DEF Types, HistType
  <2> QED BY <1>1, <1>2, <1>5, <1>6, <2>1 DEF Account, Owes
<1>10. Stalls'
  BY <1>1, <1>2, <1>5, <1>6, Limits DEF Stalls, Started
<1>11. Zeros' /\ Grants'
  BY <1>1, <1>2, <1>5, <1>6 DEF Zeros, Started, Grants
<1> QED BY <1>7, <1>8, <1>9, <1>10, <1>11

LEMMA ReviewRejectsStep == ASSUME BInv, ReviewRejects PROVE BInv'
<1> USE DEF BInv
<1>1. /\ ist = "later" /\ ist' = "ready" /\ UNCHANGED <<retry, spec, art, run, late, hist>>
  BY DEF ReviewRejects
<1>2. Types' /\ Runs'
  BY <1>1 DEF Types, Runs
<1>3. Account' /\ Stalls' /\ Zeros' /\ Grants'
  BY <1>1 DEF Account, Owes, Stalls, Zeros, Started, Grants
<1> QED BY <1>2, <1>3

LEMMA ResetFingerprintStep == ASSUME BInv, reset_fingerprint PROVE BInv'
<1> USE DEF BInv
<1>1. /\ run.pc = "idle" /\ UNCHANGED <<ist, retry, spec, run, late, hist>>
      /\ art' = [art EXCEPT !.md = "none", !.mdSpec = None, !.mdSum = None, !.mdStall = 0,
                            !.override = None]
  BY DEF reset_fingerprint
<1>2. /\ art' \in ArtType /\ art'.count = art.count /\ art'.marker = art.marker /\ art'.md = "none"
      /\ art'.ssSum = art.ssSum /\ art'.ssStall = art.ssStall /\ art'.zd = art.zd
      /\ art'.asked = art.asked
  <2>1. 0 \in 0..StallLimit
    BY Limits
  <2> QED BY <1>1, <2>1 DEF Types, ArtType
<1>3. Types' /\ Runs'
  BY <1>1, <1>2 DEF Types, Runs
<1>4. Account' /\ Stalls' /\ Zeros' /\ Grants'
  BY <1>1, <1>2 DEF Account, Owes, Stalls, Zeros, Started, Grants
<1> QED BY <1>3, <1>4

LEMMA EditSpecStep == ASSUME BInv, EditSpec PROVE BInv'
<1> USE DEF BInv
<1>1. spec' \in Specs /\ UNCHANGED <<ist, retry, art, run, late, hist>>
  BY DEF EditSpec
<1>2. Types' /\ Runs'
  BY <1>1 DEF Types, Runs
<1>3. Account' /\ Stalls' /\ Zeros' /\ Grants'
  BY <1>1 DEF Account, Owes, Stalls, Zeros, Started, Grants
<1> QED BY <1>2, <1>3

-----------------------------------------------------------------------------
(* The invariant, and what follows from it.                                *)

LEMMA BInitially == BInit => BInv
<1> SUFFICES ASSUME BInit PROVE BInv
  OBVIOUS
<1>1. art \in ArtType
  BY Limits DEF BInit, ArtType
<1>2. run \in RunType /\ hist \in HistType
  BY Limits DEF BInit, Idle, RunType, HistType
<1>3. Types
  <2>1. hist.extra <= hist.faults
    BY DEF BInit
  <2> QED BY <1>1, <1>2, <2>1 DEF BInit, Types
<1>4. Runs /\ Account /\ Stalls /\ Zeros /\ Grants
  BY Limits DEF BInit, Idle, Runs, Account, Owes, Stalls, Zeros, Started, Grants
<1> QED BY <1>3, <1>4 DEF BInv

LEMMA BStep == BInv /\ [BNext]_bvars => BInv'
<1> SUFFICES ASSUME BInv, [BNext]_bvars PROVE BInv'
  OBVIOUS
<1>1. CASE BNext
  BY <1>1, StartsStep, RefundStep, UnmarkStep, ExhaustedStep, RefusedStep, AskOperatorStep,
     AllowedStep, CountSpawnStep, MarkSpawnStep, AgentEndsStep, EndsUnrecordedStep,
     ClearMarkerStep, AppliesStep, RaisesTransientStep, TimesOutStep, LateEndsStep, CrashStep,
     ResumeBlockedStep, MoveToReadyStep, AnsweredStep, RequestChangesStep, ReviewRejectsStep,
     ResetFingerprintStep, EditSpecStep DEF BNext
<1>2. CASE UNCHANGED bvars
  <2>1. UNCHANGED <<ist, retry, spec, art, run, late, hist>>
    BY <1>2 DEF bvars
  <2>2. Types' /\ Runs'
    BY <2>1 DEF BInv, Types, Runs
  <2>3. Account' /\ Stalls' /\ Zeros' /\ Grants'
    BY <2>1 DEF BInv, Account, Owes, Stalls, Zeros, Started, Grants
  <2> QED BY <2>2, <2>3 DEF BInv
<1> QED BY <1>1, <1>2

(* What the artifact files say of the runs they count stays true over      *)
(* every kill, timeout, late thread and resume.                            *)
THEOREM BudgetInvariant == BSpec => []BInv
  BY BInitially, BStep, PTL DEF BSpec

LEMMA BInvImplies == BInv => BudgetsHold
<1> SUFFICES ASSUME BInv PROVE BudgetsHold
  OBVIOUS
<1> USE DEF BInv
<1>1. BTypeOK
  BY DEF Types, BTypeOK, ArtType, RunType, HistType
<1>2. /\ art.count \in 0..SpawnLimit /\ art.ssStall \in 0..StallLimit /\ art.zd \in 0..ZeroLimit
      /\ hist.ran \in Nat /\ hist.same \in Nat /\ hist.zero \in Nat /\ hist.extra \in Nat
  BY Limits DEF Types, ArtType, HistType
<1>3. SpawnBudget
  BY <1>2, Limits DEF Account, SpawnBudget
<1>4. StallStops
  BY <1>2, Limits DEF Stalls, StallStops
<1>5. ZeroDiffStops
  BY <1>2, Limits DEF Zeros, ZeroDiffStops
<1>6. GrantIsHonoured
  <2> SUFFICES ASSUME hist.granted PROVE Verdict(art) = "pass"
    BY DEF GrantIsHonoured
  <2>1. /\ art.count < SpawnLimit /\ art.md = "none" /\ art.ssStall < StallLimit
        /\ art.zd < ZeroLimit \/ art.asked
    BY Limits DEF Grants
  <2> QED BY <2>1, Verdicts
<1> QED BY <1>1, <1>3, <1>4, <1>5, <1>6 DEF BudgetsHold

(* The spawn, stall and zero-diff budgets of the implement stage hold      *)
(* together, and none of them stops a run that a person has just granted.  *)
THEOREM BudgetsAlwaysHold == BSpec => []BudgetsHold
  BY BudgetInvariant, BInvImplies, PTL

-----------------------------------------------------------------------------
(* The fix loop. *)

\* The types of LTypeOK, named.
LoopType ==
  [pc : {"idle", "setup", "gates", "baseline", "agent", "summary", "scope", "tests", "delivery",
         "stuck", "judge"},
   attempt : 0..MaxIters, did : {"nothing", "reads", "edits", "bypass"}, feedback : Feedback,
   repeats : 0..3, runs : 0..MaxRuns, np : 0..StuckPasses, nc : 0..StuckCalls]

TreeType == [dirty : BOOLEAN, ahead : BOOLEAN, oos : SUBSET OutFiles]

ScopeType ==
  [map : SUBSET OutFiles, expands : 0..MaxExpands, split : SUBSET OutFiles,
   cleared : SUBSET OutFiles, bounced : SUBSET OutFiles]

Answers ==
  {"none", "blocked", "stuck", "ready", "awaiting", "epic", "rebasing", "review", "done",
   "deliverable"}

\* The entries that belong to one ticket, and what they say of it.
TicketTyped(t) ==
  /\ loop[t] \in LoopType /\ tree[t] \in TreeType /\ scope[t] \in ScopeType
  /\ base[t] \in {"none", "passed", "failed"} /\ result[t] \in Answers
  /\ own[t] \in 0..StuckPasses
  /\ loop[t].pc # "idle" => loop[t].attempt >= 1

\* Every file of the map was let through, and past the guardrail the branch
\* changes only such files; a reviewed branch no longer moves.
InScope(t) ==
  /\ scope[t].map \subseteq scope[t].cleared
  /\ loop[t].pc \in {"tests", "delivery"} => tree[t].oos \subseteq scope[t].cleared
  /\ result[t] = "review" => loop[t].pc = "idle" /\ tree[t].oos \subseteq scope[t].cleared

\* The shared counter is the one of the only loop that runs.
Alone == \A t, u \in Tickets : loop[t].pc # "idle" /\ loop[u].pc # "idle" => t = u

Owned(t) ==
  /\ loop[t].pc # "idle" => own[t] = passes
  /\ loop[t].pc = "judge" => loop[t].np = passes
  /\ result[t] = "stuck" /\ loop[t].pc = "idle" => own[t] >= StuckPasses

Counters == slots \in Concurrency /\ passes \in 0..StuckPasses /\ calls \in 0..StuckCalls

Maps ==
  /\ DOMAIN loop = Tickets /\ DOMAIN tree = Tickets /\ DOMAIN scope = Tickets
  /\ DOMAIN base = Tickets /\ DOMAIN result = Tickets /\ DOMAIN own = Tickets

\* The inductive invariant.
LInv ==
  /\ LTypeOK
  /\ \A t \in Tickets : (loop[t].pc # "idle" => loop[t].attempt >= 1) /\ InScope(t)
  /\ slots = 1 => Alone /\ \A t \in Tickets : Owned(t)

\* Typing, with the names of the types, for all tickets and for one.
LEMMA LKinds == LInv =>
  /\ loop \in [Tickets -> LoopType] /\ tree \in [Tickets -> TreeType]
  /\ scope \in [Tickets -> ScopeType] /\ base \in [Tickets -> {"none", "passed", "failed"}]
  /\ result \in [Tickets -> Answers] /\ own \in [Tickets -> 0..StuckPasses]
  /\ slots \in Concurrency /\ passes \in 0..StuckPasses /\ calls \in 0..StuckCalls
  BY DEF LInv, LTypeOK, LoopType, TreeType, ScopeType, Answers

LEMMA LoopKinds ==
  ASSUME LInv, NEW t \in Tickets
  PROVE  /\ loop[t] \in LoopType /\ tree[t] \in TreeType /\ scope[t] \in ScopeType
         /\ tree[t].oos \subseteq OutFiles
  BY LKinds DEF TreeType

LEMMA LTyped ==
  /\ loop \in [Tickets -> LoopType] /\ tree \in [Tickets -> TreeType]
  /\ scope \in [Tickets -> ScopeType] /\ base \in [Tickets -> {"none", "passed", "failed"}]
  /\ result \in [Tickets -> Answers] /\ own \in [Tickets -> 0..StuckPasses]
  /\ slots \in Concurrency /\ passes \in 0..StuckPasses /\ calls \in 0..StuckCalls
  => LTypeOK
  BY DEF LTypeOK, LoopType, TreeType, ScopeType, Answers

Pcs == {"idle", "setup", "gates", "baseline", "agent", "summary", "scope", "tests", "delivery",
        "stuck", "judge"}

\* What the sub-steps of an action do to the entries of t: its loop goes to p,
\* its run has answered r, its branch keeps its files.
Moves(t, p) ==
  /\ loop' \in [Tickets -> LoopType] /\ loop'[t].pc = p
  /\ loop'[t].attempt >= 1 \/ p = "idle"
  /\ \A u \in Tickets \ {t} : loop'[u] = loop[u]

Says(t, r) ==
  /\ result' \in [Tickets -> Answers] /\ result'[t] = r
  /\ \A u \in Tickets \ {t} : result'[u] = result[u]

Keeps(t) ==
  /\ tree' \in [Tickets -> TreeType] /\ tree'[t].oos = tree[t].oos
  /\ \A u \in Tickets \ {t} : tree'[u] = tree[u]

\* The four ways in which an action ends.
LEMMA ReturnsMoves ==
  ASSUME LInv, NEW t \in Tickets, NEW r \in Answers, Returns(t, r)
  PROVE  Moves(t, "idle") /\ Says(t, r)
<1>1. loop \in [Tickets -> LoopType] /\ result \in [Tickets -> Answers]
  BY LKinds
<1>2. loop[t].runs \in 0..MaxRuns
  BY <1>1 DEF LoopType
<1>3. [NoLoop EXCEPT !.runs = loop[t].runs] \in LoopType
  BY <1>2, ImplementLoopConstants DEF NoLoop, LoopType, Feedback
<1>4. [NoLoop EXCEPT !.runs = loop[t].runs].pc = "idle"
  BY DEF NoLoop
<1>5. Moves(t, "idle")
  BY <1>1, <1>3, <1>4 DEF Moves, Returns
<1>6. Says(t, r)
  BY <1>1 DEF Says, Returns
<1> QED BY <1>5, <1>6

LEMMA CommitsMoves ==
  ASSUME LInv, NEW t \in Tickets, NEW r \in Answers, Commits(t, r)
  PROVE  Moves(t, "idle") /\ Says(t, r) /\ Keeps(t)
<1>1. tree \in [Tickets -> TreeType]
  BY LKinds
<1>2. Keeps(t)
  BY <1>1 DEF Keeps, Commits, TreeType
<1> QED BY <1>2, ReturnsMoves DEF Commits

LEMMA GoesMoves ==
  ASSUME LInv, NEW t \in Tickets, NEW p \in Pcs, loop[t].pc # "idle", LoopGoes(t, p)
  PROVE  Moves(t, p)
<1>1. loop \in [Tickets -> LoopType]
  BY LKinds
<1>2. loop[t].attempt >= 1
  BY DEF LInv
<1> DEFINE next == [loop[t] EXCEPT !.pc = p]
<1>3. next \in LoopType /\ next.pc = p /\ next.attempt = loop[t].attempt
  BY <1>1 DEF LoopType, Pcs
<1>4. loop' = [loop EXCEPT ![t] = next]
  BY <1>1 DEF LoopGoes
<1> HIDE DEF next
<1> QED BY <1>1, <1>2, <1>3, <1>4 DEF Moves

LEMMA RetriesMoves ==
  ASSUME LInv, NEW t \in Tickets, NEW why \in Feedback, loop[t].pc # "idle", Retries(t, why)
  PROVE  Moves(t, "stuck")
<1>1. loop \in [Tickets -> LoopType]
  BY LKinds
<1>2. loop[t].attempt >= 1
  BY DEF LInv
<1> DEFINE n == IF why = "none" THEN 0
                ELSE IF why = loop[t].feedback THEN Least(loop[t].repeats + 1, 3) ELSE 1
<1>3. n \in 0..3
  BY <1>1 DEF Least, LoopType
<1> DEFINE next == [loop[t] EXCEPT !.pc = "stuck", !.feedback = why, !.repeats = n]
<1>4. loop' = [loop EXCEPT ![t] = next]
  BY <1>1 DEF Retries
<1> HIDE DEF n
<1>5. next \in LoopType /\ next.pc = "stuck" /\ next.attempt = loop[t].attempt
  BY <1>1, <1>3 DEF LoopType
<1> HIDE DEF next
<1> QED BY <1>1, <1>2, <1>4, <1>5 DEF Moves

LEMMA SameTree ==
  ASSUME LInv, NEW t \in Tickets, UNCHANGED tree
  PROVE  Keeps(t)
  BY LKinds DEF Keeps

\* A step of t that touches no counter: it keeps the files of the guarded part
\* and of a review cleared.
EasyStep(t) ==
  /\ scope' \in [Tickets -> ScopeType] /\ base' \in [Tickets -> {"none", "passed", "failed"}]
  /\ tree' \in [Tickets -> TreeType]
  /\ \A u \in Tickets \ {t} : scope'[u] = scope[u] /\ tree'[u] = tree[u]
  /\ UNCHANGED <<slots, passes, calls, own>>
  /\ loop[t].pc # "idle" /\ loop[t].pc # "judge"
  /\ \/ \E r \in Answers \ {"stuck"} : Moves(t, "idle") /\ Says(t, r)
     \/ \E p \in Pcs \ {"idle", "judge"} : Moves(t, p) /\ UNCHANGED result
  /\ scope'[t].map \subseteq scope'[t].cleared
  /\ \/ loop'[t].pc \notin {"tests", "delivery"} /\ result'[t] # "review"
     \/ tree'[t].oos \subseteq scope'[t].cleared

\* Such a step preserves the invariant, whatever else runs.
LEMMA EasyKeepsInv ==
  ASSUME LInv, NEW t \in Tickets, EasyStep(t)
  PROVE  LInv'
<1>1. /\ loop' \in [Tickets -> LoopType] /\ result' \in [Tickets -> Answers]
      /\ loop'[t].pc # "judge"
      /\ loop'[t].pc # "idle" => loop'[t].attempt >= 1
      /\ \A u \in Tickets \ {t} : loop'[u] = loop[u] /\ result'[u] = result[u]
      /\ (result'[t] = result[t] /\ loop'[t].pc # "idle") \/ result'[t] # "stuck"
  BY LKinds DEF EasyStep, Moves, Says, Pcs, Answers
<1>2. LTypeOK'
  BY <1>1, LKinds, LTyped DEF EasyStep, LTypeOK, LoopType, TreeType, ScopeType, Answers
<1>3. InScope(t)'
  <2>1. result[t] # "review"
    BY DEF LInv, InScope, EasyStep
  <2> QED BY <1>1, <2>1 DEF EasyStep, InScope, Moves
<1>4. ASSUME NEW u \in Tickets
      PROVE  (loop'[u].pc # "idle" => loop'[u].attempt >= 1) /\ InScope(u)'
  <2>1. CASE u = t
    BY <1>1, <1>3, <2>1 DEF EasyStep, InScope
  <2>2. CASE u # t
    BY <1>1, <2>2 DEF EasyStep, LInv, InScope
  <2> QED BY <2>1, <2>2
<1>5. ASSUME slots' = 1 PROVE Alone' /\ \A u \in Tickets : Owned(u)'
  <2>1. slots = 1 /\ Alone /\ \A u \in Tickets : Owned(u)
    BY <1>5 DEF EasyStep, LInv
  <2>2. Alone'
    BY <1>1, <2>1 DEF Alone, EasyStep
  <2>3. ASSUME NEW u \in Tickets PROVE Owned(u)'
    BY <1>1, <2>1 DEF EasyStep, Owned
  <2> QED BY <2>2, <2>3
<1> QED BY <1>2, <1>4, <1>5 DEF LInv

\* A step that leaves the scope alone and enters the guarded part of a pass
\* only from within it.
Steps(t, p) ==
  /\ UNCHANGED <<slots, passes, calls, own, scope>>
  /\ base' \in [Tickets -> {"none", "passed", "failed"}]
  /\ loop[t].pc = p /\ p \notin {"idle", "judge"}
  /\ Keeps(t)

Ends(t) == \E r \in Answers \ {"stuck", "review"} : Moves(t, "idle") /\ Says(t, r)

LEMMA Ending ==
  ASSUME LInv, NEW t \in Tickets, NEW p, Steps(t, p), Ends(t)
  PROVE  EasyStep(t)
<1>1. PICK r \in Answers \ {"stuck", "review"} : Moves(t, "idle") /\ Says(t, r)
  BY DEF Ends
<1>2. loop'[t].pc = "idle" /\ result'[t] # "review" /\ scope[t].map \subseteq scope[t].cleared
  BY <1>1 DEF Moves, Says, LInv, InScope
<1> QED BY <1>1, <1>2, LKinds DEF Steps, EasyStep, Keeps

LEMMA Going ==
  ASSUME LInv, NEW t \in Tickets, NEW p, NEW q \in Pcs \ {"idle", "judge"}, Steps(t, p),
         Moves(t, q), UNCHANGED result,
         q \in {"tests", "delivery"} => tree[t].oos \subseteq scope[t].cleared
  PROVE  EasyStep(t)
  BY LKinds DEF Steps, EasyStep, Keeps, Moves, LInv, InScope

\* The actions of the loop, one lemma each.
LEMMA CloneAndBranchEasy ==
  ASSUME LInv, NEW t \in Tickets, CloneAndBranch(t)
  PROVE  EasyStep(t)
<1>1. Steps(t, "setup")
  BY LKinds DEF CloneAndBranch, Steps, Keeps, TreeType
<1>2. Ends(t) \/ (Moves(t, "gates") /\ UNCHANGED result)
  BY ReturnsMoves, GoesMoves DEF CloneAndBranch, Ends, Answers, Pcs
<1> QED BY <1>1, <1>2, Ending, Going DEF Pcs
LEMMA PrerequisiteGateEasy ==
  ASSUME LInv, NEW t \in Tickets, PrerequisiteGate(t)
  PROVE  EasyStep(t)
<1>1. Steps(t, "gates")
  BY LKinds DEF PrerequisiteGate, Steps, Keeps
<1>2. Ends(t) \/ (Moves(t, "baseline") /\ UNCHANGED result)
  BY ReturnsMoves, GoesMoves DEF PrerequisiteGate, Ends, Answers, Pcs
<1> QED BY <1>1, <1>2, Ending, Going DEF Pcs
LEMMA BaselinePassesEasy ==
  ASSUME LInv, NEW t \in Tickets, BaselinePasses(t)
  PROVE  EasyStep(t)
<1>1. Steps(t, "baseline")
  BY LKinds DEF BaselinePasses, Steps, Keeps
<1>2. Moves(t, "agent") /\ UNCHANGED result
  BY GoesMoves DEF BaselinePasses, Pcs
<1> QED BY <1>1, <1>2, Going DEF Pcs
LEMMA BaselineFailsEasy ==
  ASSUME LInv, NEW t \in Tickets, BaselineFails(t)
  PROVE  EasyStep(t)
<1>1. Ends(t) /\ Keeps(t)
  BY ReturnsMoves, CommitsMoves, SameTree DEF BaselineFails, Ends, Answers
<1>2. Steps(t, "baseline")
  BY <1>1, LKinds DEF BaselineFails, Steps
<1> QED BY <1>1, <1>2, Ending
LEMMA BaselineRaisesEasy ==
  ASSUME LInv, NEW t \in Tickets, BaselineRaises(t)
  PROVE  EasyStep(t)
<1>1. Ends(t) /\ Keeps(t)
  BY ReturnsMoves, SameTree DEF BaselineRaises, Ends, Answers
<1>2. Steps(t, "baseline")
  BY <1>1, LKinds DEF BaselineRaises, Steps
<1> QED BY <1>1, <1>2, Ending
LEMMA ResumeShortcutEasy ==
  ASSUME LInv, NEW t \in Tickets, ResumeShortcut(t)
  PROVE  EasyStep(t)
<1>1. Ends(t) /\ Keeps(t)
  BY ReturnsMoves, CommitsMoves, SameTree DEF ResumeShortcut, Ends, Answers
<1>2. Steps(t, "agent")
  BY <1>1, LKinds DEF ResumeShortcut, Steps
<1> QED BY <1>1, <1>2, Ending
LEMMA AgentStopsEasy ==
  ASSUME LInv, NEW t \in Tickets, AgentStops(t)
  PROVE  EasyStep(t)
<1>1. Ends(t) /\ Keeps(t)
  BY ReturnsMoves, CommitsMoves, SameTree DEF AgentStops, Ends, Answers
<1>2. Steps(t, "agent")
  BY <1>1, LKinds DEF AgentStops, Steps
<1> QED BY <1>1, <1>2, Ending
LEMMA CheckSummaryEasy ==
  ASSUME LInv, NEW t \in Tickets, CheckSummary(t)
  PROVE  EasyStep(t)
<1>1. Keeps(t) /\ Steps(t, "summary")
  BY LKinds, SameTree DEF CheckSummary, Steps
<1>2. \/ Ends(t)
      \/ Moves(t, "scope") /\ UNCHANGED result
      \/ Moves(t, "stuck") /\ UNCHANGED result
  BY ReturnsMoves, GoesMoves, RetriesMoves DEF CheckSummary, Ends, Answers, Pcs, Feedback
<1> QED BY <1>1, <1>2, Ending, Going DEF Pcs
LEMMA RepoSettingsGuardEasy ==
  ASSUME LInv, NEW t \in Tickets, RepoSettingsGuard(t)
  PROVE  EasyStep(t)
<1>1. Ends(t) /\ Keeps(t)
  BY CommitsMoves DEF RepoSettingsGuard, Ends, Answers
<1>2. Steps(t, "scope")
  BY <1>1, LKinds DEF RepoSettingsGuard, Steps
<1> QED BY <1>1, <1>2, Ending
LEMMA FloodGuardEasy ==
  ASSUME LInv, NEW t \in Tickets, FloodGuard(t)
  PROVE  EasyStep(t)
<1>1. Ends(t) /\ Keeps(t)
  BY CommitsMoves DEF FloodGuard, Ends, Answers
<1>2. Steps(t, "scope")
  BY <1>1, LKinds DEF FloodGuard, Steps
<1> QED BY <1>1, <1>2, Ending
LEMMA EscalateEasy ==
  ASSUME LInv, NEW t \in Tickets, Escalate(t)
  PROVE  EasyStep(t)
<1>1. Ends(t) /\ Keeps(t)
  BY ReturnsMoves, CommitsMoves, SameTree DEF Escalate, Ends, Answers
<1>2. Steps(t, "scope")
  BY <1>1, LKinds DEF Escalate, Steps
<1> QED BY <1>1, <1>2, Ending
LEMMA ScopeCleanEasy ==
  ASSUME LInv, NEW t \in Tickets, ScopeClean(t)
  PROVE  EasyStep(t)
<1>1. Steps(t, "scope")
  BY LKinds, SameTree DEF ScopeClean, Steps
<1>2. Moves(t, "tests") /\ UNCHANGED result
  BY GoesMoves DEF ScopeClean, Pcs
<1>3. tree[t].oos \subseteq scope[t].cleared
  BY DEF ScopeClean, OutOfScope, LInv, InScope
<1> QED BY <1>1, <1>2, <1>3, Going DEF Pcs
LEMMA TestsFailEasy ==
  ASSUME LInv, NEW t \in Tickets, TestsFail(t)
  PROVE  EasyStep(t)
<1>1. Keeps(t)
  BY CommitsMoves, SameTree DEF TestsFail, Answers
<1>2. Steps(t, "tests")
  BY <1>1, LKinds DEF TestsFail, Steps
<1>3. Ends(t) \/ (Moves(t, "stuck") /\ UNCHANGED result)
  BY CommitsMoves, RetriesMoves DEF TestsFail, Ends, Answers, Feedback
<1> QED BY <1>2, <1>3, Ending, Going DEF Pcs
LEMMA TestsRaiseEasy ==
  ASSUME LInv, NEW t \in Tickets, TestsRaise(t)
  PROVE  EasyStep(t)
<1>1. Ends(t) /\ Keeps(t)
  BY ReturnsMoves, SameTree DEF TestsRaise, Ends, Answers
<1>2. Steps(t, "tests")
  BY <1>1, LKinds DEF TestsRaise, Steps
<1> QED BY <1>1, <1>2, Ending
LEMMA TestsPassEasy ==
  ASSUME LInv, NEW t \in Tickets, TestsPass(t)
  PROVE  EasyStep(t)
<1>1. Steps(t, "tests")
  BY LKinds, SameTree DEF TestsPass, Steps
<1>2. Moves(t, "delivery") /\ UNCHANGED result
  BY GoesMoves DEF TestsPass, Pcs
<1>3. tree[t].oos \subseteq scope[t].cleared
  BY DEF TestsPass, LInv, InScope
<1> QED BY <1>1, <1>2, <1>3, Going DEF Pcs
LEMMA NoChangeNeededEasy ==
  ASSUME LInv, NEW t \in Tickets, NoChangeNeeded(t)
  PROVE  EasyStep(t)
<1>1. Ends(t) /\ Keeps(t)
  BY ReturnsMoves, SameTree DEF NoChangeNeeded, Ends, Answers
<1>2. Steps(t, "delivery")
  BY <1>1, LKinds DEF NoChangeNeeded, Steps
<1> QED BY <1>1, <1>2, Ending
LEMMA ClaimsMissingEasy ==
  ASSUME LInv, NEW t \in Tickets, ClaimsMissing(t)
  PROVE  EasyStep(t)
<1>1. Keeps(t)
  BY CommitsMoves, SameTree DEF ClaimsMissing, Answers
<1>2. Steps(t, "delivery")
  BY <1>1, LKinds DEF ClaimsMissing, Steps
<1>3. Ends(t) \/ (Moves(t, "stuck") /\ UNCHANGED result)
  BY CommitsMoves, RetriesMoves DEF ClaimsMissing, Ends, Answers, Feedback
<1> QED BY <1>2, <1>3, Ending, Going DEF Pcs

\* An action that writes the whole record of its loop.
LEMMA Replaced ==
  ASSUME LInv, NEW t \in Tickets, NEW next \in LoopType, loop' = [loop EXCEPT ![t] = next],
         next.attempt >= 1 \/ next.pc = "idle"
  PROVE  Moves(t, next.pc) /\ loop'[t] = next
  BY LKinds DEF Moves

LEMMA DeliversEasy ==
  ASSUME LInv, NEW t \in Tickets, Delivers(t)
  PROVE  EasyStep(t)
<1>1. Moves(t, "idle") /\ Says(t, "review") /\ Keeps(t)
  BY CommitsMoves DEF Delivers, Answers
<1>2. InScope(t) /\ loop[t].pc = "delivery"
  BY DEF Delivers, LInv
<1>3. UNCHANGED <<slots, base, passes, calls, own, scope>>
  BY DEF Delivers
<1> QED BY <1>1, <1>2, <1>3, LKinds DEF EasyStep, Keeps, InScope, Answers
LEMMA BypassEasy ==
  ASSUME LInv, NEW t \in Tickets, Bypass(t)
  PROVE  EasyStep(t)
<1>1. Steps(t, "agent")
  BY LKinds DEF Bypass, Steps, Keeps, TreeType
<1> DEFINE next == [loop[t] EXCEPT !.pc = "scope", !.did = "bypass"]
<1>2. next \in LoopType /\ next.pc = "scope" /\ next.attempt = loop[t].attempt
  BY LoopKinds DEF LoopType
<1>3. loop' = [loop EXCEPT ![t] = next] /\ loop[t].attempt >= 1 /\ UNCHANGED result
  BY LKinds DEF Bypass, LInv
<1> HIDE DEF next
<1> QED BY <1>1, <1>2, <1>3, Replaced, Going DEF Pcs
LEMMA BypassFailsEasy ==
  ASSUME LInv, NEW t \in Tickets, BypassFails(t)
  PROVE  EasyStep(t)
<1>1. Steps(t, "agent")
  BY LKinds DEF BypassFails, Steps, Keeps
<1> DEFINE next == [loop[t] EXCEPT !.pc = "stuck", !.did = "bypass", !.feedback = "claims",
                                   !.repeats = 1]
<1>2. next \in LoopType /\ next.pc = "stuck" /\ next.attempt = loop[t].attempt
  <2>1. "claims" \in Feedback /\ 1 \in 0..3
    BY DEF Feedback
  <2> QED BY <2>1, LoopKinds DEF LoopType
<1>3. loop' = [loop EXCEPT ![t] = next] /\ loop[t].attempt >= 1 /\ UNCHANGED result
  BY LKinds DEF BypassFails, LInv
<1> HIDE DEF next
<1> QED BY <1>1, <1>2, <1>3, Replaced, Going DEF Pcs
LEMMA AgentWorksEasy ==
  ASSUME LInv, NEW t \in Tickets, AgentWorks(t)
  PROVE  EasyStep(t)
<1>1. PICK did \in {"nothing", "reads", "edits"} :
        /\ loop' = [loop EXCEPT ![t].pc = "summary", ![t].did = did]
        /\ IF did = "edits"
           THEN \E dirty \in BOOLEAN, touched \in SUBSET OutFiles :
                  /\ touched # {} => dirty
                  /\ tree' = [tree EXCEPT ![t].dirty = @ \/ dirty, ![t].oos = @ \cup touched]
           ELSE UNCHANGED tree
  BY DEF AgentWorks
<1>2. loop[t].pc = "agent" /\ UNCHANGED <<slots, base, passes, calls, own, scope, result>>
  BY DEF AgentWorks
<1> DEFINE next == [loop[t] EXCEPT !.pc = "summary", !.did = did]
<1>3. next \in LoopType /\ next.pc = "summary" /\ next.attempt = loop[t].attempt
  BY <1>1, LoopKinds DEF LoopType
<1>4. loop' = [loop EXCEPT ![t] = next] /\ loop[t].attempt >= 1
  BY <1>1, <1>2, LKinds DEF LInv
<1> HIDE DEF next
<1>5. Moves(t, "summary")
  <2>1. next.attempt >= 1
    BY <1>3, <1>4
  <2>2. Moves(t, next.pc)
    BY <1>3, <1>4, <2>1, Replaced
  <2> QED BY <1>3, <2>2
<1>6. tree' \in [Tickets -> TreeType] /\ \A u \in Tickets \ {t} : tree'[u] = tree[u]
  <2>1. CASE UNCHANGED tree
    BY <2>1, LKinds
  <2>2. CASE did = "edits"
    <3>1. PICK dirty \in BOOLEAN, touched \in SUBSET OutFiles :
            tree' = [tree EXCEPT ![t].dirty = @ \/ dirty, ![t].oos = @ \cup touched]
      BY <1>1, <2>2
    <3> DEFINE b == [tree[t] EXCEPT !.dirty = @ \/ dirty, !.oos = @ \cup touched]
    <3>2. b \in TreeType
      BY LoopKinds DEF TreeType
    <3>3. tree' = [tree EXCEPT ![t] = b]
      BY <3>1, LKinds
    <3> HIDE DEF b
    <3> QED BY <3>2, <3>3, LKinds
  <2> QED BY <1>1, <2>1, <2>2
<1>7. scope[t].map \subseteq scope[t].cleared /\ result[t] # "review"
  BY <1>2 DEF LInv, InScope
<1> QED BY <1>2, <1>5, <1>6, <1>7, LKinds DEF EasyStep, Pcs, Moves

\* The guardrail changes scope and branch together.
LEMMA GuardEasy ==
  ASSUME LInv, NEW t \in Tickets, loop[t].pc = "scope",
         scope' \in [Tickets -> ScopeType], tree' \in [Tickets -> TreeType],
         \A u \in Tickets \ {t} : scope'[u] = scope[u] /\ tree'[u] = tree[u],
         UNCHANGED <<slots, base, passes, calls, own>>,
         \/ Moves(t, "scope") /\ UNCHANGED result
         \/ Moves(t, "stuck") /\ UNCHANGED result
         \/ Moves(t, "tests") /\ UNCHANGED result /\ tree'[t].oos \subseteq scope'[t].cleared
         \/ Ends(t),
         scope'[t].map \subseteq scope'[t].cleared
  PROVE  EasyStep(t)
<1>1. result[t] # "review"
  BY DEF LInv, InScope
<1> QED BY <1>1, LKinds DEF EasyStep, Ends, Moves, Says, Pcs

LEMMA AcceptsEasy ==
  ASSUME LInv, NEW t \in Tickets, NEW files \in SUBSET OutFiles, Accepts(t, files)
  PROVE  EasyStep(t)
<1>1. Moves(t, "scope") /\ UNCHANGED <<result, tree>>
  BY LKinds DEF Accepts, Moves, LInv
<1> DEFINE next == [scope[t] EXCEPT !.map = @ \cup files, !.cleared = @ \cup files]
<1>2. next \in ScopeType /\ next.map \subseteq next.cleared
  BY LoopKinds DEF LInv, InScope, ScopeType
<1>3. scope' = [scope EXCEPT ![t] = next]
  BY LKinds DEF Accepts
<1> HIDE DEF next
<1>4. /\ scope' \in [Tickets -> ScopeType] /\ scope'[t].map \subseteq scope'[t].cleared
      /\ \A u \in Tickets \ {t} : scope'[u] = scope[u]
  BY <1>2, <1>3, LKinds
<1> QED BY <1>1, <1>4, GuardEasy, LKinds DEF Accepts

LEMMA DropsEasy ==
  ASSUME LInv, NEW t \in Tickets, NEW files \in SUBSET OutFiles, Drops(t, files)
  PROVE  EasyStep(t)
<1>1. Moves(t, "scope") /\ UNCHANGED <<result, scope>>
  BY LKinds DEF Drops, Moves, LInv
<1>2. tree' \in [Tickets -> TreeType] /\ \A u \in Tickets \ {t} : tree'[u] = tree[u]
  BY LKinds DEF Drops, TreeType
<1> QED BY <1>1, <1>2, GuardEasy, LKinds DEF Drops, LInv, InScope

LEMMA Outside ==
  ASSUME LInv, NEW t \in Tickets
  PROVE  OutOfScope(t) \in SUBSET OutFiles
  BY LKinds DEF OutOfScope, TreeType

LEMMA ExpandEasy ==
  ASSUME LInv, NEW t \in Tickets, Expand(t)
  PROVE  EasyStep(t)
<1>1. PICK new \in SUBSET OutFiles :
        /\ scope' = [scope EXCEPT ![t].map = @ \cup new, ![t].expands = @ + 1,
                                  ![t].cleared = @ \cup OutOfScope(t) \cup new]
        /\ IF new \subseteq tree[t].oos THEN LoopGoes(t, "tests") ELSE Retries(t, "none")
  BY DEF Expand
<1>2. /\ loop[t].pc = "scope" /\ scope[t].expands < MaxExpands
      /\ UNCHANGED <<slots, base, passes, calls, own, tree, result>>
  BY DEF Expand
<1>3. Moves(t, "tests") \/ Moves(t, "stuck")
  BY <1>1, <1>2, GoesMoves, RetriesMoves DEF Pcs, Feedback
<1> DEFINE next == [scope[t] EXCEPT !.map = @ \cup new, !.expands = @ + 1,
                                    !.cleared = @ \cup OutOfScope(t) \cup new]
<1>4. scope' = [scope EXCEPT ![t] = next]
  BY <1>1, LKinds
<1>5. scope[t].expands + 1 \in 0..MaxExpands
  BY <1>2, LKinds, ImplementLoopConstants DEF ScopeType
<1>6. next \in ScopeType /\ next.map \subseteq next.cleared /\ tree[t].oos \subseteq next.cleared
  BY <1>5, LKinds, Outside DEF ScopeType, LInv, InScope, OutOfScope
<1> HIDE DEF next
<1> QED BY <1>2, <1>3, <1>4, <1>6, GuardEasy, LKinds
LEMMA ExpandNothingEasy ==
  ASSUME LInv, NEW t \in Tickets, ExpandNothing(t)
  PROVE  EasyStep(t)
<1>1. Moves(t, "tests") /\ UNCHANGED result
  BY GoesMoves DEF ExpandNothing, Pcs
<1>2. /\ scope' \in [Tickets -> ScopeType] /\ scope'[t].map \subseteq scope'[t].cleared
      /\ \A u \in Tickets \ {t} : scope'[u] = scope[u]
      /\ tree[t].oos \subseteq scope'[t].cleared
  BY LKinds, Outside DEF ExpandNothing, LInv, InScope, ScopeType, OutOfScope
<1> QED BY <1>1, <1>2, GuardEasy, LKinds DEF ExpandNothing
LEMMA SplitEasy ==
  ASSUME LInv, NEW t \in Tickets, Split(t)
  PROVE  EasyStep(t)
<1>1. PICK new \in SUBSET OutFiles :
        \/ scope' = [scope EXCEPT ![t].split = @ \cup new]
           /\ Restores(t) /\ LoopGoes(t, "tests") /\ UNCHANGED result
        \/ ~ new \subseteq scope[t].split /\ Commits(t, "blocked") /\ UNCHANGED scope
  BY DEF Split
<1>2. loop[t].pc = "scope" /\ UNCHANGED <<slots, base, passes, calls, own>>
  BY DEF Split
<1>3. CASE Commits(t, "blocked") /\ UNCHANGED scope
  <2>1. Ends(t) /\ Keeps(t)
    BY <1>3, CommitsMoves DEF Ends, Answers
  <2> QED BY <1>2, <1>3, <2>1, GuardEasy, LKinds DEF Keeps, LInv, InScope
<1>4. CASE scope' = [scope EXCEPT ![t].split = @ \cup new]
           /\ Restores(t) /\ LoopGoes(t, "tests") /\ UNCHANGED result
  <2>1. Moves(t, "tests")
    BY <1>2, <1>4, GoesMoves DEF Pcs
  <2>2. /\ scope' \in [Tickets -> ScopeType] /\ scope'[t].map = scope[t].map
        /\ scope'[t].cleared = scope[t].cleared
        /\ \A u \in Tickets \ {t} : scope'[u] = scope[u]
    BY <1>4, LKinds DEF ScopeType
  <2>3. /\ tree' \in [Tickets -> TreeType] /\ tree'[t].oos \subseteq scope[t].map
        /\ \A u \in Tickets \ {t} : tree'[u] = tree[u]
    <3>1. PICK dirty \in BOOLEAN :
            tree' = [tree EXCEPT ![t].oos = @ \ OutOfScope(t), ![t].dirty = dirty]
      BY <1>4 DEF Restores
    <3> DEFINE b == [tree[t] EXCEPT !.oos = @ \ OutOfScope(t), !.dirty = dirty]
    <3>2. b \in TreeType /\ b.oos \subseteq scope[t].map
      BY LoopKinds DEF TreeType, OutOfScope
    <3>3. tree' = [tree EXCEPT ![t] = b]
      BY <3>1, LKinds
    <3> HIDE DEF b
    <3> QED BY <3>2, <3>3, LKinds
  <2> QED BY <1>2, <1>4, <2>1, <2>2, <2>3, GuardEasy DEF LInv, InScope
<1> QED BY <1>1, <1>3, <1>4
LEMMA RejectEasy ==
  ASSUME LInv, NEW t \in Tickets, Reject(t)
  PROVE  EasyStep(t)
<1>1. Ends(t)
  BY ReturnsMoves DEF Reject, Ends, Answers
<1>2. /\ scope' \in [Tickets -> ScopeType] /\ scope'[t].map = scope[t].map
      /\ scope'[t].cleared = scope[t].cleared
      /\ \A u \in Tickets \ {t} : scope'[u] = scope[u]
  BY LKinds, Outside DEF Reject, ScopeType
<1> DEFINE b == [tree[t] EXCEPT !.oos = @ \ OutOfScope(t), !.dirty = FALSE,
                                !.ahead = @ \/ tree[t].dirty]
<1>b. b \in TreeType /\ tree' = [tree EXCEPT ![t] = b]
  BY LoopKinds, LKinds DEF TreeType, Reject
<1> HIDE DEF b
<1>3. tree' \in [Tickets -> TreeType] /\ \A u \in Tickets \ {t} : tree'[u] = tree[u]
  BY <1>b, LKinds
<1> QED BY <1>1, <1>2, <1>3, GuardEasy DEF Reject, LInv, InScope

\* A step of t that reads or writes the shared counters.
SharedStep(t) ==
  /\ UNCHANGED slots /\ Counters' /\ own' \in [Tickets -> 0..StuckPasses]
  /\ scope' \in [Tickets -> ScopeType] /\ base' \in [Tickets -> {"none", "passed", "failed"}]
  /\ tree' \in [Tickets -> TreeType] /\ result' \in [Tickets -> Answers]
  /\ \E p \in Pcs : Moves(t, p)
  /\ \A u \in Tickets \ {t} : /\ scope'[u] = scope[u] /\ tree'[u] = tree[u]
                              /\ result'[u] = result[u] /\ own'[u] = own[u]
  /\ InScope(t)'
  /\ slots = 1 => (\A u \in Tickets \ {t} : loop[u].pc = "idle") /\ Owned(t)'

\* It preserves the invariant when, with one stage at a time, no other loop runs.
LEMMA SharedKeepsInv ==
  ASSUME LInv, NEW t \in Tickets, SharedStep(t)
  PROVE  LInv'
<1>1. /\ loop' \in [Tickets -> LoopType]
      /\ loop'[t].pc # "idle" => loop'[t].attempt >= 1
      /\ \A u \in Tickets \ {t} : loop'[u] = loop[u]
  BY DEF SharedStep, Moves
<1>2. LTypeOK'
  BY <1>1, LKinds DEF SharedStep, Counters, LTypeOK, LoopType, TreeType, ScopeType, Answers
<1>3. ASSUME NEW u \in Tickets
      PROVE  (loop'[u].pc # "idle" => loop'[u].attempt >= 1) /\ InScope(u)'
  <2>1. CASE u = t
    BY <1>1, <2>1 DEF SharedStep
  <2>2. CASE u # t
    BY <1>1, <2>2 DEF SharedStep, LInv, InScope
  <2> QED BY <2>1, <2>2
<1>4. ASSUME slots' = 1 PROVE Alone' /\ \A u \in Tickets : Owned(u)'
  <2>1. /\ slots = 1 /\ \A u \in Tickets : Owned(u)
        /\ \A u \in Tickets \ {t} : loop[u].pc = "idle"
        /\ Owned(t)'
    BY <1>4 DEF SharedStep, LInv
  <2>2. Alone'
    BY <1>1, <2>1 DEF Alone
  <2>3. ASSUME NEW u \in Tickets \ {t} PROVE Owned(u)'
    BY <1>1, <2>1 DEF SharedStep, Owned
  <2> QED BY <2>1, <2>2, <2>3
<1> QED BY <1>2, <1>3, <1>4 DEF LInv

\* The actions that touch the counters.
LEMMA StartLoopShares ==
  ASSUME LInv, NEW t \in Tickets, StartLoop(t)
  PROVE  SharedStep(t)
<1>1. /\ loop[t].pc = "idle" /\ result[t] # "review" /\ loop[t].runs < MaxRuns
      /\ Cardinality({u \in Tickets : loop[u].pc # "idle"}) < slots
      /\ passes' = 0 /\ calls' = 0 /\ own' = [own EXCEPT ![t] = 0]
      /\ scope' = [scope EXCEPT ![t].map = {}]
      /\ UNCHANGED <<slots, base, tree, result>>
  BY DEF StartLoop
<1> DEFINE next == [NoLoop EXCEPT !.pc = "setup", !.attempt = 1, !.runs = loop[t].runs + 1]
<1>2. next \in LoopType /\ next.pc = "setup" /\ next.attempt = 1
  <2>1. loop[t].runs + 1 \in 0..MaxRuns /\ 1 \in 0..MaxIters
    BY <1>1, LoopKinds, ImplementLoopConstants DEF LoopType
  <2>2. 0 \in 0..3 /\ 0 \in 0..StuckPasses /\ 0 \in 0..StuckCalls
    BY ImplementLoopConstants
  <2> QED BY <2>1, <2>2 DEF NoLoop, LoopType, Feedback
<1>3. loop' = [loop EXCEPT ![t] = next]
  BY DEF StartLoop
<1> HIDE DEF next
<1>4. Moves(t, "setup")
  <2>1. next.attempt >= 1
    BY <1>2
  <2>2. Moves(t, next.pc)
    BY <1>2, <1>3, <2>1, Replaced
  <2> QED BY <1>2, <2>2
<1>5. Counters' /\ own' \in [Tickets -> 0..StuckPasses]
  BY <1>1, LKinds, ImplementLoopConstants DEF Counters
<1>6. scope' \in [Tickets -> ScopeType] /\ scope'[t].map = {}
  BY <1>1, LKinds, LoopKinds DEF ScopeType
<1>7. InScope(t)'
  BY <1>1, <1>4, <1>6 DEF InScope, Moves
<1>8. ASSUME slots = 1 PROVE (\A u \in Tickets \ {t} : loop[u].pc = "idle") /\ Owned(t)'
  <2> DEFINE busy == {u \in Tickets : loop[u].pc # "idle"}
  <2>1. IsFiniteSet(busy) /\ Cardinality(busy) \in Nat
    BY FS_Subset, FS_CardinalityType, ImplementLoopConstants
  <2>2. Cardinality(busy) = 0
    BY <1>1, <1>8, <2>1
  <2>3. busy = {}
    BY <2>1, <2>2, FS_EmptySet
  <2>4. own'[t] = passes'
    BY <1>1, LKinds
  <2> QED BY <1>4, <2>3, <2>4 DEF Owned, Moves
<1> QED BY <1>1, <1>4, <1>5, <1>6, <1>7, <1>8, LKinds DEF SharedStep, Pcs
LEMMA ReadCountersShares ==
  ASSUME LInv, NEW t \in Tickets, ReadCounters(t)
  PROVE  SharedStep(t)
<1>1. /\ loop[t].pc = "stuck"
      /\ UNCHANGED <<slots, base, passes, calls, own, tree, scope, result>>
  BY DEF ReadCounters
<1> DEFINE next == [loop[t] EXCEPT !.pc = "judge", !.np = passes, !.nc = calls]
<1>2. next \in LoopType /\ next.pc = "judge" /\ next.attempt = loop[t].attempt /\ next.np = passes
  BY LoopKinds, LKinds DEF LoopType
<1>3. loop' = [loop EXCEPT ![t] = next] /\ loop[t].attempt >= 1
  BY <1>1, LKinds DEF ReadCounters, LInv
<1> HIDE DEF next
<1>4. Moves(t, "judge") /\ loop'[t] = next
  BY <1>2, <1>3, Replaced
<1>5. InScope(t)'
  BY <1>1, <1>4 DEF InScope, Moves, LInv
<1>6. ASSUME slots = 1 PROVE (\A u \in Tickets \ {t} : loop[u].pc = "idle") /\ Owned(t)'
  BY <1>1, <1>2, <1>4, <1>6 DEF LInv, Alone, Owned
<1> QED BY <1>1, <1>4, <1>5, <1>6, LKinds DEF SharedStep, Counters, Pcs

\* The counts stay within their bounds, and a pass that left no difference
\* counts at least one.
LEMMA CountedRange ==
  ASSUME NEW t \in Tickets, NEW n \in 0..StuckPasses
  PROVE  Counted(t, n) \in 0..StuckPasses /\ (~HasDiff(t) => Counted(t, n) >= 1)
<1>1. CASE HasDiff(t)
  BY <1>1, ImplementLoopConstants DEF Counted
<1>2. CASE ~HasDiff(t)
  BY <1>2, ImplementLoopConstants DEF Counted, Least
<1> QED BY <1>1, <1>2

LEMMA CountedCallsRange ==
  ASSUME LInv, NEW t \in Tickets
  PROVE  CountedCalls(t) \in 0..StuckCalls
<1>1. loop[t].nc \in 0..StuckCalls
  BY LoopKinds DEF LoopType
<1>2. 0 \in 0..StuckCalls /\ Least(loop[t].nc + 1, StuckCalls) \in 0..StuckCalls
  BY <1>1, ImplementLoopConstants DEF Least
<1> QED BY <1>1, <1>2 DEF CountedCalls

\* Both judgements write the counters for the ticket that runs alone.
LEMMA JudgedShares ==
  ASSUME LInv, NEW t \in Tickets, NEW p \in {"idle", "agent"}, NEW n \in 0..StuckPasses,
         NEW m \in 0..StuckPasses,
         loop[t].pc = "judge", Moves(t, p), Keeps(t), passes' = n, calls' \in 0..StuckCalls,
         own' = [own EXCEPT ![t] = m], UNCHANGED <<slots, base, scope>>,
         \/ p = "agent" /\ UNCHANGED result
         \/ p = "idle" /\ \E r \in Answers \ {"review"} :
                            Says(t, r) /\ (r = "stuck" => n >= StuckPasses),
         slots = 1 => m = n
  PROVE  SharedStep(t)
<1>1. result[t] # "review" /\ scope[t].map \subseteq scope[t].cleared
  BY DEF LInv, InScope
<1>2. /\ result' \in [Tickets -> Answers] /\ result'[t] # "review"
      /\ \A u \in Tickets \ {t} : result'[u] = result[u]
      /\ p = "idle" /\ result'[t] = "stuck" => n >= StuckPasses
  BY <1>1, LKinds DEF Says
<1>3. InScope(t)'
  BY <1>1, <1>2 DEF InScope, Moves
<1>4. Counters' /\ own' \in [Tickets -> 0..StuckPasses] /\ own'[t] = m
  BY LKinds DEF Counters
<1>5. ASSUME slots = 1 PROVE (\A u \in Tickets \ {t} : loop[u].pc = "idle") /\ Owned(t)'
  <2>1. \A u \in Tickets \ {t} : loop[u].pc = "idle"
    BY <1>5 DEF LInv, Alone
  <2>2. own'[t] = n /\ passes' = n
    BY <1>4, <1>5
  <2>3. loop'[t].pc = p
    BY DEF Moves
  <2> QED BY <1>2, <2>1, <2>2, <2>3 DEF Owned
<1> QED BY <1>2, <1>3, <1>4, <1>5, LKinds DEF SharedStep, Keeps, Pcs

LEMMA ShortCircuitShares ==
  ASSUME LInv, NEW t \in Tickets, ShortCircuit(t)
  PROVE  SharedStep(t)
<1>1. /\ loop[t].pc = "judge" /\ UNCHANGED <<slots, base, scope>>
      /\ passes' = Counted(t, loop[t].np) /\ calls' = CountedCalls(t)
      /\ own' = [own EXCEPT ![t] = Counted(t, own[t])]
  BY DEF ShortCircuit
<1>2. loop[t].np \in 0..StuckPasses /\ own[t] \in 0..StuckPasses
  BY LoopKinds, LKinds DEF LoopType
<1>3. \E r \in {"deliverable", "blocked"} : Commits(t, r)
  BY DEF ShortCircuit
<1>4. \E r \in {"deliverable", "blocked"} : Moves(t, "idle") /\ Says(t, r) /\ Keeps(t)
  BY <1>3, CommitsMoves DEF Answers
<1>5. slots = 1 => own[t] = loop[t].np
  BY <1>1 DEF LInv, Owned
<1>6. Counted(t, loop[t].np) \in 0..StuckPasses /\ Counted(t, own[t]) \in 0..StuckPasses
  BY <1>2, CountedRange
<1>7. \E r \in Answers \ {"review"} :
        Says(t, r) /\ (r = "stuck" => Counted(t, loop[t].np) >= StuckPasses)
  BY <1>4 DEF Answers
<1> QED BY <1>1, <1>4, <1>5, <1>6, <1>7, CountedCallsRange, JudgedShares
LEMMA JudgeShares ==
  ASSUME LInv, NEW t \in Tickets, Judge(t)
  PROVE  SharedStep(t)
<1> DEFINE spared == IF loop[t].did = "edits" /\ ~HasDiff(t) THEN 1 ELSE 0
           n == Counted(t, loop[t].np) - spared
           m == Counted(t, own[t]) - spared
<1>1. /\ loop[t].pc = "judge" /\ UNCHANGED <<slots, base, scope>>
      /\ passes' = n /\ calls' = CountedCalls(t) /\ own' = [own EXCEPT ![t] = m]
  BY DEF Judge
<1>2. loop[t].np \in 0..StuckPasses /\ own[t] \in 0..StuckPasses
  BY LoopKinds, LKinds DEF LoopType
<1>3. n \in 0..StuckPasses /\ m \in 0..StuckPasses
  <2>1. spared \in {0, 1} /\ (spared = 1 => ~HasDiff(t))
    OBVIOUS
  <2> HIDE DEF spared
  <2>2. /\ Counted(t, loop[t].np) \in 0..StuckPasses
        /\ Counted(t, own[t]) \in 0..StuckPasses
        /\ spared = 1 => Counted(t, loop[t].np) >= 1 /\ Counted(t, own[t]) >= 1
    BY <1>2, <2>1, CountedRange
  <2> QED BY <2>1, <2>2, ImplementLoopConstants
<1>4. slots = 1 => m = n
  BY <1>1 DEF LInv, Owned
<1>5. \/ n >= StuckPasses /\ Commits(t, "stuck")
      \/ Commits(t, "blocked")
      \/ NextPass(t)
  BY DEF Judge
<1> HIDE DEF n, m
<1>6. CASE n >= StuckPasses /\ Commits(t, "stuck")
  <2>1. Moves(t, "idle") /\ Says(t, "stuck") /\ Keeps(t)
    BY <1>6, CommitsMoves DEF Answers
  <2>2. \E r \in Answers \ {"review"} : Says(t, r) /\ (r = "stuck" => n >= StuckPasses)
    BY <1>6, <2>1 DEF Answers
  <2> QED BY <1>1, <1>3, <1>4, <2>1, <2>2, CountedCallsRange, JudgedShares
<1>7. CASE Commits(t, "blocked")
  <2>1. Moves(t, "idle") /\ Says(t, "blocked") /\ Keeps(t)
    BY <1>7, CommitsMoves DEF Answers
  <2>2. \E r \in Answers \ {"review"} : Says(t, r) /\ (r = "stuck" => n >= StuckPasses)
    BY <2>1 DEF Answers
  <2> QED BY <1>1, <1>3, <1>4, <2>1, <2>2, CountedCallsRange, JudgedShares
<1>8. CASE loop[t].attempt # MaxIters /\ NextPass(t)
  <2> DEFINE next == [loop[t] EXCEPT !.pc = "agent", !.attempt = @ + 1]
  <2>1. loop' = [loop EXCEPT ![t] = next] /\ UNCHANGED <<tree, result>>
    BY <1>8, LKinds DEF NextPass
  <2>2. loop[t].attempt \in 0..MaxIters
    BY LoopKinds DEF LoopType
  <2>3. loop[t].attempt + 1 \in 0..MaxIters /\ loop[t].attempt + 1 >= 1
    BY <1>8, <2>2, ImplementLoopConstants
  <2>4. next \in LoopType /\ next.pc = "agent" /\ next.attempt = loop[t].attempt + 1
    BY <2>3, LoopKinds DEF LoopType
  <2> HIDE DEF next
  <2>5. Moves(t, "agent")
    BY <2>1, <2>3, <2>4, Replaced
  <2>6. Keeps(t)
    BY <2>1, SameTree
  <2> QED BY <1>1, <1>3, <1>4, <2>1, <2>5, <2>6, CountedCallsRange, JudgedShares
<1> QED BY <1>5, <1>6, <1>7, <1>8 DEF NextPass

\* No loop runs at first.
LEMMA LInitially == LInit => LInv
<1> SUFFICES ASSUME LInit PROVE LInv
  OBVIOUS
<1>1. NoLoop \in LoopType /\ NoLoop.pc = "idle"
  BY ImplementLoopConstants DEF NoLoop, LoopType, Feedback
<1>2. /\ [dirty |-> FALSE, ahead |-> FALSE, oos |-> {}] \in TreeType
      /\ [map |-> {}, expands |-> 0, split |-> {}, cleared |-> {}, bounced |-> {}] \in ScopeType
  BY ImplementLoopConstants DEF TreeType, ScopeType
<1>3. LTypeOK
  <2>1. loop \in [Tickets -> LoopType] /\ tree \in [Tickets -> TreeType] /\ scope \in [Tickets -> ScopeType]
    BY <1>1, <1>2 DEF LInit
  <2>2. /\ base \in [Tickets -> {"none", "passed", "failed"}] /\ result \in [Tickets -> Answers]
        /\ own \in [Tickets -> 0..StuckPasses] /\ slots \in Concurrency
        /\ passes \in 0..StuckPasses /\ calls \in 0..StuckCalls
    BY ImplementLoopConstants DEF LInit, Answers
  <2> QED BY <2>1, <2>2, LTyped
<1>4. ASSUME NEW t \in Tickets
      PROVE  (loop[t].pc # "idle" => loop[t].attempt >= 1) /\ InScope(t) /\ Owned(t)
  BY <1>1 DEF LInit, InScope, Owned
<1>5. Alone
  BY <1>1 DEF LInit, Alone
<1> QED BY <1>3, <1>4, <1>5 DEF LInv

\* The alternatives of the scope guardrail.
LEMMA GuardrailEasy ==
  ASSUME LInv, NEW t \in Tickets, Guardrail(t)
  PROVE  EasyStep(t)
<1>1. CASE SpecCites(t) \/ FilterVendored(t) \/ OperatorAccepts(t)
  <2>1. PICK files \in SUBSET OutOfScope(t) : Accepts(t, files)
    BY <1>1 DEF SpecCites, FilterVendored, OperatorAccepts
  <2> QED BY <2>1, Outside, AcceptsEasy
<1>2. CASE CleanBinaryArtifacts(t) \/ RevertStandardConfigs(t)
  <2>1. PICK files \in SUBSET OutOfScope(t) : Drops(t, files)
    BY <1>2 DEF CleanBinaryArtifacts, RevertStandardConfigs
  <2> QED BY <2>1, Outside, DropsEasy
<1> QED BY <1>1, <1>2, ScopeCleanEasy, RepoSettingsGuardEasy, FloodGuardEasy, EscalateEasy,
           ExpandEasy, ExpandNothingEasy, SplitEasy, RejectEasy DEF Guardrail

\* One step per group of actions.
LEMMA LStep == LInv /\ [LNext]_lvars => LInv'
<1> SUFFICES ASSUME LInv, [LNext]_lvars PROVE LInv'
  OBVIOUS
<1>1. CASE UNCHANGED lvars
  <2>1. UNCHANGED <<slots, passes, calls, loop, tree, scope, base, result, own>>
    BY <1>1 DEF lvars
  <2> QED BY <2>1 DEF LInv, LTypeOK, InScope, Alone, Owned
<1>2. ASSUME NEW t \in Tickets, StartLoop(t) \/ ReadCounters(t) \/ ShortCircuit(t) \/ Judge(t)
      PROVE  LInv'
  BY <1>2, StartLoopShares, ReadCountersShares, ShortCircuitShares, JudgeShares, SharedKeepsInv
<1>3. ASSUME NEW t \in Tickets,
             \/ CloneAndBranch(t) \/ PrerequisiteGate(t) \/ BaselinePasses(t)
             \/ BaselineFails(t) \/ BaselineRaises(t) \/ ResumeShortcut(t)
             \/ Bypass(t) \/ BypassFails(t) \/ AgentWorks(t) \/ AgentStops(t)
             \/ CheckSummary(t) \/ Guardrail(t)
             \/ TestsFail(t) \/ TestsRaise(t) \/ TestsPass(t)
             \/ NoChangeNeeded(t) \/ ClaimsMissing(t) \/ Delivers(t)
      PROVE  LInv'
  <2>1. EasyStep(t)
    BY <1>3, CloneAndBranchEasy, PrerequisiteGateEasy, BaselinePassesEasy, BaselineFailsEasy,
       BaselineRaisesEasy, ResumeShortcutEasy, BypassEasy, BypassFailsEasy, AgentWorksEasy,
       AgentStopsEasy, CheckSummaryEasy, GuardrailEasy, TestsFailEasy, TestsRaiseEasy,
       TestsPassEasy, NoChangeNeededEasy, ClaimsMissingEasy, DeliversEasy
  <2> QED BY <2>1, EasyKeepsInv
<1> QED BY <1>1, <1>2, <1>3 DEF LNext, Setup, NoDiffFirst, NoDiffResumed

(* The fix loop, for any tickets, files, limits and concurrency.           *)
THEOREM LoopInvariant == LSpec => []LInv
  BY LInitially, LStep, PTL DEF LSpec

(* Whatever retries, splits and rejections left on the branch, a reviewed  *)
(* one holds only files that an EXPAND verdict or a citation let through.  *)
THEOREM ScopeAlwaysHolds == LSpec => []ScopeHolds
<1>1. LInv => ScopeHolds
  BY DEF LInv, InScope, ScopeHolds
<1> QED BY <1>1, LoopInvariant, PTL

(* One stage at a time, a ticket is called stuck only after enough passes  *)
(* of its own that left no difference.                                     *)
THEOREM StuckAlwaysEarned == LSpec => []StuckIsEarned
<1>1. LInv => StuckIsEarned
  BY DEF LInv, Owned, StuckIsEarned, StuckIsOwn
<1> QED BY <1>1, LoopInvariant, PTL

=============================================================================
