------------------------------ MODULE MCWorker ------------------------------
(***************************************************************************)
(* The worker's shared state in one run of four parts.                     *)
(*   "gate"    four tasks at a gate of two slots with a reserve as large   *)
(*             as the gate, which __init__ clamps to one;                  *)
(*   "sandbox" three calls on two slots, one of which can be abandoned and *)
(*             one of which outranks the others;                           *)
(*   "claims"  one ticket, two consumers and an API thread;                *)
(*   "swap"    two tickets and one consumer, so that it finds a better     *)
(*             entry at the head of the queue, and look-ups that raise.    *)
(* The parts not chosen keep an initial state.                             *)
(***************************************************************************)
EXTENDS PriorityGate, Sandbox, WorkerQueue

CONSTANTS t1, t2, c1, c2, c3, h1, g1, g2, g3, g4, s1, s2, s3

VARIABLES part, st2, prio2, queue2, dedupe2, in_flight2, cap_deferred2, draining2, con2, api2

Four == {g1, g2, g3, g4}
Three == {s1, s2, s3}
S3Outranks == [s \in Three |-> IF s = s3 THEN 0 ELSE 1]

Swapping ==
  INSTANCE WorkerQueue WITH
    Tickets <- {t1, t2}, Consumers <- {c3}, Threads <- {h1}, Slots <- 1, MaxInflight <- 1,
    Play <- {"ready", "implement_complete"}, MaxCopies <- 1, DbFails <- TRUE, CanDrain <- TRUE,
    st <- st2, prio <- prio2, queue <- queue2, dedupe <- dedupe2, in_flight <- in_flight2,
    cap_deferred <- cap_deferred2, draining <- draining2, con <- con2, api <- api2

swapVars == <<st2, prio2, queue2, dedupe2, in_flight2, cap_deferred2, draining2, con2, api2>>

OneStart(state, priority) ==
  \A t \in DOMAIN state : state[t] = "ready" /\ ~priority[t]

MCInit ==
  /\ part \in {"gate", "sandbox", "claims", "swap"}
  /\ Init /\ SInit /\ WInit /\ Swapping!WInit
  /\ part # "claims" => OneStart(st, prio)
  /\ part # "swap" => OneStart(st2, prio2)

MCNext ==
  \/ part = "gate" /\ Next /\ UNCHANGED <<part, svars, wvars, swapVars>>
  \/ part = "sandbox" /\ SNext /\ UNCHANGED <<part, vars, wvars, swapVars>>
  \/ part = "claims" /\ WNext /\ UNCHANGED <<part, vars, svars, swapVars>>
  \/ part = "swap" /\ Swapping!WNext /\ UNCHANGED <<part, vars, svars, wvars>>

MCSpec == MCInit /\ [][MCNext]_<<part, vars, svars, wvars, swapVars>>

\* A consumer that swaps its entry for a better one releases what it claimed.
SwapsLeakNothing == Swapping!NothingIsLeaked

ConsumerSymmetry == Permutations({c1, c2})

=============================================================================
