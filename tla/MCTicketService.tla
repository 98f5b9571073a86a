-------------------------- MODULE MCTicketService --------------------------
(* Small instances of TicketService for TLC. *)
EXTENDS TicketService, TLC

CONSTANTS t1, t2

One == {t1}
Two == {t1, t2}

\* One ticket alone, and a solver t1 whose completion unblocks t2.
Alone == [t \in Tickets |-> {}]
SolverOfT2 == [t \in Tickets |-> IF t = t1 THEN {t2} ELSE {}]

\* Every state.
AllStates == State

=============================================================================
