---------------------------- MODULE MCProcessing ----------------------------
(***************************************************************************)
(* One ticket, in two instances of one run that share the variables.       *)
(* part = "questions" lets a stage ask and people answer, over the states  *)
(* a question leads to, while nobody asks for a transition; part =         *)
(* "budget" takes the retry counters further, over more stages, without    *)
(* questions.  The constants of this module are the larger ones of both.   *)
(***************************************************************************)
EXTENDS Processing

CONSTANT t1

VARIABLE part

One == {t1}
Alone == [t \in Tickets |-> {}]

Questions ==
  INSTANCE Processing WITH
    Requests <- {}, Path <- {"ready", "done", "closed", "blocked", "awaiting_user_reply"},
    MaxAttempt <- 1, StageRetryMax <- 1, OutageParksMax <- 1

Budget ==
  INSTANCE Processing WITH
    Path <- Path \ {"awaiting_user_reply"}, MaxThreads <- 0, MaxPending <- 0

MCInit == part \in {"questions", "budget"} /\ PInit

MCNext ==
  \/ part = "questions" /\ Questions!PNext /\ UNCHANGED part
  \/ part = "budget" /\ Budget!PNext /\ UNCHANGED part

MCSpec == MCInit /\ [][MCNext]_<<part, pvars>>

\* The same without a restart.
MCSpecUp == part = "questions" /\ PInit /\ [][PStep /\ UNCHANGED part]_<<part, pvars>>

=============================================================================
