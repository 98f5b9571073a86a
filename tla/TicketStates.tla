---------------------------- MODULE TicketStates ----------------------------
(***************************************************************************)
(* The pipeline state machine of core/states.py: the states, the table of  *)
(* legal transitions, the stage that owns each active state, and the       *)
(* legality test every ordinary transition goes through.                   *)
(***************************************************************************)

State ==
  {"classifying", "draft", "human_issue_approval", "ready", "documenting",
   "code_review", "deliverable", "human_mr_approval", "implement_complete",
   "waiting_auto_merge", "rebasing", "fixing_ci", "addressing_review", "done",
   "closed", "errored", "blocked", "asked", "answered",
   "awaiting_user_reply", "epic_open", "epic_closed"}

\* The "no value" of a nullable column; not a state.
None == "none"

TRANSITIONS == [s \in State |->
  CASE s = "classifying" ->
         {"draft", "epic_open", "closed", "done", "errored", "blocked",
          "awaiting_user_reply"}
    [] s = "draft" ->
         {"ready", "human_issue_approval", "errored", "blocked", "closed",
          "done", "awaiting_user_reply", "epic_open"}
    [] s = "human_issue_approval" -> {"ready", "draft", "errored", "blocked"}
    [] s = "ready" ->
         {"code_review", "documenting", "deliverable", "rebasing", "errored",
          "blocked", "awaiting_user_reply", "done", "epic_open"}
    [] s = "code_review" ->
         {"documenting", "ready", "errored", "blocked", "awaiting_user_reply"}
    [] s = "documenting" ->
         {"deliverable", "errored", "blocked", "awaiting_user_reply"}
    [] s = "deliverable" ->
         {"implement_complete", "errored", "blocked", "awaiting_user_reply", "done"}
    [] s = "implement_complete" ->
         {"human_mr_approval", "fixing_ci", "rebasing", "waiting_auto_merge",
          "addressing_review", "done", "blocked", "errored", "awaiting_user_reply"}
    [] s = "human_mr_approval" ->
         {"done", "waiting_auto_merge", "implement_complete", "rebasing",
          "addressing_review", "ready", "errored", "blocked", "awaiting_user_reply"}
    [] s = "waiting_auto_merge" ->
         {"done", "implement_complete", "human_mr_approval", "rebasing",
          "addressing_review", "errored", "blocked", "awaiting_user_reply"}
    [] s = "rebasing" ->
         {"implement_complete", "ready", "waiting_auto_merge",
          "human_mr_approval", "errored", "blocked", "awaiting_user_reply"}
    [] s = "fixing_ci" ->
         {"implement_complete", "rebasing", "blocked", "errored",
          "awaiting_user_reply"}
    [] s = "addressing_review" ->
         {"human_mr_approval", "blocked", "errored", "awaiting_user_reply"}
    [] s = "done" ->
         {"closed", "errored", "blocked", "awaiting_user_reply",
          "human_issue_approval"}
    [] s = "asked" -> {"answered", "errored", "blocked", "awaiting_user_reply"}
    [] s = "awaiting_user_reply" -> {"ready", "errored", "blocked"}
    [] s = "epic_open" -> {"epic_closed", "blocked"}
    [] s = "errored" -> {"ready", "draft", "classifying"}
    [] s = "blocked" -> {"ready", "draft", "classifying", "closed"}
    [] OTHER -> {}]   \* closed, answered, epic_closed

STAGE_FOR_STATE == [s \in State |->
  CASE s = "classifying" -> "classify"
    [] s = "draft" -> "refine"
    [] s = "ready" -> "implement"
    [] s \in {"implement_complete", "human_mr_approval", "waiting_auto_merge",
              "rebasing", "addressing_review"} -> "merge"
    [] s = "documenting" -> "document"
    [] s = "code_review" -> "review"
    [] s = "deliverable" -> "deliver"
    [] s = "fixing_ci" -> "ci_fix"
    [] s = "done" -> "retrospect"
    [] s = "asked" -> "answer"
    [] OTHER -> None]

\* The states a stage consumes.
ActiveStates == {s \in State : STAGE_FOR_STATE[s] # None}

can_transition(src, dst, blocked_from, paused_from) ==
  \/ dst \in TRANSITIONS[src]
  \/ src = "blocked" /\ dst = blocked_from
  \/ src = "awaiting_user_reply" /\ dst = paused_from

=============================================================================
