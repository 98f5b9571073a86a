SPECIFICATION MCSpec
CONSTANTS
  t1 = t1
  Tickets <- One
  Unblocks <- Alone
  InitialStates = {"draft"}
  Requests = {"blocked", "ready"}
  Reasons = {FALSE}
  Path = {"draft", "ready", "code_review", "documenting", "done", "closed", "blocked", "awaiting_user_reply"}
  MaxThreads = 1
  MaxAttempt = 3
  MaxPending = 1
  StageRetryMax = 2
  OutageParksMax = 3
INVARIANTS BudgetIsEarned
 
CHECK_DEADLOCK FALSE
