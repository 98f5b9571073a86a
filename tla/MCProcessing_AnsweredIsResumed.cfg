SPECIFICATION MCSpecUp
CONSTANTS
  t1 = t1
  Tickets <- One
  Unblocks <- Alone
  InitialStates = {"draft"}
  Requests = {"blocked", "ready"}
  Reasons = {FALSE}
  Path = {"draft", "ready", "code_review", "done", "closed", "blocked", "awaiting_user_reply"}
  MaxThreads = 1
  MaxAttempt = 2
  MaxPending = 2
  StageRetryMax = 1
  OutageParksMax = 2
INVARIANT AnsweredIsResumed
CHECK_DEADLOCK FALSE
