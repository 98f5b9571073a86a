SPECIFICATION Spec
CONSTANTS
  t1 = t1
  t2 = t2
  Tickets <- One
  Unblocks <- Alone
  Requests <- AllStates
  InitialStates = {"draft", "asked", "epic_open", "classifying"}
  Reasons = {TRUE, FALSE}
  MaxThreads = 2
  MaxAttempt = 0
  MaxPending = 4
INVARIANTS ParkedIsResumable
PROPERTIES  ImplementsOnlyAnswered
CHECK_DEADLOCK FALSE
