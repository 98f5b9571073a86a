SPECIFICATION MCSpec
CONSTANTS
  Checks = {"lint", "test"}
  TransientMaxRetries = 1
  MaxIdenticalFailures = 1
  MaxTotalAttempts = 1
  PushRetryBudget = 1
  MaxCrashes = 1
  Workflows = {"build"}
  CronOnly = {"build"}
  Results = {"red", "green", "startup", "cancelled"}
  Window = 2
  MaxDeferrals = 1
  MaxRedispatch = 1
  MaxHeads = 2
  MaxRuns = 3
  MaxTickets = 2
  MaxFaults = 1
INVARIANTS FixIsBounded
PROPERTIES FixingEnds CiWatchIsSound
CHECK_DEADLOCK FALSE
