SPECIFICATION LSpec
CONSTANTS
  Tickets = {t1}
  OutFiles = {f1}
  MaxIters = 3
  StuckPasses = 2
  StuckCalls = 2
  MaxExpands = 1
  MaxRuns = 2
  Concurrency = {1}
CHECK_DEADLOCK FALSE
PROPERTIES FailedTestsAreNotDelivered
