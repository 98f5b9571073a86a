SPECIFICATION MCSpec
CONSTANTS
  Specs = {p1, p2}
  Summaries = {s1, s2}
  None = None
  SpawnLimit = 2
  StallLimit = 2
  ZeroLimit = 2
  MaxFaults = 2
  Tickets = {t1}
  OutFiles = {f1, f2}
  MaxIters = 3
  StuckPasses = 2
  StuckCalls = 2
  MaxExpands = 1
  MaxRuns = 3
  Concurrency = {1}
SYMMETRY Symmetry
INVARIANTS BudgetsHold StuckIsEarned ScopeHolds
CHECK_DEADLOCK FALSE
