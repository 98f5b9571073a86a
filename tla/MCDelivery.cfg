SPECIFICATION MCSpec
CONSTANTS
  i1 = i1
  i2 = i2
  g1 = g1
  g2 = g2
  p1 = p1
  p2 = p2
  Repos = {a, b}
  MaxRebases = 1
  MaxFixes = 1
  MaxFixCycles = 1
  MaxMissing = 1
  MaxIdentical = 0
  MaxOutside = 1
  Drafts = {"a1", "a2", "b", "n"}
  Epics = {"e1", "e2"}
  Parent <- ParentOf
  Titles = {i1, i2}
  Criterion <- OwnCriterion
  Lessons = {l1, l2}
  MemoryCap = 1
  MaxDrafts = 2
  Workers = {w1}
  MaxTix = 4
  MaxDeaths = 1
  Gaps = {g1, g2}
  Runs = {p1, p2}
  Rollup = TRUE
  MaxPerRun = 2
  MaxCards = 3
  MaxFaults = 1
  Passes = {"audit", "custom"}
  Bespoke = {"custom"}
  Interval <- Ticks
  MaxEntries = 2
  Threshold = 2
  MaxEdits = 1
  MaxRestarts = 1
SYMMETRY RepoSymmetry
INVARIANTS OneSurvives  ProposalsAreSound
  
CHECK_DEADLOCK FALSE
