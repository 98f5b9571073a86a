SPECIFICATION MCSpec
CONSTANTS
  MaxPasses = 2
  MaxFaults = 1
  MaxTrips = 1
  Threads = {c1}
  Profiles <- MCProfiles
  RequireApproval = TRUE
  Diffs = {"d1", "d2"}
  BadPins = {"d2"}
  Asks = {"in", "out"}
  AskFiles <- MCAskFiles
  FileMap = {"f"}
  Touched <- MCTouched
  MaxRounds = 2
  MaxCrashes = 1
  MaxOps = 2
PROPERTIES DecisionsAreSound DraftsAreDecided VerdictsAreSound ReviewLoopEnds
CHECK_DEADLOCK FALSE
