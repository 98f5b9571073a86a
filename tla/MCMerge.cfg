SPECIFICATION MSpec
CONSTANTS
  RebaseMaxAttempts = 2
  AutoFixMaxCycles = 1
  MergeMaxRetries = 1
  PrMissingMaxPolls = 1
  EmptyRollupMaxPolls = 1
  GreenUnpromotableMaxPolls = 1
  ReviewRevisionMaxAttempts = 1
  PingPongMaxAlternations = 0
INVARIANTS RepairsAreBounded
PROPERTIES ReconciledKeepsForeign  PollsNotice
CHECK_DEADLOCK FALSE
