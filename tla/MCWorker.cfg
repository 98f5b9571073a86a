SPECIFICATION MCSpec
CONSTANTS
  t1 = t1
  t2 = t2
  c1 = c1
  c2 = c2
  c3 = c3
  h1 = h1
  g1 = g1
  g2 = g2
  g3 = g3
  g4 = g4
  s1 = s1
  s2 = s2
  s3 = s3
  Callers <- Four
  Value = 2
  ReservedArg = 2
  Ranks = {0, 1}
  Users <- Three
  RankOf <- S3Outranks
  Polled = {s1}
  SlotCap = 2
  OpTimeout = 1
  CommandTimeout = 1
  ReapFloor = 2
  MaxAttempts = 2
  MaxAge = 3
  Tickets = {t1}
  Consumers = {c1, c2}
  Threads = {h1}
  Slots = 1
  MaxInflight = 1
  Play = {"ready", "implement_complete", "rebasing", "blocked"}
  MaxCopies = 1
  DbFails = FALSE
  CanDrain = TRUE
SYMMETRY ConsumerSymmetry
INVARIANTS GateIsSound SandboxIsSound OneRunPerTicket NothingIsLeaked 
PROPERTIES AdmitsBestRanked
