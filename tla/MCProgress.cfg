SPECIFICATION MCSpec
CONSTANTS
  t1 = t1
  t2 = t2
  c1 = c1
  c2 = c2
  c3 = c3
  Tickets <- One
  MaxPer = 1
  MaxEvents = 2
  MaxNotes = 2
  MaxBlocks = 2
  MaxTurns = 1
  MaxCrashes = 1
PROPERTIES SilenceIsEscalated BlockedComesBack CapDoesNotStall TopRankServed IsSlotPool RecoveryIsSound
CHECK_DEADLOCK FALSE
