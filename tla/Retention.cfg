CONSTANTS
  d1 = d1
  s1 = s1
  NoDoc = NoDoc
  Docs <- MCOneDoc
  Sessions <- MCSessions
  Owner <- MCOwner
  Batch = 1
  MaxAttempts = 2
  SlowIngestion = TRUE
  ShortRetention = FALSE
  MaxFaults = 2
SPECIFICATION FairSpec
INVARIANTS SourceKept ReadyUsable CancelledStaysClean GoneStaysGone
PROPERTIES ExpiredForgotten
CHECK_DEADLOCK FALSE
