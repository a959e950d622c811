CONSTANTS
  w1 = w1
  w2 = w2
  m1 = m1
  m2 = m2
  Workers <- MCOneWorker
  ModelOrder <- MCTwoModels
  ReplaySource <- MCPartlyGenerated
  MaxClaims = 2
  MaxRounds = 1
  MaxFaults = 1
SPECIFICATION Spec
INVARIANTS PaidOnce
CHECK_DEADLOCK FALSE
