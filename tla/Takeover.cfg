CONSTANTS
  w1 = w1
  w2 = w2
  m1 = m1
  m2 = m2
  Workers <- MCWorkers
  ModelOrder <- MCTwoModels
  ReplaySource <- MCNoSource
  MaxClaims = 2
  MaxRounds = 0
  MaxFaults = 1
SPECIFICATION Spec
INVARIANTS LogSound NothingLost PaidOnce
PROPERTIES KeepsPromise
CHECK_DEADLOCK FALSE
SYMMETRY MCSymmetry
