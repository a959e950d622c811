CONSTANTS
  ingest = ingest
  generate = generate
  w1 = w1
  w2 = w2
  NoJob = NoJob
  Ingestion <- MCIngestion
  Generation <- MCNone
  Workers <- MCWorkers
  Faults <- CoveredFaults
  MaxFaults = 1
SPECIFICATION Spec
INVARIANTS PublishedByLastClaim NeverForgotten ClaimsBounded
PROPERTIES FinalIsFinal
CHECK_DEADLOCK FALSE
SYMMETRY MCSymmetry
