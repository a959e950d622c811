CONSTANTS
  ingest = ingest
  generate = generate
  w1 = w1
  w2 = w2
  NoJob = NoJob
  Ingestion <- MCNone
  Generation <- MCGeneration
  Workers <- MCWorkers
  Faults <- MCAllFaults
  MaxFaults = 2
SPECIFICATION FairSpec
INVARIANTS Inv
PROPERTIES KeepsPromise RunningEnds Settles
CHECK_DEADLOCK FALSE
