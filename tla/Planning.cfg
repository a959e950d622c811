CONSTANTS
  Catalogs <- MCCatalogs
  Requests <- MCRequests
  MaxResumes = 2
SPECIFICATION Spec
INVARIANTS AllocationSpreads RefusedOnlyIfShort TwinsAuthorized
PROPERTIES RepairNeverWorsens EveryNodeCounts
