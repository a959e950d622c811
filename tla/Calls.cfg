CONSTANTS
  Threads <- MCThreads
  Settings <- MCSettings
  Parts <- MCParts
  Depends <- MCDepends
  Pauses <- MCPauses
  Providers <- MCProviders
  MaxTransient = 1
  Sockets = 1
  CatalogWorkers = 2
  MaxAttempts = 2
  MaxRuns = 2
  JobLimit = 1
  MaxStructured = 2
  MaxRounds = 2
SPECIFICATION GoingSpec
INVARIANTS CatalogComplete PassIsEarned
PROPERTIES CallsEnd PausesKept NotPaidAgain
