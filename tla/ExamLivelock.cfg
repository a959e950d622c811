CONSTANTS
  Slots <- MCSlots
  Tasks <- MCTasks
  Texts <- MCTexts
  InitialPlan <- MCPlan
  InitialText = 1
  MaxAttempts = 2
  MaxPasses = 2
  Kinds <- MCKinds
  MaxFailures = 1
  MaxDuplicate = 1
  MaxCalls = 2
  MaxCompletion = 1
  MaxAssignment = 2
  MaxGeneration = 2
  MaxRetries = 1
  MaxTrouble = 1
SPECIFICATION FairSpec
PROPERTIES Assembles
