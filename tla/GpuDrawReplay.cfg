SPECIFICATION Spec
CONSTANTS
  Code <- MCCode
  Labels = {1, 2}
  MaxIndirectDepth = 1
  MaxActions = 4
  MaxProcessed = 5
  MaxRetained = 1
  MaxOwner = 1
  MaxValue = 1
  MaxBatch = 2
  MaxSubmissionId = 3
  MaxPendingSubmissions = 2
  MaxPendingDwords = 4
  MaxDrainPasses = 4
INVARIANTS
  NoDrawRepeated
CHECK_DEADLOCK FALSE
