SPECIFICATION Spec
CONSTANTS
  Size = 2
  BackingSize = 0
  MaxMappingGeneration = 2
  Protections = {{"read", "write"}}
  Values = {0, 1}
  Zero = 0
  MaxResource = 3
  MaxWriteGeneration = 1
  Shapes <- MCShapes
  MaxRetained = 2
  MaxBacking = 4
  LogicalSize <- MCLogicalSize
  MaxIdle = 1
INVARIANTS
  RecordsOwned
  PendingExact
  BackingOwnedOnce
  GpuBackingKept
CHECK_DEADLOCK FALSE
