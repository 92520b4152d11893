SPECIFICATION Spec
CONSTANTS
  Size = 2
  BackingSize = 0
  MaxMappingGeneration = 2
  Protections = {{"read", "write"}}
  Values = {0, 1}
  Zero = 0
  Writers = {w1, w2}
  MaxResource = 1
  MaxWriteGeneration = 2
INVARIANTS
  CleanIsFresh
SYMMETRY Symmetry
CHECK_DEADLOCK FALSE
