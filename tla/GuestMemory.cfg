SPECIFICATION Spec
CONSTANTS
  Size = 3
  BackingSize = 2
  MaxMappingGeneration = 2
  Protections = {{"read", "write"}, {"read"}}
  Values = {0, 1}
  Zero = 0
  MaxExactRanges = 1
INVARIANTS
  ListsAgree
  FindsLowestFit
PROPERTIES
  ImplementsAddressSpace
CHECK_DEADLOCK FALSE
