SPECIFICATION Spec
CONSTANTS
  MaxHandle = 7
  MaxInitializers = 2
  MaxFinalizers = 1
  MaxCallbacks = 2
  MaxGuestCalls = 4
INVARIANTS
  CallsInOrder
PROPERTIES
  FinalizationEnds
CHECK_DEADLOCK FALSE
