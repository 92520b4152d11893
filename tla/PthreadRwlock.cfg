SPECIFICATION Spec
CONSTANTS
  MaxHandle = 4
  MaxTime = 0
  MaxRwlock = 1
  MaxReadCount = 2
INVARIANTS
  WriterExcludes
  WaitersAreBlocked
  GrantIsTaken
PROPERTIES
  ServedInOrder
CHECK_DEADLOCK FALSE
