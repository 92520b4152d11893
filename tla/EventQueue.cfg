SPECIFICATION FairSpec
CONSTANTS
  MaxHandle = 3
  MaxTime = 1
  MaxQueue = 1
  Idents = {1}
  Counts = {1}
  MaxGeneration = 2
  MaxTriggers = 2
  Timeouts = {1}
INVARIANTS
  EdgeEventOnce
  NoSleeperBesideEvents
  WaiterAgreesWithThread
PROPERTIES
  ReceivedIsCurrent
  WaitsEnd
CHECK_DEADLOCK FALSE
