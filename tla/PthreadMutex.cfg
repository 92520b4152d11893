SPECIFICATION FairSpec
CONSTANTS
  MaxHandle = 3
  MaxTime = 1
  MaxMutex = 1
  MaxCondition = 1
  MutexTypes = {"errorcheck", "recursive", "normal", "adaptive"}
  MaxRecursion = 2
  Timeouts = {1}
INVARIANTS
  MutexHandedOver
  WaitersAreBlocked
  WaitsKeepObjectsAlive
  WakeupHasReason
PROPERTIES
  WaitReturnsLocked
  SignalReachesWaiter
  LockAnswered
  TimedWaitReturns
CHECK_DEADLOCK FALSE
