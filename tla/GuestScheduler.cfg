SPECIFICATION FairSpec
CONSTANTS
  MaxHandle = 3
  MaxTime = 2
  ServiceKeys <- MCServiceKeys
INVARIANTS
  ReadyQueueExact
  WaitBookkeeping
  JoinersWoken
PROPERTIES
  TimeoutWins
  ReadyThreadRuns
  TimedWaitEnds
CHECK_DEADLOCK FALSE
