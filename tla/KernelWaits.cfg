SPECIFICATION Spec
CONSTANTS
  MaxHandle = 3
  MaxTime = 0
  Semaphores = {1}
  MaxCount = 2
  Flags = {1}
  Bits = {b0, b1}
  WaitModes <- MCWaitModes
  Guards = {1}
INVARIANTS
  NoLostWakeup
  WordAgreesWithOwner
CHECK_DEADLOCK FALSE
