SPECIFICATION RecoverySpec
CONSTANTS
  Callers = {c1, c2}
  Adapters = {c1}
  FailureThreshold = 2
  SuccessThreshold = 1
  RingCapacity = 1
  MaxGeneration = 4
  MaxEpoch = 2
PROPERTIES Recovers LeaseComesBack
CHECK_DEADLOCK FALSE
