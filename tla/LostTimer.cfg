SPECIFICATION ProbedSpec
CONSTANTS
  Callers = {c1, c2}
  Adapters = {}
  FailureThreshold = 2
  SuccessThreshold = 1
  RingCapacity = 1
  MaxGeneration = 4
  MaxEpoch = 1
PROPERTIES Recovers
CHECK_DEADLOCK FALSE
