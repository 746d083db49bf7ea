SPECIFICATION Spec
CONSTANTS
  Callers = {c1, c2}
  Adapters = {c1}
  FailureThreshold = 2
  SuccessThreshold = 1
  RingCapacity = 1
  MaxGeneration = 4
  MaxEpoch = 2
INVARIANTS
  TypeOK
  AtMostOneProbe
  LeaseIsTracked
  InflightIsReal
PROPERTIES
  RecoveryInOrder
CHECK_DEADLOCK FALSE
