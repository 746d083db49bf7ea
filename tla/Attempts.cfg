SPECIFICATION MCSpec
CONSTANTS
  Requests = {r1}
  Tries = 3
  NodeLimit = 1
  MaxDispatches = 2
  MaxRepairs = 1
INVARIANTS
  TypeOK
  DispatchIsTruthful
  InflightIsExact
  ChargeHasReader
PROPERTIES
  OutcomeIsFinal
  RequestsEnd
CHECK_DEADLOCK FALSE
