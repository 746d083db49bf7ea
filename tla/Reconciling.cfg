SPECIFICATION LivenessSpec
CONSTANTS
  Members = {m1, m2}
  Actors = {}
  Roster = {m1, m2}
  Heights = {1, 2}
  Hashes = {x1}
  MaxBoot = 1
  MaxRevision = 6
PROPERTIES
  BarrierCompletes
  DisabledScopeReleased
CHECK_DEADLOCK FALSE
