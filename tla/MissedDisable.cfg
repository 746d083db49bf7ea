SPECIFICATION MissedDisableSpec
CONSTANTS
  Members = {m1, m2}
  Actors = {}
  Roster = {m1, m2}
  Heights = {1}
  Hashes = {x1}
  MaxBoot = 1
  MaxRevision = 5
PROPERTIES
  DisabledScopeReleased
CHECK_DEADLOCK FALSE
