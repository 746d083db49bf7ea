SPECIFICATION PublishingSpec
CONSTANTS
  Members = {m1, m2}
  Actors = {m1, m2}
  Roster = {m1, m2}
  Heights = {1, 2}
  Hashes = {x1, x2}
  MaxBoot = 2
  MaxRevision = 9
SYMMETRY Symmetry
INVARIANTS
  TypeOK
  ReadableIsPublished
  LocalAnswersLineUp
  AnswersAreExclusive
PROPERTIES
  FleetRegister
CHECK_DEADLOCK FALSE
