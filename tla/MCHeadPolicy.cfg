SPECIFICATION Spec
CONSTANTS
  Requests = {p1, p2}
  Sources = {s1, s2}
  Hashes = {x1, x2}
  Heights = {1, 2}
  MaxRef = 5
SYMMETRY Symmetry
INVARIANTS
  TypeOK
  SequentialContinuity
  FloorCoversAnswers
  FenceRevokesSnapshots
PROPERTY RevisionAuthority
CHECK_DEADLOCK FALSE
