SPECIFICATION Spec
CONSTANTS
  Absent = Absent
  ReviewId = ReviewId
  OtherId = OtherId
  NumMoves = 1
  LastPosition = 0
  PipeBound = 1
  Poison = TRUE
  MaxFailures = 1
  BatchSize = 2
  FinalAttempts = 3
  Inline = FALSE
PROPERTIES
  ReviewEnds
\* A review really ends.
CHECK_DEADLOCK FALSE
