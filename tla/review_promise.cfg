SPECIFICATION Safe
CONSTANTS
  Absent = Absent
  ReviewId = ReviewId
  OtherId = OtherId
  NumMoves = 2
  LastPosition = 1
  PipeBound = 2
  Poison = TRUE
  MaxFailures = 2
  BatchSize = 2
  FinalAttempts = 2
  Inline = FALSE
INVARIANTS
  TypeOK
  ReviewInv
PROPERTIES
  PromiseSpec
  QueueSteps
\* A review really ends.
CHECK_DEADLOCK FALSE
