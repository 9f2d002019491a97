SPECIFICATION Safe
CONSTANTS
  Absent = Absent
  ReviewId = ReviewId
  OtherId = OtherId
  NumMoves = 2
  LastPosition = 1
  PipeBound = 1
  Poison = FALSE
  MaxFailures = 1
  BatchSize = 2
  FinalAttempts = 3
  Inline = TRUE
INVARIANTS
  SearchedIsNotFailed
\* A review really ends.
CHECK_DEADLOCK FALSE
