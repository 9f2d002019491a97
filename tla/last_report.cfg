SPECIFICATION Safe
CONSTANTS
  Absent = Absent
  ReviewId = ReviewId
  OtherId = OtherId
  NumMoves = 2
  LastPosition = 2
  PipeBound = 1
  Poison = FALSE
  MaxFailures = 1
  BatchSize = 2
  FinalAttempts = 3
  Inline = TRUE
INVARIANTS
  NoReportLeftBehind
\* A review really ends.
CHECK_DEADLOCK FALSE
