SPECIFICATION Spec
CONSTANTS
  Absent = Absent
  ReviewId = ReviewId
  OtherId = OtherId
  NumMoves = 3
  LastPosition = 3
  PipeBound = 1
  Poison = FALSE
  MaxFailures = 1
  BatchSize = 2
  FinalAttempts = 2
  Inline = TRUE
INVARIANTS
  NothingLost
  AwaitedReportsArrive
  FinishedWasSearched
  NoNeedlessResend
  NobodyWaitsInVain
  ToldUnlessRefused
PROPERTIES
  ReviewEnds
  VerdictArrives
\* A review really ends.
CHECK_DEADLOCK FALSE
