SPECIFICATION Spec
CONSTANTS
  Absent = Absent
  Asks = {a1, a2}
  Review = Review
  Shared = Shared
  MaxDepth = 1
  PipeBound = 2
INVARIANTS
  AnalystInv
  AnswersItsQuestion
PROPERTIES
  NothingIsStolen
  LastIsBest
\* A worker that is given no more requests stops.
CHECK_DEADLOCK FALSE
