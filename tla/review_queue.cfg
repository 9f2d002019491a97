SPECIFICATION Spec
CONSTANTS
  Ids = {r1, r2, r3}
  NoId = NoId
INVARIANTS
  QueueInv
  ReviewedOnce
PROPERTIES
  StatusAdvances
  ShutdownFailsNobody
  AcceptedIsReviewed
  EngineGoesToo
\* A server that has been shut down stops.
CHECK_DEADLOCK FALSE
