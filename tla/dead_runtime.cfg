SPECIFICATION Safe
CONSTANTS
  Jobs = {j1, j2}
  Nobody = Nobody
  Slow = {}
  Poisonous = {j1, j2}
PROPERTY
  LeavesNoWreck
\* A worker that is given no more jobs stops.
CHECK_DEADLOCK FALSE
