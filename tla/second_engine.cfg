SPECIFICATION Safe
CONSTANTS
  Jobs = {j1, j2}
  Nobody = Nobody
  Slow = {j1, j2}
  Poisonous = {}
INVARIANT
  OneEngine
\* A worker that is given no more jobs stops.
CHECK_DEADLOCK FALSE
