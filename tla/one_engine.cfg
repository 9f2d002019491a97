SPECIFICATION Spec
CONSTANTS
  Jobs = {j1, j2, j3}
  Nobody = Nobody
  Slow = {j1}
  Poisonous = {j2}
INVARIANTS
  OneEngineInv
  OnlyWrecksShare
  KeepsItsEngine
PROPERTIES
  LeavesOnlyTheCrashed
  DeathIsNoticed
  CallsReturn
\* A worker that is given no more jobs stops.
CHECK_DEADLOCK FALSE
