SPECIFICATION Spec
CONSTANTS
  Absent = Absent
  Q16 = Q16
  D4 = D4
  Rank4k = Rank4k
  Rank = Rank4k
  Points <- MCPoints
  Words <- MCWords
  Games <- MCGames
  Setups <- MCSetups
  Visits <- MCVisits
  Views <- MCViews
  MaxMoves = 2
  MinVisits = 3
  MaxVisits = 5
  DefaultVisits = 7
  AnalyzeVisits = 4
  ReviewVisits = 2
  Top = 2
INVARIANTS
  TypeOK
  CostIsBounded
  AsksWhatWasMeant
  RefusedIsMeaningless
  BoardSees
PROPERTIES
  PingTellsTheTruth
\* A job is over when it is over.
CHECK_DEADLOCK FALSE
