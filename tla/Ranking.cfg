CONSTANTS
  p1 = p1
  p2 = p2
  j1 = j1
  r1 = r1
  r2 = r2
  single = single
  double = double
  mix = mix
  Player = {p1, p2}
  Update = {1, 2}
  Job = {j1}
  Run = {r1, r2}
  NoJob = NoJob
  MaxDay = 2
  Attempts = 2
  MaxFault = 1
  MaxPosted = 1
  Discipline = {single, double, mix}
  AmountOfLevels = 5
  ProcentWinning = 75
  ProcentWinningPlus1 = 50
  ProcentLosing = 30
  MaxDiffLevels = 2
  MaxLevelUp = 1
  MaxLevelDown = 1
  DifferenceForUpgrade = 1
  DifferenceForDowngrade = 0
  MinGamesForUpgrade = 2
  MinGamesForDowngrade = 2
  GamesForInactivity = 1
  Freeze = FALSE
  MaxGames = 3
SPECIFICATION FairSpec
CHECK_DEADLOCK FALSE
INVARIANTS
  TypeOK
  EachUpdateOnce
  LastPlaceFollows
  AverageIsBest
  SameGamesSettle
  MovesAreBounded
PROPERTIES
  CatchesUp
