CONSTANTS
  e1 = e1
  e2 = e2
  r1 = r1
  r2 = r2
  Enc = {e1}
  Date <- DateOne
  Run = {r1}
  NoRun = NoRun
  Attempts = 2
  MaxStalled = 1
  BatchLimit = 1
  MaxCrash = 1
  MaxFault = 1
  FaultCost = 1
  SiteInOrder = TRUE
SPECIFICATION FairSpec
PROPERTIES
  EveryResultSettles
  ClosedSeasonLeavesQueue
