CONSTANTS
  Job = {j1, j2}
  MaxPages = 1
  MaxBrowser = 6
  MaxCount = 1
  MaxFault = 1
  MaxAged = 1
  MaxRestart = 1
SPECIFICATION FairSpec
INVARIANTS
  CountCoversHolders
PROPERTIES
  CallEnds
CHECK_DEADLOCK FALSE
