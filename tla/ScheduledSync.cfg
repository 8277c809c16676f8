CONSTANTS
  Event = {e1, e2}
  Api = {a1}
  Job = {j1, j2}
  MaxDay = 1
  MaxVersion = 1
  Attempts = 2
  MaxFault = 1
  MaxHandMade = 1
SPECIFICATION FairSpec
CHECK_DEADLOCK FALSE
INVARIANTS StillCovered
PROPERTY ChangeArrives
