CONSTANTS
  Tick = {t1}
  WaitTime = 2
  Backoff = 1
  MaxJobs = 2
  MaxFault = 1
  MaxRestart = 1
  JobsFail = TRUE
  HasRenderId = FALSE
SPECIFICATION FairSpec
INVARIANTS
PROPERTIES
  SuspendsAfterWaitTime
  WorkIsPickedUp
  IdleWorkerIsSuspended
