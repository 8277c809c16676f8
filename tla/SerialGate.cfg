CONSTANTS
  Run = {r1, r2, r3}
  MaxGate = 5
SPECIFICATION FairSpec
INVARIANTS
PROPERTIES
  EveryoneServed
  ImplementsLock
