CONSTANTS
  Date = {d1, d2}
  NoDate = NoDate
  Session = {c1}
  Job = {j1, j2}
  Sync = {s1}
  MaxChange = 3
  MaxFault = 1
SPECIFICATION FairSpec
INVARIANTS Agreed
PROPERTY SiteDateArrives
