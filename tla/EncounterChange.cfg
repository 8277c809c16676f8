CONSTANTS
  d0 = d0
  d1 = d1
  r1 = r1
  r2 = r2
  r3 = r3
  s1 = s1
  s2 = s2
  Date = {d0, d1}
  Scheduled = d0
  NoDate = NoDate
  Row = {r1, r2, r3}
  NoRow = NoRow
  Session = {s1, s2}
  MaxRequest = 2
  MaxBegun = 4
SPECIFICATION Spec
SYMMETRY Interchangeable
CHECK_DEADLOCK FALSE
INVARIANTS
  AcceptedWasAgreed
PROPERTIES
  EndorsementStands
  ImplementsAgreement
