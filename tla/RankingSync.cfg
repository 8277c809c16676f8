CONSTANTS
  p1 = p1
  p2 = p2
  Run = {r1}
  Player = {p1, p2}
  MaxDate = 3
  Window = 2
  Listed <- MCListed
  Attempts = 2
  MaxFault = 1
SPECIFICATION FairSpec
CHECK_DEADLOCK FALSE
INVARIANTS LastPlaceKeepsUp NoHole
PROPERTIES MarkIsAccounted HiddenIsRemoved
