CONSTANTS
  event = event
  draw = draw
  game1 = game1
  game2 = game2
  standing = standing
  None = None
  Sched = {s1}
  Tx = {t1, t2}
  Node = {event, draw, game1, game2, standing}
  Root = event
  Kids <- MCKids
  After <- MCAfter
  Slots = 3
  MaxFault = 1
SPECIFICATION FairSpec
CHECK_DEADLOCK FALSE
INVARIANTS TypeOK CommitIsComplete StandingAfterGames NoStrayWrite
PROPERTY TransactionEnds
