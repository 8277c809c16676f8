CONSTANTS
  l1 = l1
  l2 = l2
  Link = {l1, l2}
  Inputs <- MCInputs
  Team = {1, 2, 3, 4}
  Entry = {1, 2, 3, 4}
  Call = {c1, c2}
  None = None
  Db = Db
  MaxCalls = 2
SPECIFICATION FairSpec
CHECK_DEADLOCK FALSE
INVARIANT TypeOK
PROPERTIES LogHasNews SubmittedIsSent SentStays CallEnds
