SPECIFICATION FairSpec
CONSTANTS
  Requests = {r1, r2, r3}
  None = None
  MaxForwards = 2
  MaxRequests = 4
  MaxCancels = 1
INVARIANTS
  IInv
  NoOrphan
  GoneIsDead
PROPERTIES
  AllAnswered
CHECK_DEADLOCK FALSE
