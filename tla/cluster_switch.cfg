SPECIFICATION FairSpec
CONSTANTS
  two = two
  one = one
  junk = junk
  a = a
  b = b
  Files = {two, one, junk}
  Contexts = {a, b}
  Has <- FileContexts
  Names <- FileCurrent
  Account = one
  Deployed = {None, b}
  Requests = {r1, r2}
  None = None
  MaxAttempts = 3
  MaxRequests = 2
  MaxFaults = 1
INVARIANTS
  IInv
  ConnectedIsReal
  CellsAgree
PROPERTIES
  Recovers
CHECK_DEADLOCK FALSE
