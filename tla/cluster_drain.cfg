SPECIFICATION FairSpec
CONSTANTS
  two = two
  one = one
  junk = junk
  a = a
  b = b
  Files = {two, one, junk}
  Contexts = {a, b}
  Has <- FileContexts
  Names <- FileCurrent
  Account = None
  Deployed = {None}
  Requests = {r1}
  None = None
  MaxAttempts = 1
  MaxRequests = 2
  MaxFaults = 0
PROPERTIES
  DrainsWhatItCordoned
CHECK_DEADLOCK FALSE
