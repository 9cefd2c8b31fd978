SPECIFICATION MCSpec
CONSTANTS
  Names = {a}
  Sockets = {s1, s2}
  Calls = {p, q}
  None = None
  MaxChanges = 1
  MaxSwitches = 1
  MaxFaults = 1
INVARIANTS
  OneConnection
PROPERTIES
  Converges
  Resubscribes
CHECK_DEADLOCK FALSE
