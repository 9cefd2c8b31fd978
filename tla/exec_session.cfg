SPECIFICATION FairSpec
CONSTANTS
  Capacity = 2
  MaxShells = 3
  MaxErrors = 2
INVARIANTS
  IInv
  NoShellLeft
  PodsAreDeleted
PROPERTIES
  DeletesOnlyDead
  SessionEnds
  InterruptIsAnswered
  TerminalsEnd
CHECK_DEADLOCK FALSE
