SPECIFICATION Spec
CONSTANTS
  Schedules = {s1}
  Manual = Manual
  Targets = {a}
  None = None
  CronTicks = {1}
  MaxRuns = 1
  Replicas = {w1}
  Requests = {h1, h2}
  ExternalCrd = TRUE
  MaxTime = 1
  MaxOps = 2
  MaxOverlap = 2
  MaxPushes = 2
  MaxFaults = 1
INVARIANT IInv
INVARIANT RunsBounded
INVARIANT ListedWasUploaded
PROPERTY UndisturbedIsAtomic
CHECK_DEADLOCK FALSE
SYMMETRY Symmetry
