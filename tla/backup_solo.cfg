SPECIFICATION FairSpec
CONSTANTS
  Schedules = {s1, s2}
  Manual = Manual
  Targets = {a}
  None = None
  CronTicks = {1, 3}
  MaxRuns = 2
  Replicas = {w1}
  Requests = {}
  ExternalCrd = FALSE
  MaxTime = 4
  MaxOps = 0
  MaxOverlap = 1
  MaxPushes = 4
  MaxFaults = 2
INVARIANT OncePerFiring
PROPERTY DueIsHandled
CHECK_DEADLOCK FALSE
