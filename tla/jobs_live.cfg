SPECIFICATION LiveSpec
CONSTANTS
  j1 = j1
  j2 = j2
  j3 = j3
  m = m
  w1 = w1
  w2 = w2
  t1 = t1
  t2 = t2
  None = None
  Job = {j1, m}
  Maintenance = {m}
  BranchOf <- OwnBranch
  Draft = {j1}
  Linked = {}
  Low = {}
  Timed = {j1, m}
  Worker = {w1}
  Thread = {t1}
  Fits <- Everywhere
  Slots = 1
  MaxConcurrent = 1
  MaxSubmits = 1
  MaxRunners = 2
  SlowSpawn = TRUE
  MaxStops = 1
  FaultKinds = {"agent", "scheduler"}
  MaxFaults = 1
INVARIANT MaintenanceAlone
PROPERTY FailedJobsStop
PROPERTY EveryJobEnds
CHECK_DEADLOCK FALSE
