SPECIFICATION Spec
CONSTANTS
  j1 = j1
  j2 = j2
  j3 = j3
  m = m
  w1 = w1
  w2 = w2
  t1 = t1
  t2 = t2
  None = None
  Job = {j1, j2}
  Maintenance = {}
  BranchOf <- OneBranch
  Draft = {}
  Linked = {j1}
  Low = {j1}
  Timed = {}
  Worker = {w1, w2}
  Thread = {t1}
  Fits <- Picky
  Slots = 1
  MaxConcurrent = 1
  MaxSubmits = 1
  MaxRunners = 2
  SlowSpawn = FALSE
  MaxStops = 0
  FaultKinds = {"agent", "partition", "scheduler"}
  MaxFaults = 1
 
INVARIANT BranchExclusive
 
CHECK_DEADLOCK FALSE
