SPECIFICATION FairSpec
CONSTANTS
  h = h
  k = k
  l = l
  jh = jh
  jl = jl
  rh = rh
  rl = rl
  rm = rm
  u1 = u1
  u2 = u2
  w1 = w1
  w2 = w2
  None = None
  Stage = {h, l}
  Job = {jh, jl}
  JobOf <- Jobs
  User <- Users
  Prio <- Prios
  Fits <- OnFirst
  Runner = {rh, rl}
  RunnerJob <- RunnerJobs
  Worker = {w1}
  WorkerOf <- OneMachine
  Capacity <- OneSlot
  MaxNodeRetries = 1
  MaxPreempt = 2
  Ends = {"done", "failed"}
  Interleaving = FALSE
  FaultKinds = {"crash", "loss", "stop"}
  MaxFaults = 1
PROPERTY HighRuns
PROPERTY PreemptionEnds
PROPERTY StagesEnd
CHECK_DEADLOCK FALSE
