SPECIFICATION Spec
CONSTANTS
  h = h
  k = k
  l = l
  jh = jh
  jl = jl
  rh = rh
  rl = rl
  rm = rm
  u1 = u1
  u2 = u2
  w1 = w1
  w2 = w2
  None = None
  Stage = {h, k, l}
  Job = {jh, jl}
  JobOf <- Jobs
  User <- Users
  Prio <- Prios
  Fits <- OnFirst
  Runner = {rh, rl, rm}
  RunnerJob <- RunnerJobs
  Worker = {w1, w2}
  WorkerOf <- TwoMachines
  Capacity <- OneSlot
  MaxNodeRetries = 1
  MaxPreempt = 1
  Ends = {"done", "oom"}
  Interleaving = TRUE
  FaultKinds = {"crash", "loss", "stop"}
  MaxFaults = 1
SYMMETRY LowStages
INVARIANT TypeOK
INVARIANT NoOverload
PROPERTY HeldUntilStopped
PROPERTY CountedOnce
 
CHECK_DEADLOCK FALSE
