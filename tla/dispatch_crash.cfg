SPECIFICATION Spec
CONSTANTS
  a = a
  b = b
  c = c
  r1 = r1
  r2 = r2
  r3 = r3
  w1 = w1
  w2 = w2
  None = None
  Node = {a, b, c}
  Deps <- ForkDeps
  RowPos <- ParentsFirst
  UpToDate = {}
  Runner = {r1, r2}
  Worker = {w1, w2}
  WorkerOf <- TwoHomes
  Home = w1
  Slots <- OneEach
  MaxRunners <- OneEach
  MaxNodeRetries = 1
  External = {}
  Interleaving = FALSE
  FaultKinds = {"crash", "loss", "worker"}
  MaxFaults = 1
  Crashable = {w2}
INVARIANT OneExecutorPerStage
PROPERTY RunnerKeepsItsStage
CHECK_DEADLOCK FALSE
