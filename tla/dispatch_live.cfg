SPECIFICATION FairSpec
CONSTANTS
  a = a
  b = b
  c = c
  r1 = r1
  r2 = r2
  r3 = r3
  w1 = w1
  w2 = w2
  None = None
  Node = {a, b}
  Deps <- PairDeps
  RowPos <- PairRows
  UpToDate = {}
  Runner = {r1, r2}
  Worker = {w1, w2}
  WorkerOf <- TwoHomes
  Home = w1
  Slots <- OneEach
  MaxRunners <- OneEach
  MaxNodeRetries = 1
  External = {b}
  Interleaving = TRUE
  FaultKinds = {"crash", "loss", "partition", "worker"}
  MaxFaults = 1
  Crashable = {w2}
PROPERTY JobEnds
CHECK_DEADLOCK FALSE
