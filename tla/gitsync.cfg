SPECIFICATION LiveSpec
CONSTANTS
  a = a
  b = b
  c = c
  x = x
  r1 = r1
  r2 = r2
  NoFile = NoFile
  None = None
  Planned = {a, b, c}
  Others = {x}
  Dep <- ChainAndOne
  Runner = {r1, r2}
  Modes = {"parallel", "classic"}
  StartLock <- OtherRan
  MaxVersion = 2
  MaxTries = 2
  FaultKinds = {"crash", "timeout", "lost", "stage"}
  MaxFaults = 1
  MaxCommits = 1
 
INVARIANT OutsMatchLock
 
PROPERTY ImplementsStore
PROPERTY EveryResultPublished
CHECK_DEADLOCK FALSE
