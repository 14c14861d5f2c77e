SPECIFICATION LiveSpec
CONSTANTS
  p = p
  q = q
  r = r
  c1 = c1
  c2 = c2
  a = a
  f = f
  e = e
  h = h
  g = g
  w1 = w1
  w2 = w2
  Parallel <- MCParallel
  Classic <- MCClassic
  Stage <- MCStage
  JobOf <- MCJobOf
  Parent <- MCParent
  Need <- MCNeed
  Prio <- MCPrio
  User <- MCUser
  Created <- MCCreated
  Repo <- MCRepo
  Branch <- MCBranch
  Worker <- MCWorker
  Cap <- MCCap
  Rank <- MCRank
  MaxWorkersPerJob = 2
INVARIANT StageHasMachine
PROPERTY NoOvercommit
PROPERTY RepoApart
PROPERTY EveryJobEnds
CHECK_DEADLOCK FALSE
