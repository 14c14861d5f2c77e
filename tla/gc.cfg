SPECIFICATION LiveSpec
CONSTANTS
  lab = lab
  draft = draft
  r1 = r1
  r2 = r2
  r3 = r3
  base = base
  None = None
  Project = {lab, draft}
  BaseOf <- MCBaseOf
  Local = {draft}
  Remote = {lab, draft}
  Run = {r1, r2, r3}
  KeyOf <- MCKeyOf
  OldIdle = {lab, draft}
  Panic = 1
  Lazy = 1
  MaxFree = 1
  MaxRuns = 3
  MaxKills = 1
PROPERTY WorkIsKept
PROPERTY EveryRunEnds
CHECK_DEADLOCK FALSE
