SPECIFICATION Spec
CONSTANTS
  prep = prep
  train = train
  noise = noise
  report = report
  base = base
  code = code
  data = data
  param = param
  Stage = {prep, train, noise, report, base}
  Up <- MCUp
  Part <- MCPart
  Code = {code}
  Data = {data}
  Param = {param}
  Reads <- MCReads
  Frozen = {base}
  Always = {noise}
  MaxVersion = 2
  MaxEdits = 2
  MaxJobs = 2
  MaxClears = 1
INVARIANT JobReproduces
INVARIANT Idempotent
PROPERTY RealignHidesOnlyCode
CHECK_DEADLOCK FALSE
