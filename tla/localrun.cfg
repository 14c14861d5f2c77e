SPECIFICATION LiveSpec
CONSTANTS
  train = train
  plot = plot
  None = None
  Node = {train, plot}
  Producer <- MCProducer
  Worker = {w1, w2}
  Home = w1
  MaxRunners = 3
  MaxFaults = 1
  Interleaving = TRUE
 
 
 
PROPERTY BothSidesEnd
CHECK_DEADLOCK FALSE
