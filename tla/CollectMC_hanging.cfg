SPECIFICATION Spec
CONSTANTS
  Setups <- Hanging
  Ceiling = 2
  MinInt <- LeastInt
  HeadBytes = 60
  Timely = TRUE
INVARIANT OneQueryCostsOnlyItself
