SPECIFICATION Spec
CONSTANTS
  Setups <- Uncounted
  Ceiling = 2
  MinInt <- LeastInt
  HeadBytes = 60
  Timely = FALSE
INVARIANT OnlyCompleteCounts
