SPECIFICATION FairSpec
CONSTANTS
  Setups <- AllSetups
  Ceiling = 2
  MinInt <- LeastInt
  HeadBytes = 60
  Timely = FALSE
INVARIANTS CollectInv NeverAnUndercount NeighboursSurvive LossesAreNamed
PROPERTY ImplementsCollector
