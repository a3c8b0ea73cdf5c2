SPECIFICATION FairSpec
CONSTANTS
  Configs <- AllConfigs
  BackoffLimit = 1
INVARIANTS JobInv AdmittedConfigsRun CompleteMeansDelivered PushesAreBounded CheckTellsTheConfig
PROPERTIES NotPushedAgain JobEnds
