SPECIFICATION FairServe
CONSTANTS
  Server = "serve"
  Procs = {"serve"}
  Persistent = TRUE
  Keeps <- TwoKeeps
  RunOnStart = TRUE
  LLMDeadlines = {TRUE, FALSE}
  MaxRuns = 3
  MaxCrashes = 1
  MaxBoots = 3
INVARIANTS ServeInv FileIsASnapshot MemoryIsTheFile CronRunsDoNotOverlap TickedRunsNewestFirst LastRunIsNewest ShutdownLetsTheJobFinish
PROPERTIES AckedSurvives SchedulerRecovers ImplementsRunLog
