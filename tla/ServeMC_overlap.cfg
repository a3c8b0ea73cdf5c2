SPECIFICATION SpecServe
CONSTANTS
  Server = "serve"
  Procs = {"serve"}
  Persistent = TRUE
  Keeps <- TwoKeeps
  RunOnStart = TRUE
  LLMDeadlines = {TRUE}
  MaxRuns = 2
  MaxCrashes = 0
  MaxBoots = 1
INVARIANT NeverTwoOverlappingRuns
