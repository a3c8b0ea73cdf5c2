SPECIFICATION Spec
CONSTANTS
  Procs = {"old", "new"}
  Persistent = TRUE
  Keeps <- OneKeep
  MaxRuns = 2
  MaxCrashes = 0
PROPERTY AckedSurvives
