SPECIFICATION FairSpec
CONSTANTS
  Sources <- OneSource
  Sinks <- OneHook
  WithLLM = {TRUE, FALSE}
  LLMAttempts = 2
  LLMDeadlines = {TRUE, FALSE}
  Cancellable = TRUE
  TokenCounts <- Usual
  Legible = 1
  Counts <- Signed
PROPERTIES Terminates CancelEndsTheRun KeepsPromise
