SPECIFICATION Spec
CONSTANTS
  Sources <- OneSource
  Sinks <- OneSink
  WithLLM = {TRUE}
  LLMAttempts = 2
  LLMDeadlines = {TRUE}
  Cancellable = TRUE
  TokenCounts <- Usual
  Legible = 1
  Counts <- Signed
INVARIANT DeliveredRunSucceeds
