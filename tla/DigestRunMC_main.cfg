SPECIFICATION Spec
CONSTANTS
  Sources <- TwoSources
  Sinks <- TwoSinks
  WithLLM = {TRUE, FALSE}
  LLMAttempts = 2
  LLMDeadlines = {TRUE}
  Cancellable = TRUE
  TokenCounts <- AnyTokens
  Legible = 1
  Counts <- Wide
INVARIANTS TypeOK PromiseInv IncompleteIsNamed WorstFirst DeliveryIsTruthful AtMostAttempts MetricsMatchMessages ExitTellsTheTruth
