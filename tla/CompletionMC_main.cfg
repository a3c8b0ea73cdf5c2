SPECIFICATION FairSpec
CONSTANTS
  Providers = {"ollama", "openai-compatible"}
  Attempts = 3
  Deadline = TRUE
  Texts <- Many
  MaxChars = 5
INVARIANTS CompletionInv OnlyTransientIsRetried ResultIsTheLastOutcome ReasoningHasNoSay WrappingIsStripped CutIsAtABlankOrTheLimit
PROPERTY ReturnsAfterTheDeadline
