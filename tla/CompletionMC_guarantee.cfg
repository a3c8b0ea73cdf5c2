SPECIFICATION Spec
CONSTANTS
  Providers = {"ollama"}
  Attempts = 2
  Deadline = TRUE
  Texts <- Unruly
  MaxChars = 5
INVARIANT SummaryIsAsDocumented
