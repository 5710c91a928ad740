SPECIFICATION Spec
CONSTANTS
  w1 = w1
  w2 = w2
  w3 = w3
  Writes <- OneWrite
  MaxCalls = 3
  AbortOnError = TRUE
  ScopedCtx = TRUE
INVARIANT InnerFailureUndone
