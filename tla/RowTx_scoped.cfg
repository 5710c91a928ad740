SPECIFICATION FairSpec
CONSTANTS
  w1 = w1
  w2 = w2
  w3 = w3
  Writes <- OneWrite
  MaxCalls = 4
  AbortOnError = FALSE
  ScopedCtx = TRUE
PROPERTIES ImplementsNestedTx ClosingEnds
