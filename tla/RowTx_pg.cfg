SPECIFICATION Spec
CONSTANTS
  w1 = w1
  w2 = w2
  w3 = w3
  Writes <- ThreeWrites
  MaxCalls = 4
  AbortOnError = TRUE
  ScopedCtx = FALSE
SYMMETRY WriteSymmetry
INVARIANTS TypeOK AtomicOutcome InnerFailureUndone SavepointsFollowCalls NothingLeftOpen
PROPERTY ClosingUndoesOnlyOwn
