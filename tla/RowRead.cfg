SPECIFICATION FairSpec
CONSTANTS
  r1 = r1
  r2 = r2
  Readers <- Two
  Conns = 2
  MaxRows = 2
INVARIANTS WholeResult ErrorEndsIteration NothingHeld
PROPERTY Served
