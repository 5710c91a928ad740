SPECIFICATION Spec
CONSTANTS
  g1 = g1
  g2 = g2
  g3 = g3
  q1 = q1
  q2 = q2
  q3 = q3
  q4 = q4
  bad = bad
  Goroutines <- Callers
  Queries <- Statements
  BadQueries <- Rejected
  ShardOf <- Hash
  NumShards = 2
  MaxSize = 4
SYMMETRY CallerSymmetry
INVARIANTS TypeOK MapMatchesList HoldsMostRecent OwnPlan
