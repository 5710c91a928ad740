SPECIFICATION Spec
CONSTANTS
  Programs <- Programmes
  MaxSpare = 1
  Names <- Columns
  Returning = TRUE
INVARIANTS BranchesApart ClausesMeanConditions ValuesInPlace
