SPECIFICATION Spec
CONSTANTS
  Programs <- Ordered
  MaxSpare = 1
  Names <- Columns
  Returning = TRUE
INVARIANT NeverWider
