CONSTANTS
  g1 = g1
  g2 = g2
  Goroutines = {g1, g2}
  MaxInt = 7
  Narrow = 1
  Unscannable = {"time"}
  Structs <- MCStructs
  NameMapper <- MCNameMapper
  CodeOf <- MCCodeOf
  Jobs <- MCJobs
SPECIFICATION Spec
INVARIANTS
  DescribedAsDocumented
  ReadFaithful
  ErrorsHaveACause
  FilledIn
  RoundTrip
PROPERTIES
  StoreFaithful
