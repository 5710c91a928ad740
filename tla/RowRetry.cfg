SPECIFICATION FairSpec
CONSTANTS
  r1 = r1
  r2 = r2
  Rows <- TwoRows
  Reports <- AllReports
  Policies <- Tried
  Half = 128
INVARIANTS TypeOK ExactlyOnce AttemptsCounted BackoffDoublesToMax CancelEndsRetrying
PROPERTIES RetriesWhatHelps Returns
CHECK_DEADLOCK FALSE
