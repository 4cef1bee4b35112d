SPECIFICATION FairSpec
CONSTANTS
  small = small
  medium = medium
  large = large
  Calls = {small, medium, large}
  Size <- MCSize
  MaxAttempts = 3
  Cap = 9
  Concurrency = 2
  MaxReported = 2
  Honest = TRUE
  NoUsage = NoUsage
INVARIANTS
  TypeOK
  TotalWithinCap
  BillCovered
PROPERTY
  AllSettle
