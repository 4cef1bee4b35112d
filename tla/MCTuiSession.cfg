SPECIFICATION FairSpec
CONSTANTS
  None = None
  Repos = {api, web}
  Capacity = 3
  MaxRuns = 2
  MaxFaults = 1
CHECK_DEADLOCK FALSE
INVARIANTS
  TypeOK
  OutcomesShown
  ResultsAreFresh
PROPERTIES
  EventuallyFinished
