SPECIFICATION Spec
CONSTANTS
  noon = noon
  dusk = dusk
  dawn = dawn
  monday = monday
  None = None
  Procs = {p1}
  Commits = {noon, dusk, dawn, monday}
  Time <- MCTime
  Offset <- MCOffset
  DayLen = 2
  WeekLen = 2
  Ranges <- AnyDays
  Scopes <- SomeBranches
  LastDay = 3
  LatePush = TRUE
INVARIANTS
  ForcedRunIsComplete
