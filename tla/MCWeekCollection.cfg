SPECIFICATION Spec
CONSTANTS
  noon = noon
  dusk = dusk
  dawn = dawn
  monday = monday
  None = None
  Procs = {p1, p2}
  Commits = {dusk, dawn}
  Time <- MCTime
  Offset <- MCOffset
  DayLen = 2
  WeekLen = 2
  Ranges <- UntilToday
  Scopes <- OneBranch
  LastDay = 3
  LatePush = TRUE
SYMMETRY ProcSymmetry
INVARIANTS
  TypeOK
  LedgerIsComplete
  CleanRunIsComplete
PROPERTY
  KeepsPromise
