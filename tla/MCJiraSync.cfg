SPECIFICATION Spec
CONSTANTS
  None = None
  Procs = {p1}
  Tickets = {t1, t2, t3}
  Undated = {t3}
  MinuteLen = 2
  Sinces = {1}
  PageSize = 2
  PageSlack = 8
  BlankPages = 1
  MaxTickets = 2
  Breaker = 2
  EditsDuringRun = FALSE
  SkipAhead = FALSE
  Crowd = 3
  LastTick = 3
  MaxFaults = 2
INVARIANT
  StaleStaysAhead
PROPERTY
  OkRunIsComplete
