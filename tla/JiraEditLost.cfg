SPECIFICATION Spec
CONSTANTS
  None = None
  Procs = {p1}
  Tickets = {t1, t2, t3}
  Undated = {}
  MinuteLen = 1
  Sinces = {}
  PageSize = 2
  PageSlack = 8
  BlankPages = 2
  MaxTickets = 3
  Breaker = 2
  EditsDuringRun = TRUE
  SkipAhead = FALSE
  Crowd = 3
  LastTick = 3
  MaxFaults = 0
PROPERTY
  UnnotedRunLosesNothing
