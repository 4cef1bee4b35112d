SPECIFICATION FairSpec
CONSTANTS
  None = None
  Procs = {p1}
  Tickets = {t1, t2, t3}
  Undated = {}
  MinuteLen = 1
  Sinces = {1}
  PageSize = 2
  PageSlack = 8
  BlankPages = 2
  MaxTickets = 2
  Breaker = 1
  EditsDuringRun = FALSE
  SkipAhead = FALSE
  Crowd = 1
  LastTick = 2
  MaxFaults = 2
INVARIANTS
  ReportedStaysAhead
PROPERTY
  EventuallyIngested
