SPECIFICATION FairSpec
CONSTANTS
  both = both
  fix = fix
  page = page
  plain = plain
  c1 = c1
  c2 = c2
  c3 = c3
  c4 = c4
  c5 = c5
  jira = jira
  hush = hush
  label = label
  doc = doc
  bug = bug
  chore = chore
  None = None
  Unknown = Unknown
  Calls = {w1, w2}
  MaxRetries = 1
  SleepBudget = 1
  Delays = {1}
  Backoff <- MCBackoff
  Kind <- MCKind
  Messages = {both, fix, page, plain}
  Tickets = {jira, hush, label, doc}
  Refs <- MCRefs
  Signal <- MCSignal
  MaxLookups = 2
  MaxFaults = 2
  Commits = {c1, c2, c3, c4, c5}
  Message <- MCMessage
  Overridden = {c4}
  Weak = {c1, c5}
  WeakSignals = {chore}
  ChunkSize = 4
INVARIANTS
  TypeOK
  TicketsSpeak
  RefusalIsNotCached
  BroughtOnce
  BilledBeforeStored
PROPERTIES
  EventuallyClassified
