SPECIFICATION FairSpec
CONSTANTS
  core = core
  site = site
  a = a
  b = b
  c = c
  None = None
  Calls = {w1, w2}
  MaxRetries = 1
  SleepBudget = 2
  Delays = {1}
  Backoff <- MCBackoff
  Own = {core}
  Org = {site}
  PRs = {a, b, c}
  Listings <- MCListings
  Reviews <- MCReviews
  MaxPages = 1
  MaxFaults = 4
INVARIANTS
  TypeOK
  SleepWithinAllowance
  LatchStopsTraffic
  NoSilentShortfall
PROPERTIES
  EventuallyReviewed
