SPECIFICATION FairSpec
CONSTANTS
  api = api
  web = web
  twin = twin
  Requests <- MCRequests
  Stem <- MCStem
  MayStopForced = FALSE
  MaxClones = 2
  MaxFaults = 2
INVARIANTS
  TypeOK
  CarriedIsWhole
  ChainParcelIsWhole
  ParcelAccountsForAll
PROPERTIES
  WorkIsKept
  EventuallyAudited
