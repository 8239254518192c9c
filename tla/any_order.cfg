SPECIFICATION FairSpec
CONSTANTS
  VMs = {v1}
  Hosts = {h1, h2}
  NoHost = none
  Api <- Operations
  MaxRequests = 3
  MaxPolls = 0
  FastManagers = FALSE
  DbFails = TRUE
INVARIANTS
  RecordsExist
  NoLeaseLeaks
PROPERTIES
  NoRevival
  Progress
CHECK_DEADLOCK FALSE
