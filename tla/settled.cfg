SPECIFICATION FairSpec
CONSTANTS
  VMs = {v1}
  Hosts = {h1, h2}
  NoHost = none
  Api <- WithoutRestart
  MaxRequests = 6
  MaxPolls = 1
  FastManagers = TRUE
  DbFails = FALSE
INVARIANTS
  TypeOK
  CapacityExact
  DomainsCharged
  OneDomain
  LeasesHeldOnce
PROPERTY ImplementsLifeCycle
CHECK_DEADLOCK FALSE
