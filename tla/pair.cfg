SPECIFICATION Spec
CONSTANTS
  VMs = {v1, v2}
  Hosts = {h1, h2}
  NoHost = none
  Api = {"deploy", "live_migrate", "suspend", "finalize"}
  MaxRequests = 4
  MaxPolls = 1
  FastManagers = TRUE
  DbFails = FALSE
INVARIANT CapacityExact
SYMMETRY Interchangeable
CHECK_DEADLOCK FALSE
