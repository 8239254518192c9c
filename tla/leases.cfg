SPECIFICATION Spec
CONSTANTS
  VMs = {v1, v2}
  Oids <- ThreeOids
  Templates <- Apart
  NicLists <- Nic2
  NoIp = no_ip
  NoNet = no_net
  NoRow = no_row
  Free = free
  Scenarios = {{"drop"}, {"restart", "error"}}
INVARIANTS AddressHeldOnce LeasesRemembered
PROPERTY RefusedOnlyWhenFull
SYMMETRY Interchangeable
CHECK_DEADLOCK FALSE
