SPECIFICATION FairSpec
CONSTANTS
  d1 = d1
  d2 = d2
  Drivers = {d1, d2}
  Messages = {2, 3}
  Hosts = {2, 3}
  im_mad <- MadOfHost
  MaxDeaths = 2
  MaxOthers = 1
  RestartsFail = TRUE
  LIMIT = 1
  monitor_period = 1
  EXPIRES = 2
  MaxAsked = 1
  MaxChanges = 1
INVARIANTS
  MonitoringIsAsked
PROPERTIES
  RestartKeepsPipes
  OnlyUsersEnable
  MonitoredAgain
CHECK_DEADLOCK FALSE
