SPECIFICATION FairSpec
CONSTANTS
  VMs = {1, 2, 3}
  Hosts = {1, 2}
  NoHost = 0
  CPU <- MCCPU
  NoMemory = {3}
  Total <- MCTotal
  Free = {0, 1}
  Matching <- MCMatching
  Rank <- MCRank
  Core = 2
  New = {2}
  LcmIsPrompt = TRUE
  MaxErrors = 1
  MaxUser = 1
  MaxReports = 1
INVARIANTS
  SchedulerFits
  HostUsage
PROPERTIES
  Dispatched
CHECK_DEADLOCK FALSE
