SPECIFICATION Spec
SYMMETRY Symmetry
CHECK_DEADLOCK FALSE
CONSTANTS
  Requests = {r1, r2}
  Handlers = {h1, h2}
  HookConf <- MCHookConf
  HasContext = TRUE
  MaxVMs = 2
  MaxUpdates = 3
  MaxRestarts = 1
INVARIANT CirclesNeedLex
INVARIANT EntriesAnswered
PROPERTY HookTellsRow
