SPECIFICATION LoopSpec
CONSTANTS
  Jobs = {j1, j2, j3}
  Periods = {0, 2}
INVARIANTS OneTimer
PROPERTIES EachHandled TimerRuns
CHECK_DEADLOCK FALSE
