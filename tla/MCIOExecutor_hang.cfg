SPECIFICATION FairSpec
CONSTANTS
  Ops = {}
  Jobs = {j1}
  Timers = {}
  None = None
  Delays = {}
  TicksPerMs = 2
  Infinite = 2
  MaxClock = 0
  MaxThrows = 0
  PostMayFail = FALSE
PROPERTIES RunReturns
CHECK_DEADLOCK FALSE
