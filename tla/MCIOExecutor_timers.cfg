SPECIFICATION FairSpec
CONSTANTS
  Ops = {o1}
  Jobs = {}
  Timers = {t1, t2}
  None = None
  Delays = {0, 1, 3, 6}
  TicksPerMs = 2
  Infinite = 2
  MaxClock = 7
  MaxThrows = 0
  PostMayFail = FALSE
PROPERTIES NeverOversleeps RunReturns
CHECK_DEADLOCK FALSE
