SPECIFICATION FairSpec
CONSTANTS
  Ops = {o1, o2}
  Jobs = {j1, j2}
  Timers = {t1}
  None = None
  Delays = {0, 1}
  TicksPerMs = 1
  Infinite = 2
  MaxClock = 1
  MaxThrows = 0
  PostMayFail = FALSE
PROPERTIES CallbacksDelivered HangsOnlyWhenDone ImplementsCompletion
CHECK_DEADLOCK FALSE
