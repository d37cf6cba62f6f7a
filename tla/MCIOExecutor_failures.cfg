SPECIFICATION Spec
CONSTANTS
  Ops = {o1}
  Jobs = {j1}
  Timers = {t1, t2, t3}
  None = None
  Delays <- MCDelays
  TicksPerMs = 2
  Infinite = 2
  MaxClock = 2
  MaxThrows = 1
  PostMayFail = TRUE
SYMMETRY Symmetry
INVARIANTS CountMatchesWork CalledAtMostOnce PopsWhatItFired
PROPERTIES ReturnsOnlyWhenDone FiresInOrder WaitHasWaker
CHECK_DEADLOCK FALSE
