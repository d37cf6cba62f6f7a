SPECIFICATION Spec
CONSTANTS
  Reads = {r1, r2}
  Writes = {w1, w2}
  Once = {}
  Sync = {r2}
  None = None
  Counts = {1, 3}
  ULong = 4
  Window = 2
  Exclusive = FALSE
INVARIANTS NothingLost
CHECK_DEADLOCK FALSE
