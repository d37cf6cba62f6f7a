SPECIFICATION FairSpec
CONSTANTS
  Reads = {r1, r2}
  Writes = {w1, w2}
  Once = {r2}
  Sync = {w2}
  None = None
  Counts = {0, 2, 5}
  ULong = 4
  Window = 2
  Exclusive = TRUE
INVARIANTS ExactRead StaysInBuffer
PROPERTIES ImplementsByteStream CallsFinish
CHECK_DEADLOCK FALSE
