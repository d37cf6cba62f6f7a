SPECIFICATION FairSpec
CONSTANTS
  a = a
  u = u
  r1 = r1
  r2 = r2
  r3 = r3
  w1 = w1
  w2 = w2
  Sockets = {a, u}
  Known = {a}
  Reads = {r1, r2, r3}
  Writes = {w1, w2}
  Sync = {r3, w2}
  On <- MCOn
  Count <- MCCount
  Cells = {c1, c2}
  None = None
  ULong = 4
  MaxCopies = 2
INVARIANTS SenderReported BlocksOwned
PROPERTIES ImplementsService CallsFinish
CHECK_DEADLOCK FALSE
