SPECIFICATION FairSpec
CONSTANTS
  a = a
  b = b
  r = r
  d = d
  e = e
  Names = {a, b}
  Dots = {dot}
  Dirs = {r, d, e}
  Root = r
  File = File
  None = None
  Trees <- MCTrees
  MaxDepth = 3
  MaxChanges = 2
INVARIANTS Complete StackIsPath
PROPERTIES VisitsOnce WalkEnds
CHECK_DEADLOCK FALSE
