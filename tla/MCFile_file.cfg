SPECIFICATION Spec
CONSTANTS
  Threads = {t, u}
  Files = {f, g}
  Missing = Missing
  Closed = Closed
  Zero = Zero
  Data = Data
  Dword = 3
  Word = 8
  Grain = 3
  Offsets = {0, 1, 3, 7}
  Counts = {0, 1, 2, 4}
  MaxSize = 4
  MaxBegun = 4
PROPERTIES OpenMeets ReadWhole SizeIsAsked ViewMeets StaysMapped
SYMMETRY Symmetry
CHECK_DEADLOCK FALSE
