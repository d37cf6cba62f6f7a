SPECIFICATION Spec
CONSTANTS
  Objects = {o, p}
  Byte = 2
  Len4 = 2
  Len6 = 3
  Datas4 <- MCDatas4
  Datas6 <- MCDatas6
  Scopes = {1, 3}
  Ports = {1}
  Lists <- MCLists
  Nothing = Nothing
INVARIANTS TypeOK ComparesByValue
PROPERTIES ReachesTarget ShowsTarget
SYMMETRY Symmetry
