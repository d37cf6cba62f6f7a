SPECIFICATION Spec
CONSTANTS
  Paths = {p1, p2}
  Letters <- MCLetters
  Colon = "colon"
  Separator = "back"
  Slash = "slash"
  Nul = "nul"
  Others = {}
  Literals <- MCLiterals
  MaxLength = 5
  MaxReused = 0
INVARIANTS CacheIsCurrent JoinIsAssociative
PROPERTIES JoinMeets
