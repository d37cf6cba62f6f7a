SPECIFICATION Spec
CONSTANTS
  Sockets = {s1, s2, s3}
  WithExecutor = {s1, s2}
  Handles = {h1, h2, h3}
  Families = {v4, v6}
  None = None
  Invalid = Invalid
  Careful = TRUE
SYMMETRY Symmetry
INVARIANTS WellOwned CompletionsArrive FamilyIsCurrent
PROPERTIES ImplementsOwnership
