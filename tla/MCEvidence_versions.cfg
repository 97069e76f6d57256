\* Two items, one with a version and one without, and four calls that upload and edit.
SPECIFICATION Spec
CONSTANTS
  Items = {i1, i2}
  Seeded = {i1}
  Requests = {r1, r2, r3, r4}
  Edits = TRUE
  None = None
SYMMETRY Symmetric
CHECK_DEADLOCK FALSE
INVARIANTS
  TypeOK
  ChainsDoNotFork
  AuditNamesVersions
PROPERTIES
  ImplementsHistory
