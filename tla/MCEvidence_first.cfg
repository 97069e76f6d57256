\* Two uploads that race for the first version of an item.
SPECIFICATION Spec
CONSTANTS
  Items = {i1}
  Seeded = {}
  Requests = {r1, r2}
  Edits = FALSE
  None = None
SYMMETRY Symmetric
CHECK_DEADLOCK FALSE
INVARIANTS
  VersionsUnique
