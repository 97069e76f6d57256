\* One root, two ids that are free, and three calls of any kind.
SPECIFICATION Spec
CONSTANTS
  Items = {i1, i2, i3}
  Seeded = {i1}
  Codes = {k1, k2}
  Calls = {c1, c2, c3}
  NoItem = NoItem
  Keep = Keep
SYMMETRY Symmetric
CHECK_DEADLOCK FALSE
INVARIANTS
  TypeOK
  CyclesNeedARace
  CreatedOnce
  AuditAccounts
PROPERTIES
  ImplementsTree
