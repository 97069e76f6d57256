\* One draft, and three calls of any kind: they may create and clone rubrics of their own.
SPECIFICATION Spec
CONSTANTS
  Calls = {r1, r2, r3}
  Drafts = {d1}
  Nobody = Nobody
  Names = {n1}
  Scopes = {s1}
  NoScope = NoScope
  Weights = {1}
  Full = 1
  Points = {0, 1, 2, 3}
  Operations = {"Create", "Clone", "Update", "Archive", "Criterion", "Band"}
SYMMETRY Symmetric
CHECK_DEADLOCK FALSE
INVARIANTS
  TypeOK
  OneActivePerScope
  OneBandPerScore
  AuditTells
PROPERTIES
  ImplementsHistory
