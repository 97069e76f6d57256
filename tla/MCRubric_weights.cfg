\* Two criteria that together are too heavy.
SPECIFICATION Spec
CONSTANTS
  Calls = {r1, r2}
  Drafts = {d1}
  Nobody = Nobody
  Names = {n1}
  Scopes = {s1}
  NoScope = NoScope
  Weights = {2}
  Full = 2
  Points = {0, 1}
  Operations = {"Criterion"}
SYMMETRY Symmetric
CHECK_DEADLOCK FALSE
INVARIANTS
  WeightsBounded
