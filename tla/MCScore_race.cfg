\* A draft, a confirmed row and three calls: what the handlers do, and a caller of the
\* store that withdraws scores.
SPECIFICATION Spec
CONSTANTS
  Requests = {r1, r2, r3}
  Drafts = {d1}
  Confirmed = {c1}
  StatusOps = {"SUPERSEDED"}
  NoReq = NoReq
SYMMETRY Symmetric
CHECK_DEADLOCK FALSE
INVARIANTS
  TypeOK
  ReplacedOnce
  AuditComplete
PROPERTIES
  ImplementsLedger
